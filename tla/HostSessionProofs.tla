------------------------- MODULE HostSessionProofs -------------------------
(***************************************************************************)
(* No build of a host process is disturbed by that of another, for every   *)
(* number of hosts and whatever is left in the shared memory; and every    *)
(* variable keeps its type, the read the simulator answers being the one   *)
(* its host waits for; and the session implements the host processes of    *)
(* the whole simulator.                                                    *)
(*                                                                         *)
(* Nothing in the build itself sees to it.  The argument is about the      *)
(* kernel: one wrapper at a time waits for its connection, and the ring it *)
(* looks at was cleared and stays empty until its host has been built.     *)
(***************************************************************************)
EXTENDS HostSession, SequenceTheorems, FiniteSetTheorems, NaturalsInduction,
        WellFoundedInduction, TLAPS

(* The forked process, before it has sent its first packet. *)
Starting == {"clean", "make", "exec", "prepare", "hello"}

BuildInv ==
  /\ sim \in [Hosts -> {"init", "waiting", "polling", "running", "req_done",
                        "terminated"}]
  /\ proc \in [Hosts -> {"none", "host"} \cup Starting]
  /\ DOMAIN toSim = Hosts /\ DOMAIN open = Hosts
  /\ \A h \in Hosts :
       /\ proc[h] \in Starting => sim[h] = "waiting" /\ toSim[h] = <<>>
       /\ sim[h] = "init" => proc[h] = "none"
       /\ sim[h] \in {"init", "waiting"} => open[h] = {}
       /\ proc[h] = "exec" => exe
  /\ \A g, h \in Hosts : sim[g] = "waiting" /\ sim[h] = "waiting" => g = h

(* The build invariant holds at the start: no build has begun. *)
LEMMA InitBuild == Init => BuildInv
BY DEF Init, BuildInv, Starting

(* A step of the simulator's kernel keeps at most one build under way. *)
LEMMA KernelBuild ==
  ASSUME BuildInv, KernelStep
  PROVE  BuildInv'
<1>1. PICK h \in Hosts : \/ RunHostProc(h) \/ WaitConnection(h)
                         \/ Receive(h) \/ Answer(h) \/ Spin(h)
  BY DEF KernelStep
<1>2. CASE RunHostProc(h)
  BY <1>2 DEF RunHostProc, Scheduled, BuildInv, Starting, cursor
<1>3. CASE WaitConnection(h)
  BY <1>3 DEF WaitConnection, BuildInv, Starting, cursor
<1>4. CASE Receive(h)
  BY <1>4 DEF Receive, BuildInv, Starting, cursor
<1>5. CASE Answer(h)
  BY <1>5 DEF Answer, BuildInv, Starting, cursor
<1>6. CASE Spin(h)
  BY <1>6 DEF Spin, BuildInv, Starting, rings, cursor
<1> QED BY <1>1, <1>2, <1>3, <1>4, <1>5, <1>6

(* A process that is up changes only its own ring and its place in the     *)
(* trace.                                                                  *)
LEMMA SendingBuild ==
  ASSUME BuildInv, NEW h \in Hosts, proc[h] = "host",
         NEW q, toSim' = [toSim EXCEPT ![h] = q] \/ toSim' = toSim,
         UNCHANGED <<sim, proc, exe, open>>
  PROVE  BuildInv'
BY DEF BuildInv, Starting

(* A step of a forked process keeps the build invariant. *)
LEMMA ProcessBuild ==
  ASSUME BuildInv, NEW h \in Hosts, ProcessStep(h)
  PROVE  BuildInv'
<1>1. CASE MakeClean(h)
  BY <1>1 DEF MakeClean, BuildInv, Starting, rings, cursor
<1>2. CASE Make(h)
  BY <1>2 DEF Make, BuildInv, Starting, rings, cursor
<1>3. CASE Exec(h)
  BY <1>3 DEF Exec, BuildInv, Starting, rings, cursor
<1>4. CASE PrepareConnection(h)
  BY <1>4 DEF PrepareConnection, BuildInv, Starting, cursor
<1>5. CASE SendHello(h)
  BY <1>5 DEF SendHello, Sent, BuildInv, Starting, cursor
<1>6. CASE TrcWrite(h)
  BY <1>6, SendingBuild DEF TrcWrite, At, Sent
<1>7. CASE TrcRead(h)
  BY <1>7, SendingBuild DEF TrcRead, At, Sent
<1>8. CASE ReadPacketData(h)
  BY <1>8 DEF ReadPacketData, BuildInv
<1>9. CASE EntryDone(h)
  BY <1>9, SendingBuild DEF EntryDone, At, rings
<1>10. CASE TrcTerminate(h)
  BY <1>10, SendingBuild DEF TrcTerminate, At, Sent
<1> QED BY <1>1, <1>2, <1>3, <1>4, <1>5, <1>6, <1>7, <1>8, <1>9, <1>10
        DEF ProcessStep

(* Every step keeps the build invariant. *)
LEMMA StepBuild == BuildInv /\ [Next]_vars => BuildInv'
<1> SUFFICES ASSUME BuildInv, [Next]_vars PROVE BuildInv'
  OBVIOUS
<1>1. CASE KernelStep
  BY <1>1, KernelBuild
<1>2. ASSUME NEW h \in Hosts, ProcessStep(h) PROVE BuildInv'
  BY <1>2, ProcessBuild
<1>3. CASE UNCHANGED vars
  BY <1>3 DEF vars, rings, cursor, BuildInv
<1>4. CASE Finished
  BY <1>3, <1>4 DEF Finished
<1> QED BY <1>1, <1>2, <1>3, <1>4 DEF Next

(* run_host_proc and wait_connection (host.cpp, shmem_communicator.cpp):   *)
(* although all hosts are built in one directory, which each build cleans, *)
(* every host process finds the program it has built.                      *)
THEOREM EveryBuildSucceeds == Spec => []EveryHostStarts
<1>1. BuildInv => EveryHostStarts
  BY DEF BuildInv, Starting, EveryHostStarts
<1> QED BY <1>1, InitBuild, StepBuild, PTL DEF Spec

-----------------------------------------------------------------------------
(* The loops of trcWrite and trcRead count bytes down and packets up.      *)

Count(size) == (size + PacketSize - 1) \div PacketSize

(* The number of packets of an entry, whose size a float holds exactly, and the
   bytes they round up to. *)
LEMMA CountFacts ==
  ASSUME NEW size \in 0 .. FloatExact
  PROVE  /\ Count(size) \in 0 .. FloatExact /\ Count(size) <= size
         /\ Rounded(size) = Count(size) * PacketSize
         /\ Rounded(size) < FloatExact + PacketSize
<1> DEFINE n == size + PacketSize - 1
           c == Count(size)
<1>1. PacketSize \in Nat \ {0} /\ FloatExact \in Nat /\ size \in Nat /\ n \in Nat
  BY SessionAssumption
<1>2. c \in Nat /\ c * PacketSize <= n
  BY <1>1 DEF Count
<1>3. Rounded(size) = c * PacketSize
  BY DEF Rounded, Count
<1>4. c <= size
  <2>1. SUFFICES ASSUME c >= size + 1 PROVE FALSE
    BY <1>1, <1>2
  <2>2. PICK d \in Nat : c = size + 1 + d
    <3>1. c - size - 1 \in Nat /\ c = size + 1 + (c - size - 1)
      BY <1>1, <1>2, <2>1
    <3> QED BY <3>1
  <2>3. c * PacketSize = size * PacketSize + PacketSize + d * PacketSize
    BY <1>1, <2>2
  <2>4. size * PacketSize >= size /\ d * PacketSize >= 0
    BY <1>1, <2>2
  <2>5. size * PacketSize \in Nat /\ d * PacketSize \in Nat
    BY <1>1, <2>2
  <2> HIDE DEF c
  <2> QED BY <1>1, <1>2, <2>3, <2>4, <2>5
<1>5. c \in 0 .. FloatExact
  BY <1>1, <1>2, <1>4
<1>6. Rounded(size) < FloatExact + PacketSize
  BY <1>1, <1>2, <1>3
<1> QED BY <1>3, <1>4, <1>5, <1>6

(* left and j are the bytes and the packets of the entry the host is at.   *)
CursorInv ==
  /\ trace \in [Hosts -> Seq(Entry)]
  /\ left \in [Hosts -> Int] /\ j \in [Hosts -> Nat]
  /\ \A h \in Hosts :
       IF trace[h] = <<>> THEN left[h] = 0 /\ j[h] = 0
       ELSE LET c == Count(Head(trace[h]).size)
            IN j[h] <= c /\ left[h] = (c - j[h]) * PacketSize

(* The cursor at the head of a trace. *)
LEMMA CursorAtStart ==
  ASSUME NEW t \in Seq(Entry), NEW l, NEW k, l = LeftOf(t), k = 0
  PROVE  /\ l \in Int /\ k \in Nat
         /\ IF t = <<>> THEN l = 0 /\ k = 0
            ELSE LET c == Count(Head(t).size)
                 IN k <= c /\ l = (c - k) * PacketSize
<1>1. CASE t = <<>>
  BY <1>1 DEF LeftOf
<1>2. CASE t # <<>>
  <2>1. Head(t) \in Entry
    BY <1>2, HeadTailProperties
  <2>2. Head(t).size \in 0 .. FloatExact
    BY <2>1 DEF Entry
  <2> DEFINE c == Count(Head(t).size)
  <2>3. c \in 0 .. FloatExact /\ l = c * PacketSize
    BY <1>2, <2>2, CountFacts DEF LeftOf
  <2>4. PacketSize \in Nat /\ FloatExact \in Nat
    BY SessionAssumption
  <2> HIDE DEF c
  <2>5. l \in Int /\ 0 <= c /\ l = (c - 0) * PacketSize
    BY <2>3, <2>4
  <2> QED BY <1>2, <2>5 DEF c
<1> QED BY <1>1, <1>2

(* The cursor invariant holds at the start. *)
LEMMA InitCursor == Init => CursorInv
<1> SUFFICES ASSUME Init PROVE CursorInv
  OBVIOUS
<1>1. trace \in [Hosts -> Seq(Entry)]
  BY SessionAssumption DEF Init
<1>2. ASSUME NEW h \in Hosts
      PROVE  /\ left[h] \in Int /\ j[h] \in Nat
             /\ IF trace[h] = <<>> THEN left[h] = 0 /\ j[h] = 0
                ELSE LET c == Count(Head(trace[h]).size)
                     IN j[h] <= c /\ left[h] = (c - j[h]) * PacketSize
  <2>1. trace[h] \in Seq(Entry) /\ left[h] = LeftOf(trace[h]) /\ j[h] = 0
    BY <1>1 DEF Init
  <2> QED BY <2>1, CursorAtStart
<1>3. left \in [Hosts -> Int] /\ j \in [Hosts -> Nat]
  BY <1>2 DEF Init
<1> QED BY <1>1, <1>2, <1>3 DEF CursorInv

(* It is kept when a packet of an entry is sent. *)
LEMMA CursorAdvances ==
  ASSUME CursorInv, NEW h \in Hosts, trace[h] # <<>>, left[h] > 0, Advance(h)
  PROVE  CursorInv'
<1> DEFINE c == Count(Head(trace[h]).size)
<1>1. Head(trace[h]) \in Entry
  BY HeadTailProperties DEF CursorInv
<1>2. c \in 0 .. FloatExact
  BY <1>1, CountFacts DEF Entry
<1>3. PacketSize \in Nat \ {0} /\ FloatExact \in Nat
  BY SessionAssumption
<1>4. j[h] \in Nat /\ j[h] <= c /\ left[h] = (c - j[h]) * PacketSize
  BY DEF CursorInv
<1>5. left'[h] = left[h] - PacketSize /\ j'[h] = j[h] + 1
  BY DEF Advance, CursorInv
<1> HIDE DEF c
<1>6. j[h] # c
  BY <1>2, <1>3, <1>4
<1>7. j'[h] \in Nat /\ j'[h] <= c
  BY <1>2, <1>3, <1>4, <1>5, <1>6
<1>8. left'[h] \in Int /\ left'[h] = (c - j'[h]) * PacketSize
  <2> DEFINE k == c - j[h]
             p == PacketSize
  <2>1. k \in Int /\ p \in Nat /\ c - j'[h] = k - 1 /\ left'[h] = k * p - p
    BY <1>2, <1>3, <1>4, <1>5
  <2> HIDE DEF k, p
  <2>2. k * p - p = (k - 1) * p /\ k * p - p \in Int
    BY <2>1
  <2>3. left'[h] \in Int /\ left'[h] = (c - j'[h]) * p
    BY <2>1, <2>2
  <2> QED BY <2>3 DEF p
<1>9. CursorInv' = (/\ left' \in [Hosts -> Int] /\ j' \in [Hosts -> Nat]
                    /\ \A g \in Hosts :
                         IF trace[g] = <<>> THEN left'[g] = 0 /\ j'[g] = 0
                         ELSE LET k == Count(Head(trace[g]).size)
                              IN j'[g] <= k /\ left'[g] = (k - j'[g]) * PacketSize)
  BY DEF Advance, CursorInv
<1>10. left' \in [Hosts -> Int] /\ j' \in [Hosts -> Nat]
  BY <1>7, <1>8 DEF Advance, CursorInv
<1>11. ASSUME NEW g \in Hosts
       PROVE  IF trace[g] = <<>> THEN left'[g] = 0 /\ j'[g] = 0
              ELSE LET k == Count(Head(trace[g]).size)
                   IN j'[g] <= k /\ left'[g] = (k - j'[g]) * PacketSize
  <2>1. CASE g = h
    BY <2>1, <1>7, <1>8 DEF c
  <2>2. CASE g # h
    BY <2>2 DEF Advance, CursorInv
  <2> QED BY <2>1, <2>2
<1> QED BY <1>9, <1>10, <1>11

(* It is kept when the process goes on to the next entry. *)
LEMMA CursorNext ==
  ASSUME CursorInv, NEW h \in Hosts, trace[h] # <<>>, NextEntry(h)
  PROVE  CursorInv'
<1>1. Tail(trace[h]) \in Seq(Entry)
  BY HeadTailProperties DEF CursorInv
<1>2. /\ trace'[h] = Tail(trace[h]) /\ left'[h] = LeftOf(trace'[h]) /\ j'[h] = 0
      /\ \A g \in Hosts \ {h} : trace'[g] = trace[g] /\ left'[g] = left[g] /\ j'[g] = j[g]
  BY DEF NextEntry, CursorInv
<1>3. ASSUME NEW g \in Hosts
      PROVE  /\ trace'[g] \in Seq(Entry) /\ left'[g] \in Int /\ j'[g] \in Nat
             /\ IF trace'[g] = <<>> THEN left'[g] = 0 /\ j'[g] = 0
                ELSE LET c == Count(Head(trace'[g]).size)
                     IN j'[g] <= c /\ left'[g] = (c - j'[g]) * PacketSize
  <2>1. CASE g = h
    BY <1>1, <1>2, <2>1, CursorAtStart
  <2>2. CASE g # h
    BY <1>2, <2>2 DEF CursorInv
  <2> QED BY <2>1, <2>2
<1>4. /\ trace' \in [Hosts -> Seq(Entry)] /\ left' \in [Hosts -> Int]
      /\ j' \in [Hosts -> Nat]
  BY <1>3 DEF NextEntry, CursorInv
<1> QED BY <1>3, <1>4 DEF CursorInv

-----------------------------------------------------------------------------
(* The read that is open in the simulator is the one the host waits for.   *)

Packet == {Hello} \cup {Piece(e, n) : e \in Entry, n \in Nat}

(* The host waits for the read that is last in its ring, or open in the    *)
(* simulator, or answered: there is one, and it is in one of these places. *)
ReadOf(h) ==
  /\ awaiting[h] = {} \/ \E p \in Packet : awaiting[h] = {p}
  /\ awaiting[h] = {} => toHost[h] = <<>>
  /\ awaiting[h] # {} => At(h, "R") /\ left[h] > 0
  /\ \A i \in 1 .. Len(toSim[h]) :
       toSim[h][i].type = "R" => /\ i = Len(toSim[h])
                                 /\ awaiting[h] = {toSim[h][i]}
                                 /\ open[h] = {} /\ toHost[h] = <<>>
  /\ open[h] # {} => open[h] = awaiting[h] /\ toHost[h] = <<>>

RingOf(h) ==
  /\ toSim[h] \in Seq(Packet) /\ Len(toSim[h]) < BufferSize
  /\ \/ toHost[h] = <<>>
     \/ Len(toHost[h]) = 1 /\ Tail(toHost[h]) = <<>>

(* Until a wrapper starts its host the rings are those of earlier runs.    *)
ReadsInv ==
  /\ DOMAIN toHost = Hosts /\ DOMAIN awaiting = Hosts
  /\ \A h \in Hosts :
       IF sim[h] = "init"
       THEN /\ Len(toSim[h]) < BufferSize /\ Len(toHost[h]) < BufferSize
            /\ awaiting[h] = {} /\ open[h] = {}
       ELSE RingOf(h) /\ ReadOf(h)

(* The greeting and the pieces of an entry are packets. *)
LEMMA PacketFacts ==
  /\ Hello \in Packet /\ Hello.type = "W"
  /\ \A e \in Entry, n \in Nat : Piece(e, n) \in Packet /\ Piece(e, n).type = e.api
BY DEF Packet, Hello, Piece, Entry

(* A ring of packets after a push or a pop. *)
LEMMA RingFacts ==
  ASSUME NEW q \in Seq(Packet)
  PROVE  /\ Len(q) \in Nat
         /\ \A p \in Packet :
              /\ Append(q, p) \in Seq(Packet) /\ Len(Append(q, p)) = Len(q) + 1
              /\ Append(q, p)[Len(q) + 1] = p
              /\ \A i \in 1 .. Len(q) : Append(q, p)[i] = q[i]
         /\ q # <<>> => /\ Tail(q) \in Seq(Packet) /\ Len(Tail(q)) = Len(q) - 1
                        /\ Len(q) > 0 /\ Head(q) = q[1] /\ Head(q) \in Packet
                        /\ \A i \in 1 .. Len(q) - 1 : Tail(q)[i] = q[i + 1]
<1>1. \A p \in Packet :
         /\ Append(q, p) \in Seq(Packet) /\ Len(Append(q, p)) = Len(q) + 1
         /\ Append(q, p)[Len(q) + 1] = p
         /\ \A i \in 1 .. Len(q) : Append(q, p)[i] = q[i]
  BY AppendProperties
<1>2. Len(q) \in Nat
  BY LenProperties
<1>3. ASSUME q # <<>>
      PROVE  /\ Tail(q) \in Seq(Packet) /\ Len(Tail(q)) = Len(q) - 1
             /\ Len(q) > 0 /\ Head(q) = q[1] /\ Head(q) \in Packet
             /\ \A i \in 1 .. Len(q) - 1 : Tail(q)[i] = q[i + 1]
  <2>1. Tail(q) \in Seq(Packet) /\ Len(Tail(q)) = Len(q) - 1 /\ Head(q) \in Packet
        /\ \A i \in 1 .. Len(Tail(q)) : Tail(q)[i] = q[i + 1]
    BY <1>3, HeadTailProperties
  <2>2. Len(q) # 0
    BY <1>3, EmptySeq
  <2> QED BY <1>2, <2>1, <2>2
<1> QED BY <1>1, <1>2, <1>3

StepOf(h) == \/ RunHostProc(h) \/ WaitConnection(h) \/ Receive(h) \/ Answer(h) \/ Spin(h)
             \/ ProcessStep(h)

(* What one host's step leaves of the others.                              *)
LEMMA ReadsOfOthers ==
  ASSUME BuildInv, CursorInv, ReadsInv, NEW g \in Hosts, StepOf(g), NEW h \in Hosts, h # g
  PROVE  /\ toSim'[h] = toSim[h] /\ toHost'[h] = toHost[h] /\ trace'[h] = trace[h]
         /\ left'[h] = left[h] /\ awaiting'[h] = awaiting[h] /\ open'[h] = open[h]
         /\ sim'[h] = sim[h] /\ proc'[h] = proc[h]
BY DEF StepOf, ProcessStep, MakeClean, Make, Exec, PrepareConnection, SendHello, TrcWrite, TrcRead,
       ReadPacketData, EntryDone, TrcTerminate, RunHostProc, WaitConnection, Receive, Answer,
       Spin, Sent, Advance, NextEntry, rings, cursor, BuildInv, CursorInv, ReadsInv

(* The ring of requests when its first packet is taken, or one is added.   *)
LEMMA RequestTaken ==
  ASSUME NEW h \in Hosts, RingOf(h), ReadOf(h), toSim[h] # <<>>,
         toSim'[h] = Tail(toSim[h]),
         UNCHANGED <<toHost, awaiting, trace, left>>, proc'[h] = proc[h],
         \/ open' = open
         \/ open'[h] = {q \in {Head(toSim[h])} : q.type = "R"}
  PROVE  RingOf(h)' /\ ReadOf(h)'
<1> DEFINE q == toSim[h]
           n == Len(q)
           t == Tail(q)
<1>1. /\ t \in Seq(Packet) /\ Len(t) = n - 1 /\ n \in Nat /\ n > 0 /\ Head(q) = q[1]
      /\ Head(q) \in Packet /\ \A i \in 1 .. n - 1 : t[i] = q[i + 1]
  BY RingFacts DEF RingOf
<1>2. BufferSize \in Nat /\ n < BufferSize
  BY SessionAssumption DEF RingOf
<1>3. \A i \in 1 .. n : q[i].type = "R" => /\ i = n /\ awaiting[h] = {q[i]}
                                          /\ open[h] = {} /\ toHost[h] = <<>>
  BY DEF ReadOf
<1> HIDE DEF n, t
<1>4. RingOf(h)'
  BY <1>1, <1>2 DEF RingOf, t
<1>5. ASSUME NEW i \in 1 .. n - 1, t[i].type = "R"
      PROVE  /\ i = n - 1 /\ awaiting[h] = {t[i]} /\ open[h] = {} /\ toHost[h] = <<>>
             /\ q[1].type # "R"
  <2>1. i + 1 \in 1 .. n /\ t[i] = q[i + 1] /\ 1 \in 1 .. n /\ 1 # n
    BY <1>1, <1>5
  <2>2. i + 1 = n /\ awaiting[h] = {q[i + 1]} /\ open[h] = {} /\ toHost[h] = <<>>
    BY <1>3, <1>5, <2>1
  <2> QED BY <1>1, <1>3, <2>1, <2>2
<1>6. open'[h] = open[h] \/ (q[1].type = "R" /\ open'[h] = {q[1]}) \/ (q[1].type # "R" /\ open'[h] = {})
  BY <1>1
<1>7. \A i \in 1 .. n - 1 : t[i].type = "R" => /\ i = n - 1 /\ awaiting'[h] = {t[i]}
                                              /\ open'[h] = {} /\ toHost'[h] = <<>>
  BY <1>5, <1>6
<1>8. open'[h] # {} => open'[h] = awaiting'[h] /\ toHost'[h] = <<>>
  <2>1. CASE open'[h] = open[h]
    BY <2>1 DEF ReadOf
  <2>2. CASE q[1].type = "R" /\ open'[h] = {q[1]}
    <3>1. 1 \in 1 .. n
      BY <1>1
    <3> QED BY <1>3, <2>2, <3>1
  <2> QED BY <1>6, <2>1, <2>2
<1>9. At(h, "R")' = At(h, "R")
  BY DEF At
<1>10. toSim'[h] = t /\ Len(toSim'[h]) = n - 1
  BY <1>1 DEF t
<1> QED BY <1>4, <1>7, <1>8, <1>9, <1>10 DEF ReadOf

(* A packet sent leaves the ring with at most one read, at its end. *)
LEMMA RequestAdded ==
  ASSUME NEW h \in Hosts, RingOf(h), ReadOf(h), NEW p \in Packet, Sent(h, p),
         h \in DOMAIN toSim, awaiting[h] = {}, open' = open, toHost' = toHost,
         \/ p.type # "R" /\ awaiting' = awaiting
         \/ p.type = "R" /\ awaiting'[h] = {p} /\ At(h, "R")' /\ left'[h] > 0
  PROVE  RingOf(h)' /\ ReadOf(h)'
<1> DEFINE q == toSim[h]
           n == Len(q)
           r == Append(q, p)
<1>1. /\ r \in Seq(Packet) /\ Len(r) = n + 1 /\ n \in Nat /\ r[n + 1] = p
      /\ \A i \in 1 .. n : r[i] = q[i]
  BY RingFacts DEF RingOf
<1>2. toSim'[h] = r /\ n < BufferSize - 1 /\ BufferSize \in Nat
  BY SessionAssumption DEF Sent
<1>3. toHost[h] = <<>> /\ open[h] = {} /\ \A i \in 1 .. n : q[i].type # "R"
  BY DEF ReadOf
<1> HIDE DEF n, r
<1>4. RingOf(h)'
  BY <1>1, <1>2 DEF RingOf
<1>5. \A i \in 1 .. n + 1 : r[i].type = "R" => i = n + 1 /\ p.type = "R"
  BY <1>1, <1>3
<1>6. \A i \in 1 .. n + 1 : r[i].type = "R" =>
         i = n + 1 /\ awaiting'[h] = {r[i]} /\ open'[h] = {} /\ toHost'[h] = <<>>
  BY <1>1, <1>3, <1>5
<1>7. toSim'[h] = r /\ Len(toSim'[h]) = n + 1
  BY <1>1, <1>2
<1>8. awaiting'[h] = {} \/ (awaiting'[h] = {p} /\ At(h, "R")' /\ left'[h] > 0)
  OBVIOUS
<1> QED BY <1>3, <1>4, <1>6, <1>7, <1>8 DEF ReadOf

(* At the start no read is waited for. *)
LEMMA InitReads == Init => ReadsInv
BY SessionAssumption DEF Init, ReadsInv

(* A host's step, and its own read.                                        *)
LEMMA ReadOfSelf ==
  ASSUME BuildInv, CursorInv, ReadsInv, NEW h \in Hosts, StepOf(h), sim[h] # "init"
  PROVE  RingOf(h)' /\ ReadOf(h)'
<1>1. RingOf(h) /\ ReadOf(h)
  BY DEF ReadsInv
<1>2. DOMAIN toSim = Hosts /\ DOMAIN toHost = Hosts /\ DOMAIN open = Hosts
      /\ DOMAIN awaiting = Hosts
  BY DEF BuildInv, ReadsInv
<1>3. proc[h] # "host" => awaiting[h] = {}
  BY <1>1 DEF ReadOf, At
<1>4. ASSUME UNCHANGED <<toSim, toHost, awaiting, open, trace, left>>,
             proc[h] = "host" => proc'[h] = "host"
      PROVE  RingOf(h)' /\ ReadOf(h)'
  BY <1>1, <1>4 DEF RingOf, ReadOf, At
<1>5. CASE RunHostProc(h)
  BY <1>5 DEF RunHostProc
<1>6. CASE WaitConnection(h)
  BY <1>1, <1>2, <1>6, RequestTaken DEF WaitConnection, cursor
<1>7. CASE Receive(h)
  <2>1. open'[h] = {q \in {Head(toSim[h])} : q.type = "R"}
    BY <1>2, <1>7 DEF Receive
  <2> QED BY <1>1, <1>2, <1>7, <2>1, RequestTaken DEF Receive, cursor
<1>8. CASE Answer(h)
  <2>1. PICK p \in open[h] : toHost'[h] = Append(toHost[h], <<p.addr>>)
    BY <1>2, <1>8 DEF Answer
  <2>2. toHost[h] = <<>> /\ open[h] = awaiting[h]
    BY <1>1, <2>1 DEF ReadOf
  <2>3. toHost'[h] = <<<<p.addr>>>>
    BY <2>1, <2>2
  <2>4. Len(toHost'[h]) = 1 /\ Tail(toHost'[h]) = <<>>
    BY <2>3
  <2>5. open'[h] = {} /\ UNCHANGED <<proc, toSim, trace, left, awaiting>>
    BY <1>2, <1>8 DEF Answer, cursor
  <2>6. \A i \in 1 .. Len(toSim[h]) : toSim[h][i].type # "R"
    BY <1>1, <2>1 DEF ReadOf
  <2>7. RingOf(h)'
    BY <1>1, <2>4, <2>5 DEF RingOf
  <2>8. awaiting[h] # {}
    BY <2>1, <2>2
  <2> QED BY <1>1, <2>5, <2>6, <2>7, <2>8 DEF ReadOf, At
<1>9. CASE Spin(h)
  BY <1>4, <1>9 DEF Spin, rings, cursor
<1>10. CASE MakeClean(h)
  BY <1>4, <1>10 DEF MakeClean, rings, cursor, BuildInv
<1>11. CASE Make(h)
  BY <1>4, <1>11 DEF Make, rings, cursor, BuildInv
<1>12. CASE Exec(h)
  BY <1>4, <1>12 DEF Exec, rings, cursor, BuildInv
<1>13. CASE PrepareConnection(h)
  <2>1. /\ toSim'[h] = <<>> /\ toHost'[h] = <<>> /\ awaiting'[h] = {} /\ open'[h] = open[h]
        /\ open[h] = {}
    BY <1>1, <1>2, <1>3, <1>13 DEF PrepareConnection, ReadOf
  <2>2. Len(toSim'[h]) = 0 /\ toSim'[h] \in Seq(Packet) /\ BufferSize \in Nat \ {0}
    BY <2>1, SessionAssumption
  <2> QED BY <2>1, <2>2 DEF RingOf, ReadOf
<1>14. CASE SendHello(h)
  BY <1>1, <1>2, <1>3, <1>14, PacketFacts, RequestAdded DEF SendHello
<1>15. ASSUME NEW api, At(h, api)
       PROVE  Head(trace[h]) \in Entry /\ trace[h] # <<>> /\ Head(trace[h]).api = api
  BY <1>15, HeadTailProperties DEF At, CursorInv
<1>16. CASE TrcWrite(h)
  <2> DEFINE p == Piece(Head(trace[h]), j[h])
  <2>1. p \in Packet /\ p.type = "W"
    BY <1>15, <1>16, PacketFacts DEF TrcWrite, CursorInv
  <2>2. awaiting[h] = {}
    BY <1>1, <1>16 DEF TrcWrite, At, ReadOf
  <2> HIDE DEF p
  <2> QED BY <1>1, <1>2, <1>16, <2>1, <2>2, RequestAdded DEF TrcWrite, p
<1>17. CASE TrcRead(h)
  <2> DEFINE p == Piece(Head(trace[h]), j[h])
  <2>1. p \in Packet /\ p.type = "R"
    BY <1>15, <1>17, PacketFacts DEF TrcRead, CursorInv
  <2>2. awaiting'[h] = {p} /\ At(h, "R")' /\ left'[h] > 0
    BY <1>2, <1>17 DEF TrcRead, At, cursor
  <2> HIDE DEF p
  <2> QED BY <1>1, <1>2, <1>17, <2>1, <2>2, RequestAdded DEF TrcRead, p
<1>18. CASE ReadPacketData(h)
  <2>1. /\ toHost'[h] = <<>> /\ awaiting'[h] = {} /\ UNCHANGED <<toSim, open>>
        /\ toHost[h] # <<>>
    BY <1>1, <1>2, <1>18 DEF ReadPacketData, RingOf
  <2>2. open[h] = {} /\ \A i \in 1 .. Len(toSim[h]) : toSim[h][i].type # "R"
    BY <1>1, <2>1 DEF ReadOf
  <2> QED BY <1>1, <2>1, <2>2 DEF RingOf, ReadOf
<1>19. ASSUME awaiting[h] = {}, UNCHANGED <<toSim, toHost, awaiting, open>>
       PROVE  RingOf(h)' /\ ReadOf(h)'
  BY <1>1, <1>19 DEF RingOf, ReadOf
<1>20. CASE EntryDone(h)
  <2>1. left[h] \in Int /\ left[h] <= 0
    BY <1>20 DEF EntryDone, CursorInv
  <2>2. awaiting[h] = {}
    BY <1>1, <2>1 DEF ReadOf
  <2> QED BY <1>19, <1>20, <2>2 DEF EntryDone, rings
<1>21. CASE TrcTerminate(h)
  <2> DEFINE p == Piece(Head(trace[h]), 0)
  <2>1. p \in Packet /\ p.type = "T"
    BY <1>15, <1>21, PacketFacts DEF TrcTerminate
  <2>2. awaiting[h] = {}
    BY <1>1, <1>21 DEF TrcTerminate, At, ReadOf
  <2> HIDE DEF p
  <2> QED BY <1>1, <1>2, <1>21, <2>1, <2>2, RequestAdded DEF TrcTerminate, p
<1> QED BY <1>5, <1>6, <1>7, <1>8, <1>9, <1>10, <1>11, <1>12, <1>13, <1>14, <1>16,
           <1>17, <1>18, <1>20, <1>21 DEF StepOf, ProcessStep

(* Every step keeps the cursor invariant. *)
LEMMA StepCursor ==
  ASSUME BuildInv, CursorInv, ReadsInv, [Next]_vars
  PROVE  CursorInv'
<1>1. ASSUME UNCHANGED cursor PROVE CursorInv'
  BY <1>1 DEF cursor, CursorInv
<1>2. CASE KernelStep \/ Finished \/ UNCHANGED vars
  BY <1>1, <1>2 DEF KernelStep, RunHostProc, WaitConnection, Receive, Answer, Spin, Finished, vars
<1>3. ASSUME NEW h \in Hosts, ProcessStep(h) PROVE CursorInv'
  <2>1. CASE TrcWrite(h)
    BY <2>1, CursorAdvances DEF TrcWrite, At
  <2>2. CASE ReadPacketData(h)
    <3>1. sim[h] # "init"
      BY <2>2 DEF ReadPacketData, ReadsInv
    <3>2. At(h, "R") /\ left[h] > 0
      BY <2>2, <3>1 DEF ReadPacketData, ReadsInv, ReadOf
    <3> QED BY <2>2, <3>2, CursorAdvances DEF ReadPacketData, At
  <2>3. CASE EntryDone(h) \/ TrcTerminate(h)
    BY <2>3, CursorNext DEF EntryDone, TrcTerminate, At
  <2>4. CASE UNCHANGED cursor
    BY <1>1, <2>4
  <2> QED BY <1>3, <2>1, <2>2, <2>3, <2>4
          DEF ProcessStep, MakeClean, Make, Exec, PrepareConnection, SendHello, TrcRead
<1> QED BY <1>2, <1>3 DEF Next

(* Every step keeps at most one read of each host waited for. *)
LEMMA StepReads ==
  ASSUME BuildInv, CursorInv, ReadsInv, [Next]_vars
  PROVE  ReadsInv'
<1>1. CASE Finished \/ UNCHANGED vars
  <2>1. UNCHANGED vars
    BY <1>1 DEF Finished
  <2> QED BY <2>1 DEF vars, rings, cursor, ReadsInv, RingOf, ReadOf, At
<1>2. ASSUME NEW g \in Hosts, StepOf(g) PROVE ReadsInv'
  <2>1. DOMAIN toHost' = Hosts /\ DOMAIN awaiting' = Hosts
    BY <1>2 DEF StepOf, ProcessStep, MakeClean, Make, Exec, PrepareConnection, SendHello,
        TrcWrite, TrcRead, ReadPacketData, EntryDone, TrcTerminate, RunHostProc,
        WaitConnection, Receive, Answer, Spin, rings, ReadsInv
  <2>2. ASSUME NEW h \in Hosts
        PROVE  IF sim'[h] = "init"
               THEN /\ Len(toSim'[h]) < BufferSize /\ Len(toHost'[h]) < BufferSize
                    /\ awaiting'[h] = {} /\ open'[h] = {}
               ELSE RingOf(h)' /\ ReadOf(h)'
    <3>1. CASE h # g
      <4>1. /\ toSim'[h] = toSim[h] /\ toHost'[h] = toHost[h] /\ trace'[h] = trace[h]
            /\ left'[h] = left[h] /\ awaiting'[h] = awaiting[h] /\ open'[h] = open[h]
            /\ sim'[h] = sim[h] /\ proc'[h] = proc[h]
        BY <1>2, <3>1, ReadsOfOthers
      <4> QED BY <4>1 DEF ReadsInv, RingOf, ReadOf, At
    <3>2. CASE h = g /\ sim[h] # "init"
      <4>1. RingOf(h)' /\ ReadOf(h)'
        BY <1>2, <3>2, ReadOfSelf
      <4>2. sim'[h] # "init"
        BY <1>2, <3>2 DEF StepOf, ProcessStep, MakeClean, Make, Exec, PrepareConnection,
            SendHello, TrcWrite, TrcRead, ReadPacketData, EntryDone, TrcTerminate,
            RunHostProc, WaitConnection, Receive, Answer, Spin, BuildInv
      <4> QED BY <4>1, <4>2
    <3>3. CASE h = g /\ sim[h] = "init"
      <4>1. proc[h] = "none" /\ awaiting[h] = {} /\ open[h] = {}
        BY <3>3 DEF BuildInv, ReadsInv
      <4>2. RunHostProc(h)
        BY <1>2, <3>3, <4>1 DEF StepOf, ProcessStep, MakeClean, Make, Exec,
            PrepareConnection, SendHello, TrcWrite, TrcRead, ReadPacketData, EntryDone,
            TrcTerminate, At, WaitConnection, Receive, Answer, Spin
      <4>3. /\ sim'[h] = "waiting" /\ toSim'[h] = <<>> /\ toHost'[h] = <<>>
            /\ awaiting'[h] = {} /\ open'[h] = {}
        BY <4>1, <4>2 DEF RunHostProc, BuildInv, ReadsInv
      <4>4. Len(toSim'[h]) = 0 /\ toSim'[h] \in Seq(Packet) /\ BufferSize \in Nat \ {0}
        BY <4>3, SessionAssumption
      <4> QED BY <4>3, <4>4 DEF RingOf, ReadOf
    <3> QED BY <3>1, <3>2, <3>3
  <2> QED BY <2>1, <2>2 DEF ReadsInv
<1> QED BY <1>1, <1>2 DEF Next, KernelStep, StepOf

(* The executable is there or not. *)
LEMMA StepExe == exe \in BOOLEAN /\ [Next]_vars => (exe \in BOOLEAN)'
BY DEF Next, KernelStep, RunHostProc, WaitConnection, Receive, Answer, Spin, ProcessStep,
       MakeClean, Make, Exec, PrepareConnection, SendHello, TrcWrite, TrcRead, ReadPacketData,
       EntryDone, TrcTerminate, Finished, vars

(* The rings of each host and the loops of trcWrite and trcRead            *)
(* (traceGenerator.cpp, host.cpp): byte and packet counts keep their       *)
(* bounds, a ring never overflows, and the read that is open in the        *)
(* simulator is the one its host waits for, whatever an earlier run left.  *)
THEOREM TypeCorrect == Spec => []TypeOK
<1> DEFINE IInv == BuildInv /\ CursorInv /\ ReadsInv /\ exe \in BOOLEAN
<1>1. IInv => TypeOK
  <2> SUFFICES ASSUME IInv, NEW h \in Hosts
               PROVE  /\ Len(toSim[h]) < BufferSize
                      /\ Len(toHost[h]) < BufferSize
                      /\ Cardinality(awaiting[h]) <= 1
                      /\ open[h] \subseteq awaiting[h]
                      /\ left[h] \in 1 - PacketSize .. FloatExact + PacketSize
                      /\ j[h] \in 0 .. FloatExact
    BY DEF BuildInv, Starting, TypeOK
  <2>1. BufferSize \in Nat \ {0, 1} /\ PacketSize \in Nat \ {0} /\ FloatExact \in Nat
    BY SessionAssumption
  <2>2. Len(toSim[h]) < BufferSize /\ Len(toHost[h]) < BufferSize
    <3>1. CASE sim[h] = "init"
      BY <3>1 DEF ReadsInv
    <3>2. CASE sim[h] # "init"
      <4>1. Len(toSim[h]) < BufferSize /\ (toHost[h] = <<>> \/ Len(toHost[h]) = 1)
        BY <3>2 DEF ReadsInv, RingOf
      <4>2. CASE toHost[h] = <<>>
        <5>1. Len(toHost[h]) = 0
          BY <4>2
        <5> QED BY <2>1, <4>1, <5>1
      <4>3. CASE Len(toHost[h]) = 1
        BY <2>1, <4>1, <4>3
      <4> QED BY <4>1, <4>2, <4>3
    <3> QED BY <3>1, <3>2
  <2>3. awaiting[h] = {} \/ \E p \in Packet : awaiting[h] = {p}
    BY DEF ReadsInv, ReadOf
  <2>4. Cardinality(awaiting[h]) <= 1
    <3>1. CASE awaiting[h] = {}
      BY <3>1, FS_EmptySet
    <3>2. ASSUME NEW p, awaiting[h] = {p} PROVE Cardinality(awaiting[h]) <= 1
      <4>1. Cardinality(awaiting[h]) = 1
        BY <3>2, FS_Singleton
      <4> QED BY <4>1
    <3> QED BY <2>3, <3>1, <3>2
  <2>5. open[h] \subseteq awaiting[h]
    BY DEF ReadsInv, ReadOf
  <2>6. left[h] \in 1 - PacketSize .. FloatExact + PacketSize /\ j[h] \in 0 .. FloatExact
    <3>1. CASE trace[h] = <<>>
      BY <2>1, <3>1 DEF CursorInv
    <3>2. CASE trace[h] # <<>>
      <4> DEFINE c == Count(Head(trace[h]).size)
                 k == c - j[h]
                 p == PacketSize
      <4>1. Head(trace[h]).size \in 0 .. FloatExact
        <5>1. Head(trace[h]) \in Entry
          BY <3>2, HeadTailProperties DEF CursorInv
        <5> QED BY <5>1 DEF Entry
      <4>2. c \in 0 .. FloatExact /\ c * p < FloatExact + p
        BY <4>1, CountFacts
      <4>3. j[h] \in Nat /\ j[h] <= c /\ left[h] = k * p
        BY <3>2 DEF CursorInv
      <4> HIDE DEF c
      <4>4. k \in Nat /\ c = k + j[h] /\ p \in Nat
        BY <2>1, <4>2, <4>3
      <4>5. left[h] >= 0 /\ left[h] <= c * p /\ left[h] \in Int
        <5> HIDE DEF k, p
        <5>1. c * p = k * p + j[h] * p /\ j[h] * p >= 0 /\ k * p >= 0
          BY <4>3, <4>4
        <5> QED BY <4>3, <4>4, <5>1
      <4>6. c * p \in Int
        BY <4>2, <4>4
      <4>7. j[h] \in 0 .. FloatExact
        BY <2>1, <4>2, <4>3
      <4> QED BY <2>1, <4>2, <4>5, <4>6, <4>7
    <3> QED BY <3>1, <3>2
  <2> QED BY <2>2, <2>4, <2>5, <2>6
<1>2. Init => IInv
  BY InitBuild, InitCursor, InitReads DEF Init
<1>3. IInv /\ [Next]_vars => IInv'
  BY StepBuild, StepCursor, StepReads, StepExe
<1> QED BY <1>1, <1>2, <1>3, PTL DEF Spec
-----------------------------------------------------------------------------
(* Flattening a sequence of sequences (the packets of a trace).            *)

(* Induction over the natural numbers, stated with a set. *)
LEMMA Induction ==
  ASSUME NEW S, 0 \in S, \A n \in Nat : n \in S => n + 1 \in S
  PROVE  \A n \in Nat : n \in S
<1> SUFFICES ASSUME Nat \ S # {} PROVE FALSE
  OBVIOUS
<1> DEFINE Less == {ss \in Nat \X Nat : ss[1] < ss[2]}
<1>a. OpToRel(<, Nat) = Less
  BY Zenon DEF OpToRel
<1>b. IsWellFoundedOn(Less, Nat)
  BY <1>a, NatLessThanWellFounded, Zenon
<1>1. PICK x \in Nat \ S : \A y \in Nat \ S : ~ (<<y, x>> \in Less)
  BY <1>b, WFMin
<1>2. x # 0 /\ x - 1 \in Nat
  OBVIOUS
<1>3. x - 1 \in S
  <2>1. \A y \in Nat : <<y, x>> \in Less <=> y < x
    OBVIOUS
  <2>2. x \in Nat /\ x - 1 < x
    OBVIOUS
  <2> HIDE DEF Less
  <2>3. <<x - 1, x>> \in Less
    BY <1>2, <2>1, <2>2
  <2> QED BY <1>1, <1>2, <2>3
<1>4. (x - 1) + 1 = x
  BY <1>2
<1> QED BY <1>2, <1>3, <1>4

(* The sequence up to its i-th element, flattened. *)
IsFlat(f, s) == f = [i \in 1 .. Len(s) |-> IF i = 1 THEN s[i] ELSE f[i - 1] \o s[i]]

Flat(s) == CHOOSE f : IsFlat(f, s)

(* There is such a function, so that Flat(s) is one. *)
LEMMA FlatExists ==
  ASSUME NEW P, NEW s \in Seq(Seq(P))
  PROVE  /\ DOMAIN Flat(s) = 1 .. Len(s)
         /\ \A i \in 1 .. Len(s) :
              Flat(s)[i] = IF i = 1 THEN s[i] ELSE Flat(s)[i - 1] \o s[i]
<1> DEFINE UpTo(f, n) == f = [i \in 1 .. n |-> IF i = 1 THEN s[i] ELSE f[i - 1] \o s[i]]
           Good == {n \in Nat : \E f : UpTo(f, n)}
<1>1. 0 \in Good
  <2>1. UpTo([i \in 1 .. 0 |-> <<>>], 0)
    OBVIOUS
  <2> QED BY <2>1
<1>2. ASSUME NEW n \in Nat, n \in Good PROVE n + 1 \in Good
  <2>1. PICK f : UpTo(f, n)
    BY <1>2
  <2> DEFINE g == [i \in 1 .. n + 1 |-> IF i = 1 THEN s[i] ELSE f[i - 1] \o s[i]]
  <2>2. \A i \in 1 .. n : f[i] = IF i = 1 THEN s[i] ELSE f[i - 1] \o s[i]
    BY <2>1
  <2>3. ASSUME NEW i \in 1 .. n PROVE g[i] = f[i]
    <3>1. i \in 1 .. n + 1
      OBVIOUS
    <3>2. g[i] = IF i = 1 THEN s[i] ELSE f[i - 1] \o s[i]
      BY <3>1
    <3> QED BY <2>2, <3>2
  <2>4. ASSUME NEW i \in 1 .. n + 1
        PROVE  (IF i = 1 THEN s[i] ELSE f[i - 1] \o s[i])
                 = (IF i = 1 THEN s[i] ELSE g[i - 1] \o s[i])
    <3>1. i # 1 => i - 1 \in 1 .. n
      OBVIOUS
    <3> HIDE DEF g
    <3> QED BY <2>3, <3>1
  <2>5. g = [i \in 1 .. n + 1 |-> IF i = 1 THEN s[i] ELSE g[i - 1] \o s[i]]
    <3> DEFINE G == [i \in 1 .. n + 1 |-> IF i = 1 THEN s[i] ELSE g[i - 1] \o s[i]]
    <3>1. \A i \in 1 .. n + 1 : g[i] = G[i]
      <4> SUFFICES ASSUME NEW i \in 1 .. n + 1 PROVE g[i] = G[i]
        OBVIOUS
      <4>1. g[i] = IF i = 1 THEN s[i] ELSE f[i - 1] \o s[i]
        OBVIOUS
      <4> HIDE DEF g
      <4>2. G[i] = IF i = 1 THEN s[i] ELSE g[i - 1] \o s[i]
        OBVIOUS
      <4> QED BY <2>4, <4>1, <4>2
    <3>2. /\ DOMAIN g = 1 .. n + 1 /\ g = [i \in DOMAIN g |-> g[i]]
          /\ DOMAIN G = 1 .. n + 1 /\ G = [i \in DOMAIN G |-> G[i]]
      OBVIOUS
    <3> HIDE DEF g, G
    <3>3. g = G
      BY <3>1, <3>2
    <3> QED BY <3>3 DEF G
  <2> HIDE DEF g
  <2>6. UpTo(g, n + 1)
    BY <2>5
  <2> HIDE DEF UpTo
  <2> QED BY <2>6
<1>3. Len(s) \in Nat
  BY LenProperties
<1> HIDE DEF Good
<1>4. Len(s) \in Good
  BY <1>1, <1>2, <1>3, Induction
<1>5. \E f : IsFlat(f, s)
  BY <1>4 DEF Good, IsFlat
<1>6. IsFlat(Flat(s), s)
  BY <1>5 DEF Flat
<1> HIDE DEF UpTo
<1> DEFINE F == Flat(s)
<1>7. F = [i \in 1 .. Len(s) |-> IF i = 1 THEN s[i] ELSE F[i - 1] \o s[i]]
  BY <1>6 DEF IsFlat
<1> HIDE DEF F
<1>8. /\ DOMAIN F = 1 .. Len(s)
      /\ \A i \in 1 .. Len(s) : F[i] = IF i = 1 THEN s[i] ELSE F[i - 1] \o s[i]
  BY <1>7
<1> QED BY <1>8 DEF F

(* The flattened beginnings are sequences, too. *)
LEMMA FlatIsSeq ==
  ASSUME NEW P, NEW s \in Seq(Seq(P))
  PROVE  \A i \in 1 .. Len(s) : Flat(s)[i] \in Seq(P)
<1> DEFINE n == Len(s)
           F == Flat(s)
           Good == {i \in Nat : i \in 1 .. n => F[i] \in Seq(P)}
<1>1. n \in Nat /\ \A i \in 1 .. n : s[i] \in Seq(P)
  BY LenProperties, ElementOfSeq
<1>2. \A i \in 1 .. n : F[i] = IF i = 1 THEN s[i] ELSE F[i - 1] \o s[i]
  BY FlatExists
<1>3. 0 \in Good
  BY <1>1
<1> HIDE DEF F, n
<1>4. ASSUME NEW i \in Nat, i \in Good PROVE i + 1 \in Good
  <2> SUFFICES ASSUME i + 1 \in 1 .. n PROVE F[i + 1] \in Seq(P)
    BY DEF Good
  <2>1. CASE i = 0
    <3>1. i + 1 = 1
      BY <2>1
    <3> QED BY <1>1, <1>2, <3>1
  <2>2. CASE i # 0
    <3>1. i \in 1 .. n /\ i + 1 # 1 /\ (i + 1) - 1 = i
      BY <1>1, <2>2
    <3>2. F[i] \in Seq(P) /\ s[i + 1] \in Seq(P)
      BY <1>1, <1>4, <3>1
    <3>3. F[i + 1] = F[i] \o s[i + 1]
      BY <1>2, <3>1
    <3> QED BY <3>2, <3>3, ConcatProperties
  <2> QED BY <2>1, <2>2
<1> HIDE DEF Good
<1>5. \A i \in Nat : i \in Good
  BY <1>3, <1>4, Induction
<1> QED BY <1>1, <1>5 DEF Good, F, n

(* Without its first sequence, a sequence is flattened to what comes after *)
(* the first one.                                                          *)
LEMMA FlatOfTail ==
  ASSUME NEW P, NEW s \in Seq(Seq(P)), s # <<>>
  PROVE  \A i \in 1 .. Len(s) - 1 : Flat(s)[i + 1] = s[1] \o Flat(Tail(s))[i]
<1> DEFINE n == Len(s)
           t == Tail(s)
           F == Flat(s)
           G == Flat(t)
           OneMore(i) == i \in 1 .. n - 1 => F[i + 1] = s[1] \o G[i]
           Good == {i \in Nat : OneMore(i)}
<1>1. /\ n \in Nat /\ \A i \in 1 .. n : s[i] \in Seq(P)
      /\ t \in Seq(Seq(P)) /\ Len(t) = n - 1 /\ \A i \in 1 .. n - 1 : t[i] = s[i + 1]
  BY LenProperties, ElementOfSeq, HeadTailProperties
<1>2. \A i \in 1 .. n : F[i] = IF i = 1 THEN s[i] ELSE F[i - 1] \o s[i]
  BY FlatExists
<1> HIDE DEF t
<1>3. \A i \in 1 .. n - 1 : G[i] = IF i = 1 THEN t[i] ELSE G[i - 1] \o t[i]
  BY <1>1, FlatExists
<1>4. \A i \in 1 .. n - 1 : G[i] \in Seq(P)
  BY <1>1, FlatIsSeq
<1>z. \A x, y, z \in Seq(P) : (x \o y) \o z = x \o (y \o z)
  BY ConcatAssociative
<1>5. 0 \in Good
  BY <1>1
<1> HIDE DEF F, G, n
<1>6. ASSUME NEW i \in Nat, i \in Good PROVE i + 1 \in Good
  <2>a. i \in 1 .. n - 1 => F[i + 1] = s[1] \o G[i]
    BY <1>6
  <2> SUFFICES ASSUME i + 1 \in 1 .. n - 1 PROVE F[(i + 1) + 1] = s[1] \o G[i + 1]
    <3>1. OneMore(i + 1) => i + 1 \in Good
      <4> HIDE DEF OneMore
      <4> QED OBVIOUS
    <3> QED BY <3>1
  <2>1. i + 2 \in 1 .. n /\ (i + 1) + 1 = i + 2 /\ i + 2 # 1 /\ (i + 2) - 1 = i + 1
        /\ 1 \in 1 .. n /\ i + 1 \in 1 .. n
    BY <1>1
  <2>2. F[i + 2] = F[i + 1] \o s[i + 2]
    BY <1>2, <2>1
  <2>3. s[i + 2] = t[i + 1]
    BY <1>1, <2>1
  <2>4. CASE i = 0
    <3>1. i + 1 = 1
      BY <2>4
    <3>2. F[i + 1] = s[1] /\ G[i + 1] = t[i + 1]
      BY <1>2, <1>3, <2>1, <3>1
    <3> QED BY <2>1, <2>2, <2>3, <3>2
  <2>5. CASE i # 0
    <3>1. i \in 1 .. n - 1 /\ i + 1 # 1 /\ (i + 1) - 1 = i
      BY <1>1, <2>5
    <3>2. F[i + 1] = s[1] \o G[i]
      BY <2>a, <3>1
    <3>3. G[i + 1] = G[i] \o t[i + 1]
      BY <1>3, <3>1
    <3>4. s[1] \in Seq(P) /\ G[i] \in Seq(P) /\ t[i + 1] \in Seq(P)
      BY <1>1, <1>4, <2>1, <2>3, <3>1
    <3>5. (s[1] \o G[i]) \o t[i + 1] = s[1] \o (G[i] \o t[i + 1])
      BY <3>4, <1>z
    <3> QED BY <2>1, <2>2, <2>3, <3>2, <3>3, <3>5
  <2> QED BY <2>4, <2>5
<1> HIDE DEF Good
<1>7. \A i \in Nat : i \in Good
  BY <1>5, <1>6, Induction
<1>8. \A i \in Nat : OneMore(i)
  <2> HIDE DEF OneMore
  <2> QED BY <1>7 DEF Good
<1>9. \A i \in 1 .. n - 1 : F[i + 1] = s[1] \o G[i]
  <2> SUFFICES ASSUME NEW i \in 1 .. n - 1 PROVE F[i + 1] = s[1] \o G[i]
    OBVIOUS
  <2>1. i \in Nat
    BY <1>1
  <2>2. OneMore(i)
    <3> HIDE DEF OneMore
    <3> QED BY <1>8, <2>1
  <2> QED BY <2>2
<1> QED BY <1>9 DEF F, G, n, t

(* Flattening, one sequence at a time. *)
LEMMA Flattening ==
  ASSUME NEW P, NEW s \in Seq(Seq(P))
  PROVE  /\ Seqs!FlattenSeq(s) \in Seq(P)
         /\ s = <<>> => Seqs!FlattenSeq(s) = <<>>
         /\ s # <<>> => Seqs!FlattenSeq(s) = Head(s) \o Seqs!FlattenSeq(Tail(s))
<1> DEFINE n == Len(s)
           t == Tail(s)
<1>1. n \in Nat /\ (n = 0 <=> s = <<>>)
  BY LenProperties, EmptySeq
<1>2. n # 0 => Seqs!FlattenSeq(s) = Flat(s)[n]
  BY DEF Seqs!FlattenSeq, Flat, IsFlat
<1>3. n = 0 => Seqs!FlattenSeq(s) = s
  BY DEF Seqs!FlattenSeq
<1>4. n # 0 => Seqs!FlattenSeq(s) \in Seq(P)
  <2>1. n # 0 => n \in 1 .. n
    BY <1>1
  <2> QED BY <1>2, <2>1, FlatIsSeq
<1>5. ASSUME s # <<>> PROVE Seqs!FlattenSeq(s) = Head(s) \o Seqs!FlattenSeq(t)
  <2>1. /\ t \in Seq(Seq(P)) /\ Len(t) = n - 1 /\ Head(s) = s[1] /\ Head(s) \in Seq(P)
        /\ n # 0
    BY <1>1, <1>5, HeadTailProperties
  <2> HIDE DEF t
  <2>2. CASE n = 1
    <3>1. t = <<>> /\ Len(t) = 0
      BY <2>1, <2>2, EmptySeq
    <3>2. Seqs!FlattenSeq(t) = <<>>
      BY <3>1 DEF Seqs!FlattenSeq
    <3>3. Seqs!FlattenSeq(s) = s[1]
      <4>1. 1 \in 1 .. n
        BY <2>2
      <4> QED BY <1>2, <2>1, <2>2, <4>1, FlatExists
    <3> QED BY <2>1, <3>2, <3>3, ConcatEmptySeq
  <2>3. CASE n # 1
    <3>1. n - 1 \in 1 .. n - 1 /\ (n - 1) + 1 = n /\ n - 1 # 0
      BY <1>1, <2>1, <2>3
    <3>2. Flat(s)[n] = s[1] \o Flat(t)[n - 1]
      BY <1>5, <3>1, FlatOfTail DEF t
    <3>3. Seqs!FlattenSeq(t) = Flat(t)[n - 1]
      BY <2>1, <3>1 DEF Seqs!FlattenSeq, Flat, IsFlat
    <3> QED BY <1>2, <2>1, <3>2, <3>3
  <2> QED BY <2>2, <2>3
<1> QED BY <1>1, <1>3, <1>4, <1>5

-----------------------------------------------------------------------------
(* The packets of a trace, and those a host has left                       *)

(* A sequence without its first k elements. *)
From(q, k) == SubSeq(q, k + 1, Len(q))

(* What is left of a sequence, one element less at a time. *)
LEMMA FromFacts ==
  ASSUME NEW P, NEW q \in Seq(P), NEW k \in 0 .. Len(q)
  PROVE  /\ From(q, k) \in Seq(P) /\ Len(From(q, k)) = Len(q) - k
         /\ \A i \in 1 .. Len(q) - k : From(q, k)[i] = q[k + i]
<1>1. /\ Len(q) \in Nat /\ DOMAIN q = 1 .. Len(q)
      /\ \A i \in 1 .. Len(q) : q[i] \in P
  BY LenProperties, ElementOfSeq
<1> DEFINE n == Len(q)
<1>2. k + 1 \in Int /\ n \in Int /\ \A i \in k + 1 .. n : q[i] \in P
  BY <1>1
<1>3. /\ SubSeq(q, k + 1, n) \in Seq(P)
      /\ Len(SubSeq(q, k + 1, n)) = IF k + 1 <= n THEN n - (k + 1) + 1 ELSE 0
      /\ \A i \in 1 .. n - (k + 1) + 1 : SubSeq(q, k + 1, n)[i] = q[k + 1 + i - 1]
  BY <1>2, SubSeqProperties
<1>4. n - (k + 1) + 1 = n - k /\ \A i \in 1 .. n - k : k + 1 + i - 1 = k + i
  BY <1>1
<1>5. (IF k + 1 <= n THEN n - (k + 1) + 1 ELSE 0) = n - k
  <2>1. \A x \in Nat : \A y \in 0 .. x :
           (IF y + 1 <= x THEN x - (y + 1) + 1 ELSE 0) = x - y
    OBVIOUS
  <2> QED BY <1>1, <2>1
<1> QED BY <1>3, <1>4, <1>5 DEF From

(* All of it, then its first element, and the others. *)
LEMMA FromSteps ==
  ASSUME NEW P, NEW q \in Seq(P)
  PROVE  /\ From(q, 0) = q
         /\ \A k \in 0 .. Len(q) - 1 :
              /\ From(q, k) # <<>>
              /\ Head(From(q, k)) = q[k + 1]
              /\ Tail(From(q, k)) = From(q, k + 1)
<1>1. Len(q) \in Nat
  BY LenProperties
<1>2. From(q, 0) = q
  <2>1. 0 \in 0 .. Len(q) /\ Len(q) - 0 = Len(q) /\ \A i \in 1 .. Len(q) : 0 + i = i
    BY <1>1
  <2>2. /\ From(q, 0) \in Seq(P) /\ Len(From(q, 0)) = Len(q)
        /\ \A i \in 1 .. Len(q) : From(q, 0)[i] = q[i]
    BY <2>1, FromFacts
  <2> QED BY <2>2, SeqEqual
<1>3. ASSUME NEW k \in 0 .. Len(q) - 1
      PROVE  /\ From(q, k) # <<>>
             /\ Head(From(q, k)) = q[k + 1]
             /\ Tail(From(q, k)) = From(q, k + 1)
  <2> DEFINE n == Len(q)
             r == From(q, k)
             s == From(q, k + 1)
  <2>1. k \in 0 .. n /\ k + 1 \in 0 .. n /\ n - (k + 1) = n - k - 1 /\ 1 \in 1 .. n - k
    BY <1>1
  <2>2. r \in Seq(P) /\ Len(r) = n - k /\ \A i \in 1 .. n - k : r[i] = q[k + i]
    BY <2>1, FromFacts
  <2>3. s \in Seq(P) /\ Len(s) = n - k - 1 /\ \A i \in 1 .. n - k - 1 : s[i] = q[k + 1 + i]
    BY <2>1, FromFacts
  <2> HIDE DEF r, s, n
  <2>4. r # <<>>
    <3>1. Len(r) # 0
      BY <2>1, <2>2
    <3> QED BY <2>2, <3>1, EmptySeq
  <2>5. Head(r) = r[1] /\ Tail(r) \in Seq(P) /\ Len(Tail(r)) = Len(r) - 1
        /\ \A i \in 1 .. Len(Tail(r)) : Tail(r)[i] = r[i + 1]
    <3>1. r \in Seq(P)
      BY <2>2
    <3> QED BY <2>4, <3>1, HeadTailProperties
  <2>6. Head(r) = q[k + 1]
    BY <2>1, <2>2, <2>5
  <2>7. Len(Tail(r)) = Len(s)
    BY <2>2, <2>3, <2>5
  <2>8. ASSUME NEW i \in 1 .. n - k - 1 PROVE Tail(r)[i] = s[i]
    <3>1. i \in 1 .. Len(Tail(r)) /\ i + 1 \in 1 .. n - k /\ k + (i + 1) = k + 1 + i
      BY <1>1, <2>1, <2>2, <2>5 DEF n
    <3> QED BY <2>2, <2>3, <2>5, <3>1
  <2>9. Tail(r) = s
    BY <2>3, <2>5, <2>7, <2>8, SeqEqual
  <2> QED BY <2>4, <2>6, <2>9 DEF r, s
<1> QED BY <1>2, <1>3

(* A sequence behind another. *)
LEMMA FromConcat ==
  ASSUME NEW P, NEW q \in Seq(P), NEW r \in Seq(P)
  PROVE  /\ q \o r \in Seq(P) /\ Len(q \o r) = Len(q) + Len(r)
         /\ \A k \in 1 .. Len(q) : (q \o r)[k] = q[k]
         /\ From(q \o r, Len(q)) = r
<1> DEFINE n == Len(q)
           m == Len(r)
           c == q \o r
<1>1. n \in Nat /\ m \in Nat
  BY LenProperties
<1>2. /\ c \in Seq(P) /\ Len(c) = n + m
      /\ \A i \in 1 .. n + m : c[i] = IF i <= n THEN q[i] ELSE r[i - n]
  BY ConcatProperties
<1> HIDE DEF n, m, c
<1>3. n \in 0 .. Len(c) /\ Len(c) - n = m
  BY <1>1, <1>2
<1>4. /\ From(c, n) \in Seq(P) /\ Len(From(c, n)) = m
      /\ \A i \in 1 .. m : From(c, n)[i] = c[n + i]
  <2>1. c \in Seq(P)
    BY <1>2
  <2> QED BY <1>3, <2>1, FromFacts
<1>5. ASSUME NEW i \in 1 .. m PROVE From(c, n)[i] = r[i]
  <2>1. n + i \in 1 .. n + m /\ ~ (n + i <= n) /\ (n + i) - n = i
    BY <1>1
  <2> QED BY <1>2, <1>4, <2>1
<1>6. From(c, n) = r
  BY <1>4, <1>5, SeqEqual DEF m
<1>7. \A k \in 1 .. n : c[k] = q[k]
  <2> SUFFICES ASSUME NEW k \in 1 .. n PROVE c[k] = q[k]
    OBVIOUS
  <2>1. k \in 1 .. n + m /\ k <= n
    BY <1>1
  <2> QED BY <1>2, <2>1
<1> QED BY <1>2, <1>6, <1>7 DEF n, m, c

(* The packets that cover the bytes of an entry (the loops of trcWrite and *)
(* trcRead) are as many as the rounding makes them.                        *)
LEMMA NeededIsCount ==
  ASSUME NEW size \in 0 .. FloatExact
  PROVE  Needed(size) = Count(size)
<1> DEFINE c == Count(size)
           p == PacketSize
           Covers(k) == /\ k * p >= size
                        /\ \A m \in 0 .. k - 1 : m * p < size
<1>1. p \in Nat \ {0} /\ size \in Nat /\ c \in 0 .. size
  BY SessionAssumption, CountFacts
<1>2. c * p <= size + p - 1 /\ c * p >= size
  BY <1>1 DEF Count
<1> HIDE DEF c, p
<1>3. ASSUME NEW m \in 0 .. c - 1 PROVE m * p < size
  <2>1. PICK d \in Nat : c = m + 1 + d
    <3>1. c - m - 1 \in Nat /\ c = m + 1 + (c - m - 1)
      BY <1>1
    <3> QED BY <3>1
  <2>2. c * p = m * p + p + d * p /\ d * p >= 0 /\ m * p \in Int /\ d * p \in Int
    BY <1>1, <2>1
  <2> QED BY <1>1, <1>2, <2>2
<1>4. Covers(c)
  BY <1>2, <1>3
<1>5. ASSUME NEW k \in 0 .. size, Covers(k) PROVE k = c
  <2>1. CASE k < c
    <3>1. k \in 0 .. c - 1
      BY <1>1, <2>1
    <3>2. k * p < size /\ k * p >= size /\ k * p \in Int
      BY <1>1, <1>3, <1>5, <3>1
    <3> QED BY <1>1, <3>2
  <2>2. CASE c < k
    <3>1. c \in 0 .. k - 1
      BY <1>1, <2>2
    <3>2. c * p < size /\ c * p \in Int
      BY <1>1, <1>5, <3>1
    <3> QED BY <1>1, <1>2, <3>2
  <2> QED BY <1>1, <2>1, <2>2
<1>6. Needed(size) = CHOOSE k \in 0 .. size : Covers(k)
  BY DEF Needed, p
<1> HIDE DEF Covers
<1>7. (CHOOSE k \in 0 .. size : Covers(k)) = c
  BY <1>1, <1>4, <1>5
<1> QED BY <1>6, <1>7 DEF c

(* The packets of an entry. *)
Pieces(e) == IF e.api = "T" THEN 1 ELSE Count(e.size)

(* They are packets, one for each piece. *)
LEMMA PacketsOfEntry ==
  ASSUME NEW e \in Entry
  PROVE  /\ Pieces(e) \in Nat /\ PacketsOf(e) \in Seq(Packet) /\ Len(PacketsOf(e)) = Pieces(e)
         /\ \A n \in 1 .. Pieces(e) : PacketsOf(e)[n] = Piece(e, n - 1)
<1>1. e.size \in 0 .. FloatExact /\ FloatExact \in Nat
  BY SessionAssumption DEF Entry
<1>2. Needed(e.size) = Count(e.size) /\ Count(e.size) \in Nat
  BY <1>1, NeededIsCount, CountFacts
<1>3. Pieces(e) \in Nat /\ PacketsOf(e) = [n \in 1 .. Pieces(e) |-> Piece(e, n - 1)]
  BY <1>2 DEF Pieces, PacketsOf
<1>4. \A n \in 1 .. Pieces(e) : Piece(e, n - 1) \in Packet
  <2> SUFFICES ASSUME NEW n \in 1 .. Pieces(e) PROVE Piece(e, n - 1) \in Packet
    OBVIOUS
  <2>1. n - 1 \in Nat
    BY <1>3
  <2> QED BY <2>1, PacketFacts
<1>5. PacketsOf(e) \in Seq(Packet)
  BY <1>3, <1>4
<1>6. Len(PacketsOf(e)) = Pieces(e)
  BY <1>3, <1>5
<1>7. \A n \in 1 .. Pieces(e) : PacketsOf(e)[n] = Piece(e, n - 1)
  BY <1>3
<1> QED BY <1>3, <1>5, <1>6, <1>7

(* The packets of a trace are those of its first entry, then the others.   *)
LEMMA PacketsOfTrace ==
  ASSUME NEW t \in Seq(Entry)
  PROVE  /\ Packets(t) \in Seq(Packet)
         /\ t = <<>> => Packets(t) = <<>>
         /\ t # <<>> => Packets(t) = PacketsOf(Head(t)) \o Packets(Tail(t))
<1> DEFINE Cut(u) == [k \in DOMAIN u |-> PacketsOf(u[k])]
<1>1. ASSUME NEW u \in Seq(Entry)
      PROVE  /\ Cut(u) \in Seq(Seq(Packet)) /\ Len(Cut(u)) = Len(u) /\ Len(u) \in Nat
             /\ \A k \in 1 .. Len(u) : Cut(u)[k] = PacketsOf(u[k])
  <2>1. Len(u) \in Nat /\ DOMAIN u = 1 .. Len(u) /\ \A k \in 1 .. Len(u) : u[k] \in Entry
    BY LenProperties, ElementOfSeq
  <2>2. \A k \in 1 .. Len(u) : PacketsOf(u[k]) \in Seq(Packet)
    BY <2>1, PacketsOfEntry
  <2>3. Cut(u) = [k \in 1 .. Len(u) |-> PacketsOf(u[k])]
    BY <2>1
  <2>4. Cut(u) \in Seq(Seq(Packet))
    BY <2>1, <2>2, <2>3
  <2>5. Len(Cut(u)) = Len(u) /\ \A k \in 1 .. Len(u) : Cut(u)[k] = PacketsOf(u[k])
    BY <2>1, <2>3, <2>4
  <2> QED BY <2>1, <2>4, <2>5
<1>2. Packets(t) = Seqs!FlattenSeq(Cut(t)) /\ Packets(Tail(t)) = Seqs!FlattenSeq(Cut(Tail(t)))
  BY DEF Packets
<1> HIDE DEF Cut
<1>3. Cut(t) \in Seq(Seq(Packet)) /\ Len(Cut(t)) = Len(t) /\ Len(t) \in Nat
  BY <1>1
<1>4. ASSUME t = <<>> PROVE Packets(t) = <<>>
  <2>1. Len(t) = 0
    BY <1>4
  <2>2. Cut(t) = <<>>
    BY <1>3, <2>1, EmptySeq
  <2> QED BY <1>2, <1>3, <2>2, Flattening
<1>5. ASSUME t # <<>> PROVE Packets(t) = PacketsOf(Head(t)) \o Packets(Tail(t))
  <2> DEFINE c == Cut(t)
             u == Tail(t)
  <2>1. u \in Seq(Entry) /\ Len(u) = Len(t) - 1 /\ Len(t) # 0 /\ Head(t) = t[1]
        /\ \A k \in 1 .. Len(u) : u[k] = t[k + 1]
    BY <1>3, <1>5, HeadTailProperties, EmptySeq
  <2>2. /\ Cut(u) \in Seq(Seq(Packet)) /\ Len(Cut(u)) = Len(t) - 1
        /\ \A k \in 1 .. Len(t) - 1 : Cut(u)[k] = PacketsOf(u[k])
    <3> HIDE DEF u
    <3> QED BY <1>1, <2>1
  <2>3. c # <<>>
    <3>1. Len(c) # 0
      BY <1>3, <2>1
    <3> QED BY <3>1
  <2>4. Head(c) = c[1] /\ Tail(c) \in Seq(Seq(Packet)) /\ Len(Tail(c)) = Len(c) - 1
        /\ \A k \in 1 .. Len(Tail(c)) : Tail(c)[k] = c[k + 1]
    <3>1. c \in Seq(Seq(Packet))
      BY <1>3
    <3> HIDE DEF c
    <3> QED BY <2>3, <3>1, HeadTailProperties
  <2>5. \A k \in 1 .. Len(t) : c[k] = PacketsOf(t[k])
    BY <1>1
  <2> HIDE DEF c, u
  <2>6. Head(c) = PacketsOf(Head(t))
    <3>1. 1 \in 1 .. Len(t)
      BY <1>3, <2>1
    <3> QED BY <2>1, <2>4, <2>5, <3>1
  <2>7. Len(c) = Len(t)
    BY <1>3 DEF c
  <2>8. ASSUME NEW k \in 1 .. Len(t) - 1 PROVE Tail(c)[k] = Cut(u)[k]
    <3>1. k + 1 \in 1 .. Len(t)
      BY <1>3
    <3> QED BY <2>1, <2>2, <2>4, <2>5, <2>7, <3>1
  <2>9. Tail(c) = Cut(u)
    BY <2>2, <2>4, <2>7, <2>8, SeqEqual
  <2>10. Seqs!FlattenSeq(c) = Head(c) \o Seqs!FlattenSeq(Tail(c))
    BY <1>3, <2>3, Flattening DEF c
  <2> QED BY <1>2, <2>6, <2>9, <2>10 DEF c, u
<1>6. Packets(t) \in Seq(Packet)
  BY <1>2, <1>3, Flattening
<1> QED BY <1>4, <1>5, <1>6

-----------------------------------------------------------------------------
(* The host processes implement those of the whole simulator               *)

(* The loop of a terminating entry is never begun; a host without process  *)
(* was not started; one whose process is up has its first packet in the    *)
(* ring until the wrapper takes it.                                        *)
LoopOf(h) ==
  /\ trace[h] # <<>> /\ Head(trace[h]).api = "T" => j[h] = 0
  /\ proc[h] = "none" => sim[h] = "init"
  /\ proc[h] = "host" /\ sim[h] = "waiting" => toSim[h] # <<>>

LoopInv == /\ awaiting = [h \in Hosts |-> awaiting[h]]
           /\ \A h \in Hosts : LoopOf(h)

HostInv == BuildInv /\ CursorInv /\ ReadsInv /\ LoopInv

(* It holds at the start. *)
LEMMA InitLoop == Init => LoopInv
BY DEF Init, LoopInv, LoopOf

(* A step of a host keeps the position of its loops. *)
LEMMA CursorOfSelf ==
  ASSUME BuildInv, CursorInv, ReadsInv, NEW g \in Hosts, LoopOf(g), StepOf(g)
  PROVE  trace'[g] # <<>> /\ Head(trace'[g]).api = "T" => j'[g] = 0
<1>1. CASE UNCHANGED cursor
  BY <1>1 DEF cursor, LoopOf
<1>2. CASE NextEntry(g)
  BY <1>2 DEF NextEntry, CursorInv
<1>3. CASE Advance(g) /\ trace[g] # <<>> /\ Head(trace[g]).api # "T"
  BY <1>3 DEF Advance
<1>4. CASE TrcWrite(g)
  BY <1>3, <1>4 DEF TrcWrite, At
<1>5. CASE ReadPacketData(g)
  <2>1. At(g, "R")
    BY <1>5 DEF ReadPacketData, ReadsInv, ReadOf
  <2> QED BY <1>3, <1>5, <2>1 DEF ReadPacketData, At
<1>6. ~TrcWrite(g) /\ ~ReadPacketData(g) => UNCHANGED cursor \/ NextEntry(g)
  BY DEF StepOf, ProcessStep, MakeClean, Make, Exec, PrepareConnection, SendHello,
      TrcRead, EntryDone, TrcTerminate, RunHostProc, WaitConnection, Receive, Answer, Spin
<1> QED BY <1>1, <1>2, <1>4, <1>5, <1>6

(* A step of a host keeps the first packet until it is taken. *)
LEMMA GreetingOfSelf ==
  ASSUME BuildInv, CursorInv, ReadsInv, NEW g \in Hosts, LoopOf(g), StepOf(g)
  PROVE  /\ proc'[g] = "none" => sim'[g] = "init"
         /\ proc'[g] = "host" /\ sim'[g] = "waiting" => toSim'[g] # <<>>
<1>1. CASE SendHello(g) \/ TrcWrite(g) \/ TrcRead(g) \/ TrcTerminate(g)
  <2>1. PICK p : Sent(g, p)
    BY <1>1 DEF SendHello, TrcWrite, TrcRead, TrcTerminate
  <2>2. toSim'[g] = Append(toSim[g], p) /\ proc[g] \in {"hello", "host"} /\ sim' = sim
        /\ proc'[g] = "host"
    BY <1>1, <2>1 DEF Sent, BuildInv, SendHello, TrcWrite, TrcRead, TrcTerminate, At
  <2>3. sim[g] # "init"
    BY <2>2 DEF BuildInv
  <2>4. toSim[g] \in Seq(Packet)
    BY <2>3 DEF ReadsInv, RingOf
  <2>5. Append(toSim[g], p) # <<>>
    BY <2>4
  <2> QED BY <2>2, <2>5
<1>2. CASE ReadPacketData(g) \/ EntryDone(g) \/ Answer(g) \/ Spin(g) \/ Receive(g)
  BY <1>2 DEF ReadPacketData, EntryDone, Answer, Spin, Receive, BuildInv, LoopOf, rings
<1>3. CASE MakeClean(g) \/ Make(g) \/ Exec(g) \/ PrepareConnection(g)
  BY <1>3 DEF MakeClean, Make, Exec, PrepareConnection, BuildInv, LoopOf
<1>4. CASE RunHostProc(g) \/ WaitConnection(g)
  BY <1>4 DEF RunHostProc, WaitConnection, BuildInv, LoopOf
<1> QED BY <1>1, <1>2, <1>3, <1>4 DEF StepOf, ProcessStep

(* Every step keeps it. *)
LEMMA StepLoop ==
  ASSUME BuildInv, CursorInv, ReadsInv, LoopInv, [Next]_vars
  PROVE  LoopInv'
<1>1. CASE Finished \/ UNCHANGED vars
  BY <1>1 DEF Finished, vars, cursor, rings, LoopInv, LoopOf
<1>2. ASSUME NEW g \in Hosts, StepOf(g) PROVE LoopInv'
  <2>1. awaiting' = [h \in Hosts |-> awaiting'[h]]
    BY <1>2 DEF StepOf, ProcessStep, MakeClean, Make, Exec, PrepareConnection, SendHello,
        TrcWrite, TrcRead, ReadPacketData, EntryDone, TrcTerminate, RunHostProc,
        WaitConnection, Receive, Answer, Spin, LoopInv
  <2>2. ASSUME NEW h \in Hosts PROVE LoopOf(h)'
    <3>1. CASE h = g
      <4>1. LoopOf(g)
        BY DEF LoopInv
      <4> QED BY <1>2, <3>1, <4>1, CursorOfSelf, GreetingOfSelf DEF LoopOf
    <3>2. CASE h # g
      <4>1. /\ toSim'[h] = toSim[h] /\ trace'[h] = trace[h] /\ sim'[h] = sim[h]
            /\ proc'[h] = proc[h]
        BY <1>2, <3>2, ReadsOfOthers
      <4>2. j'[h] = j[h]
        BY <1>2, <3>2 DEF StepOf, ProcessStep, MakeClean, Make, Exec, PrepareConnection,
            SendHello, TrcWrite, TrcRead, ReadPacketData, EntryDone, TrcTerminate,
            RunHostProc, WaitConnection, Receive, Answer, Spin, Advance, NextEntry,
            cursor, CursorInv
      <4> QED BY <4>1, <4>2 DEF LoopInv, LoopOf
    <3> QED BY <3>1, <3>2
  <2> QED BY <2>1, <2>2 DEF LoopInv
<1> QED BY <1>1, <1>2 DEF Next, KernelStep, StepOf

(* How many packets of its present entry a host has sent. *)
SentOf(h) == j[h] + Cardinality(awaiting[h])

(* What is unsent is the end of the trace's packets, from there on. *)
LEMMA UnsentIs ==
  ASSUME HostInv, NEW h \in Hosts
  PROVE  /\ trace[h] \in Seq(Entry) /\ j[h] \in Nat /\ j[h] + 0 = j[h]
         /\ Unsent(h) = From(Packets(trace[h]), SentOf(h))
         /\ awaiting[h] = {} => SentOf(h) = j[h]
         /\ awaiting[h] # {} => SentOf(h) = j[h] + 1 /\ At(h, "R") /\ left[h] > 0
         /\ trace[h] = <<>> => j[h] = 0 /\ awaiting[h] = {} /\ Unsent(h) = <<>>
         /\ trace[h] # <<>> =>
              /\ Head(trace[h]) \in Entry
              /\ left[h] > 0 <=> j[h] < Count(Head(trace[h]).size)
              /\ Count(Head(trace[h]).size) \in Nat
              /\ j[h] <= Count(Head(trace[h]).size)
              /\ Head(trace[h]).api = "T" => j[h] = 0
<1>1. trace[h] \in Seq(Entry) /\ j[h] \in Nat /\ j[h] + 0 = j[h]
  BY DEF HostInv, CursorInv
<1>2. Unsent(h) = From(Packets(trace[h]), SentOf(h))
  BY DEF Unsent, From, SentOf
<1>3. /\ awaiting[h] = {} \/ \E p \in Packet : awaiting[h] = {p}
      /\ awaiting[h] # {} => At(h, "R") /\ left[h] > 0
  BY DEF HostInv, ReadsInv, ReadOf
<1>4. awaiting[h] = {} => SentOf(h) = j[h]
  BY <1>1, FS_EmptySet DEF SentOf
<1>5. awaiting[h] # {} => SentOf(h) = j[h] + 1
  <2> SUFFICES ASSUME NEW p, awaiting[h] = {p} PROVE SentOf(h) = j[h] + 1
    BY <1>3
  <2>1. Cardinality(awaiting[h]) = 1
    BY FS_Singleton
  <2> QED BY <2>1 DEF SentOf
<1>6. ASSUME trace[h] = <<>> PROVE j[h] = 0 /\ awaiting[h] = {} /\ Unsent(h) = <<>>
  <2>1. j[h] = 0 /\ awaiting[h] = {}
    BY <1>3, <1>6 DEF HostInv, CursorInv, At
  <2>2. Packets(trace[h]) = <<>> /\ Packets(trace[h]) \in Seq(Packet)
    BY <1>1, <1>6, PacketsOfTrace
  <2>3. From(Packets(trace[h]), 0) = <<>>
    BY <2>2, FromSteps
  <2> QED BY <1>2, <1>4, <2>1, <2>3
<1>7. ASSUME trace[h] # <<>>
      PROVE  /\ Head(trace[h]) \in Entry
             /\ left[h] > 0 <=> j[h] < Count(Head(trace[h]).size)
             /\ Count(Head(trace[h]).size) \in Nat
             /\ j[h] <= Count(Head(trace[h]).size)
             /\ Head(trace[h]).api = "T" => j[h] = 0
  <2> DEFINE c == Count(Head(trace[h]).size)
             p == PacketSize
  <2>1. Head(trace[h]) \in Entry
    BY <1>1, <1>7, HeadTailProperties
  <2>2. c \in Nat
    <3>1. Head(trace[h]).size \in 0 .. FloatExact
      BY <2>1 DEF Entry
    <3>2. c \in 0 .. FloatExact
      BY <3>1, CountFacts
    <3> QED BY <3>2, SessionAssumption
  <2>3. j[h] <= c /\ left[h] = (c - j[h]) * p /\ p \in Nat \ {0}
    BY <1>7, SessionAssumption DEF HostInv, CursorInv
  <2> HIDE DEF c, p
  <2>4. left[h] > 0 <=> j[h] < c
    <3> DEFINE d == c - j[h]
    <3>0. j[h] \in Nat /\ c \in Nat /\ j[h] <= c
      BY <1>1, <2>2, <2>3
    <3>1. d \in Nat /\ (j[h] < c <=> d # 0)
      BY <3>0
    <3>3. left[h] = d * p
      BY <2>3
    <3> HIDE DEF d
    <3>2. d # 0 <=> d * p > 0
      BY <2>3, <3>1
    <3> QED BY <3>1, <3>2, <3>3
  <2>5. Head(trace[h]).api = "T" => j[h] = 0
    BY <1>7 DEF HostInv, LoopInv, LoopOf
  <2> QED BY <2>1, <2>2, <2>3, <2>4, <2>5 DEF c
<1> QED BY <1>1, <1>2, <1>3, <1>4, <1>5, <1>6, <1>7

(* The next packet of a host inside an entry. *)
LEMMA NextPiece ==
  ASSUME HostInv, NEW h \in Hosts, trace[h] # <<>>, awaiting[h] = {},
         Head(trace[h]).api = "T" \/ left[h] > 0
  PROVE  /\ Unsent(h) # <<>>
         /\ Head(Unsent(h)) = Piece(Head(trace[h]), j[h])
         /\ Tail(Unsent(h)) = From(Packets(trace[h]), j[h] + 1)
<1> DEFINE e == Head(trace[h])
           all == Packets(trace[h])
           a == PacketsOf(e)
           b == Packets(Tail(trace[h]))
           n == Pieces(e)
           k == j[h]
<1>1. /\ trace[h] \in Seq(Entry) /\ k \in Nat /\ Unsent(h) = From(all, k) /\ e \in Entry
      /\ left[h] > 0 <=> k < Count(e.size)
      /\ e.api = "T" => k = 0
  BY UnsentIs
<1>2. a \in Seq(Packet) /\ Len(a) = n /\ n \in Nat /\ \A i \in 1 .. n : a[i] = Piece(e, i - 1)
  BY <1>1, PacketsOfEntry
<1>3. Tail(trace[h]) \in Seq(Entry)
  BY <1>1, HeadTailProperties
<1>4. all = a \o b /\ b \in Seq(Packet)
  BY <1>1, <1>3, PacketsOfTrace
<1>5. k < n
  BY <1>1 DEF Pieces
<1> HIDE DEF e, all, a, b, n, k
<1>6. /\ a \o b \in Seq(Packet) /\ Len(a \o b) = n + Len(b)
      /\ \A i \in 1 .. n : (a \o b)[i] = a[i]
  <2>1. a \in Seq(Packet) /\ b \in Seq(Packet)
    BY <1>2, <1>4
  <2>2. /\ a \o b \in Seq(Packet) /\ Len(a \o b) = Len(a) + Len(b)
        /\ \A i \in 1 .. Len(a) : (a \o b)[i] = a[i]
    BY <2>1, FromConcat
  <2> QED BY <1>2, <2>2
<1>7. Len(b) \in Nat
  BY <1>4, LenProperties
<1>8. k \in 0 .. Len(all) - 1 /\ k + 1 \in 1 .. n /\ (k + 1) - 1 = k
  BY <1>1, <1>2, <1>4, <1>5, <1>6, <1>7
<1>9. /\ From(all, k) # <<>> /\ Head(From(all, k)) = all[k + 1]
      /\ Tail(From(all, k)) = From(all, k + 1)
  BY <1>4, <1>6, <1>8, FromSteps
<1>10. all[k + 1] = Piece(e, k)
  BY <1>2, <1>4, <1>6, <1>8
<1> QED BY <1>1, <1>9, <1>10 DEF e, all, k

(* After the last packet of an entry the next one begins. *)
LEMMA EntryEnds ==
  ASSUME HostInv, NEW h \in Hosts, trace[h] # <<>>,
         NEW k, k = Pieces(Head(trace[h]))
  PROVE  From(Packets(trace[h]), k) = From(Packets(Tail(trace[h])), 0)
<1> DEFINE a == PacketsOf(Head(trace[h]))
           b == Packets(Tail(trace[h]))
<1>1. trace[h] \in Seq(Entry) /\ Head(trace[h]) \in Entry
  BY UnsentIs
<1>2. a \in Seq(Packet) /\ Len(a) = k
  BY <1>1, PacketsOfEntry
<1>3. Tail(trace[h]) \in Seq(Entry)
  BY <1>1, HeadTailProperties
<1>4. Packets(trace[h]) = a \o b /\ b \in Seq(Packet)
  BY <1>1, <1>3, PacketsOfTrace
<1> HIDE DEF a, b
<1>5. From(a \o b, k) = b /\ From(b, 0) = b
  BY <1>2, <1>4, FromConcat, FromSteps
<1> QED BY <1>4, <1>5 DEF b

Unsents  == [h \in Hosts |-> Unsent(h)]
Asking   == [h \in Hosts |-> Requests(h)]
Answered == [h \in Hosts |-> Responses(h)]

(* A step of g leaves what the others have sent and got. *)
Alone(g) == \A h \in Hosts \ {g} : /\ Unsent(h)' = Unsent(h)
                                   /\ Requests(h)' = Requests(h)
                                   /\ Responses(h)' = Responses(h)

(* Every step is one of a host, and leaves the others. *)
LEMMA StepsAlone ==
  ASSUME HostInv, NEW g \in Hosts, StepOf(g)
  PROVE  Alone(g)
<1> SUFFICES ASSUME NEW h \in Hosts \ {g}
             PROVE  /\ Unsent(h)' = Unsent(h) /\ Requests(h)' = Requests(h)
                    /\ Responses(h)' = Responses(h)
  BY DEF Alone
<1>1. /\ toSim'[h] = toSim[h] /\ toHost'[h] = toHost[h] /\ trace'[h] = trace[h]
      /\ awaiting'[h] = awaiting[h] /\ sim'[h] = sim[h] /\ proc'[h] = proc[h]
  BY ReadsOfOthers DEF HostInv
<1>2. j'[h] = j[h]
  BY DEF StepOf, ProcessStep, MakeClean, Make, Exec, PrepareConnection,
      SendHello, TrcWrite, TrcRead, ReadPacketData, EntryDone, TrcTerminate,
      RunHostProc, WaitConnection, Receive, Answer, Spin, Advance, NextEntry,
      cursor, HostInv, CursorInv
<1> QED BY <1>1, <1>2 DEF Unsent, Requests, Responses

(* A function of the hosts after a step of g. *)
LEMMA OneChanges ==
  ASSUME NEW g \in Hosts, Alone(g)
  PROVE  /\ Unsents' = [Unsents EXCEPT ![g] = Unsent(g)']
         /\ Asking' = [Asking EXCEPT ![g] = Requests(g)']
         /\ Answered' = [Answered EXCEPT ![g] = Responses(g)']
BY DEF Alone, Unsents, Asking, Answered

(* A step of a host that is none of the host process's. *)
LEMMA Stutters ==
  ASSUME NEW g \in Hosts, Alone(g), UNCHANGED awaiting, Unsent(g)' = Unsent(g),
         Requests(g)' = Requests(g), Responses(g)' = Responses(g)
  PROVE  UNCHANGED HP!own
<1>1. Unsents' = Unsents /\ Asking' = Asking /\ Answered' = Answered
  BY DEF Alone, Unsents, Asking, Answered
<1> QED BY <1>1 DEF HP!own, Unsents, Asking, Answered

(* The next packet is sent. *)
LEMMA Sends ==
  ASSUME NEW g \in Hosts, Alone(g), awaiting[g] = {}, Unsent(g) # <<>>,
         Len(Requests(g)) < BufferSize - 1,
         Unsent(g)' = Tail(Unsent(g)),
         Requests(g)' = Append(Requests(g), Head(Unsent(g))),
         Responses(g)' = Responses(g),
         awaiting' = [awaiting EXCEPT ![g] = {p \in {Head(Unsent(g))} : p.type = "R"}]
  PROVE  HP!Send(g)
<1>1. /\ Unsents' = [Unsents EXCEPT ![g] = Tail(@)] /\ Unsents[g] = Unsent(g)
      /\ Asking' = [Asking EXCEPT ![g] = Append(@, Head(Unsents[g]))] /\ Asking[g] = Requests(g)
      /\ Answered' = Answered
  BY OneChanges DEF Unsents, Asking, Answered
<1> QED BY <1>1 DEF HP!Send, Unsents, Asking, Answered

(* An answer is read. *)
LEMMA Gets ==
  ASSUME NEW g \in Hosts, Alone(g), awaiting[g] # {}, Responses(g) # <<>>,
         Unsent(g)' = Unsent(g), Requests(g)' = Requests(g),
         Responses(g)' = Tail(Responses(g)), awaiting' = [awaiting EXCEPT ![g] = {}]
  PROVE  HP!GetResponse(g)
<1>1. /\ Unsents' = Unsents /\ Asking' = Asking
      /\ Answered' = [Answered EXCEPT ![g] = Tail(@)] /\ Answered[g] = Responses(g)
  BY OneChanges DEF Unsents, Asking, Answered
<1> QED BY <1>1 DEF HP!GetResponse, Unsents, Asking, Answered

(* A packet is taken by the simulator. *)
LEMMA Gives ==
  ASSUME NEW g \in Hosts, Alone(g), UNCHANGED awaiting, Unsent(g)' = Unsent(g),
         Requests(g) # <<>>, Requests(g)' = Tail(Requests(g)), Responses(g)' = Responses(g)
  PROVE  HP!GiveRequest(g)
<1>1. /\ Unsents' = Unsents /\ Answered' = Answered
      /\ Asking' = [Asking EXCEPT ![g] = Tail(@)] /\ Asking[g] = Requests(g)
  BY OneChanges DEF Unsents, Asking, Answered
<1> QED BY <1>1 DEF HP!GiveRequest, Unsents, Asking, Answered

(* An answer is put in the ring. *)
LEMMA TakesOne ==
  ASSUME NEW g \in Hosts, Alone(g), UNCHANGED awaiting, Unsent(g)' = Unsent(g),
         Requests(g)' = Requests(g), NEW r, Len(Responses(g)) < BufferSize - 1,
         Responses(g)' = Responses(g) \o <<r>>
  PROVE  HP!TakeResponses(g, <<r>>)
<1>1. /\ Unsents' = Unsents /\ Asking' = Asking
      /\ Answered' = [Answered EXCEPT ![g] = @ \o <<r>>] /\ Answered[g] = Responses(g)
  BY OneChanges DEF Unsents, Asking, Answered
<1> QED BY <1>1 DEF HP!TakeResponses, Unsents, Asking, Answered

(* A packet behind others, when the first of them is gone. *)
LEMMA TailOfAppend ==
  ASSUME NEW P, NEW q \in Seq(P), q # <<>>, NEW p \in P
  PROVE  Tail(Append(q, p)) = Append(Tail(q), p)
<1> DEFINE n == Len(q)
           a == Append(q, p)
           t == Tail(q)
           b == Append(t, p)
<1>1. n \in Nat /\ n # 0
  BY LenProperties, EmptySeq
<1>2. /\ a \in Seq(P) /\ Len(a) = n + 1 /\ a[n + 1] = p /\ \A i \in 1 .. n : a[i] = q[i]
  BY AppendProperties
<1>3. t \in Seq(P) /\ Len(t) = n - 1 /\ \A i \in 1 .. Len(t) : t[i] = q[i + 1]
  BY HeadTailProperties
<1> HIDE DEF n, a, t
<1>4. /\ b \in Seq(P) /\ Len(b) = n /\ b[n] = p /\ \A i \in 1 .. n - 1 : b[i] = t[i]
  <2>1. /\ b \in Seq(P) /\ Len(b) = Len(t) + 1 /\ b[Len(t) + 1] = p
        /\ \A i \in 1 .. Len(t) : b[i] = t[i]
    BY <1>3, AppendProperties
  <2>2. Len(t) = n - 1 /\ (n - 1) + 1 = n
    BY <1>1, <1>3
  <2> HIDE DEF b
  <2> QED BY <2>1, <2>2
<1>5. a # <<>>
  <2>1. Len(a) # 0
    BY <1>1, <1>2
  <2> QED BY <1>2, <2>1, EmptySeq
<1>6. Tail(a) \in Seq(P) /\ Len(Tail(a)) = n /\ \A i \in 1 .. n : Tail(a)[i] = a[i + 1]
  <2>1. a \in Seq(P) /\ Len(a) - 1 = n
    BY <1>1, <1>2
  <2>2. /\ Tail(a) \in Seq(P) /\ Len(Tail(a)) = Len(a) - 1
        /\ \A i \in 1 .. Len(Tail(a)) : Tail(a)[i] = a[i + 1]
    BY <1>5, <2>1, HeadTailProperties
  <2> QED BY <2>1, <2>2
<1> HIDE DEF b
<1>7. ASSUME NEW i \in 1 .. n PROVE Tail(a)[i] = b[i]
  <2>1. CASE i = n
    BY <1>2, <1>4, <1>6, <2>1
  <2>2. CASE i # n
    <3>1. i \in 1 .. n - 1 /\ i \in 1 .. Len(t) /\ i + 1 \in 1 .. n
      BY <1>1, <1>3, <2>2
    <3> QED BY <1>2, <1>3, <1>4, <1>6, <3>1
  <2> QED BY <2>1, <2>2
<1>8. Tail(a) = b
  BY <1>4, <1>6, <1>7, SeqEqual
<1> QED BY <1>8 DEF a, b, t

(* The ring, without the first packet, when one is sent. *)
LEMMA RingSent ==
  ASSUME HostInv, NEW g \in Hosts, proc[g] = "host", NEW p \in Packet, Sent(g, p),
         UNCHANGED <<sim, proc, toHost>>
  PROVE  /\ Len(Requests(g)) < BufferSize - 1
         /\ Requests(g)' = Append(Requests(g), p)
         /\ Responses(g)' = Responses(g)
<1> DEFINE q == toSim[g]
<1>1. sim[g] # "init" /\ DOMAIN toSim = Hosts
  BY DEF HostInv, BuildInv
<1>2. q \in Seq(Packet) /\ Len(q) \in Nat
  BY <1>1, LenProperties DEF HostInv, ReadsInv, RingOf
<1>3. BufferSize \in Nat
  BY SessionAssumption
<1>4. Len(q) < BufferSize - 1 /\ toSim'[g] = Append(q, p)
  BY <1>1 DEF Sent
<1>5. CASE sim[g] = "waiting"
  <2>1. q # <<>>
    BY <1>5 DEF HostInv, LoopInv, LoopOf
  <2>2. Requests(g) = Tail(q) /\ Requests(g)' = Tail(Append(q, p))
    BY <1>4, <1>5 DEF Requests
  <2>3. Len(Tail(q)) = Len(q) - 1
    BY <1>2, <2>1, HeadTailProperties
  <2>4. Tail(Append(q, p)) = Append(Tail(q), p)
    BY <1>2, <2>1, TailOfAppend
  <2>5. Len(q) - 1 < BufferSize - 1
    BY <1>2, <1>3, <1>4
  <2> QED BY <2>2, <2>3, <2>4, <2>5 DEF Responses
<1>6. CASE sim[g] # "waiting"
  BY <1>4, <1>6 DEF Requests, Responses
<1> QED BY <1>5, <1>6

(* Steps of trcWrite, trcRead and trcTerminate send the next packet. *)
LEMMA TraceSends ==
  ASSUME HostInv, NEW g \in Hosts, Alone(g), TrcWrite(g) \/ TrcRead(g) \/ TrcTerminate(g)
  PROVE  HP!Send(g)
<1> DEFINE e == Head(trace[g])
           p == Piece(e, j[g])
<1>1. proc[g] = "host" /\ trace[g] # <<>> /\ UNCHANGED <<sim, proc, toHost>>
  BY DEF TrcWrite, TrcRead, TrcTerminate, At
<1>2. /\ j[g] \in Nat /\ e \in Entry
      /\ awaiting[g] # {} => At(g, "R")
      /\ e.api = "T" => j[g] = 0
      /\ trace[g] \in Seq(Entry)
  BY <1>1, UnsentIs
<1>3. awaiting[g] = {} /\ (e.api = "T" \/ left[g] > 0)
  BY <1>2 DEF TrcWrite, TrcRead, TrcTerminate, At
<1>4. p \in Packet /\ p.type = e.api
  BY <1>2, PacketFacts
<1>5. Sent(g, p)
  BY <1>2 DEF TrcWrite, TrcRead, TrcTerminate, At
<1>6. /\ Len(Requests(g)) < BufferSize - 1 /\ Requests(g)' = Append(Requests(g), p)
      /\ Responses(g)' = Responses(g)
  BY <1>1, <1>4, <1>5, RingSent
<1>7. /\ Unsent(g) # <<>> /\ Head(Unsent(g)) = p
      /\ Tail(Unsent(g)) = From(Packets(trace[g]), j[g] + 1)
  BY <1>1, <1>3, NextPiece
<1>8. awaiting = [h \in Hosts |-> awaiting[h]]
  BY DEF HostInv, LoopInv
<1> HIDE DEF p
<1>9. awaiting' = [awaiting EXCEPT ![g] = {q \in {p} : q.type = "R"}]
  <2>1. CASE TrcRead(g)
    <3>1. p.type = "R" /\ awaiting' = [awaiting EXCEPT ![g] = {p}]
      BY <1>4, <2>1 DEF TrcRead, At, p
    <3>2. {q \in {p} : q.type = "R"} = {p}
      BY <3>1
    <3> QED BY <3>1, <3>2
  <2>2. CASE TrcWrite(g) \/ TrcTerminate(g)
    <3>1. p.type # "R" /\ awaiting' = awaiting
      BY <1>4, <2>2 DEF TrcWrite, TrcTerminate, At
    <3>2. {q \in {p} : q.type = "R"} = {}
      BY <3>1
    <3>3. [awaiting EXCEPT ![g] = {}] = awaiting
      BY <1>3, <1>8
    <3> QED BY <3>1, <3>2, <3>3
  <2> QED BY <2>1, <2>2
<1>10. Unsent(g)' = Tail(Unsent(g))
  <2>0. Unsent(g)' = From(Packets(trace'[g]), j'[g] + Cardinality(awaiting'[g]))
    BY DEF Unsent, From
  <2>1. CASE TrcWrite(g)
    <3>1. trace' = trace /\ awaiting'[g] = {} /\ j'[g] = j[g] + 1
      BY <1>3, <2>1 DEF TrcWrite, Advance, HostInv, CursorInv
    <3>2. j'[g] + Cardinality(awaiting'[g]) = j[g] + 1
      BY <1>2, <3>1, FS_EmptySet
    <3> QED BY <1>7, <2>0, <3>1, <3>2
  <2>2. CASE TrcRead(g)
    <3>1. trace' = trace /\ awaiting'[g] = {p} /\ j'[g] = j[g]
      BY <1>8, <2>2 DEF TrcRead, cursor, p
    <3>2. Cardinality({p}) = 1
      BY FS_Singleton
    <3>3. j'[g] + Cardinality(awaiting'[g]) = j[g] + 1
      BY <3>1, <3>2
    <3> QED BY <1>7, <2>0, <3>1, <3>3
  <2>3. CASE TrcTerminate(g)
    <3>1. trace'[g] = Tail(trace[g]) /\ awaiting'[g] = {} /\ j'[g] = 0 /\ e.api = "T"
      BY <1>3, <2>3 DEF TrcTerminate, NextEntry, HostInv, CursorInv, At
    <3>2. j'[g] + Cardinality(awaiting'[g]) = 0
      BY <3>1, FS_EmptySet
    <3>3. Pieces(e) = j[g] + 1
      BY <1>2, <3>1 DEF Pieces
    <3>4. From(Packets(trace[g]), j[g] + 1) = From(Packets(Tail(trace[g])), 0)
      BY <1>1, <3>3, EntryEnds
    <3> QED BY <1>7, <2>0, <3>1, <3>2, <3>4
  <2> QED BY <2>1, <2>2, <2>3
<1> QED BY <1>3, <1>6, <1>7, <1>9, <1>10, Sends

(* The other steps of a host process. *)
LEMMA ProcessMaps ==
  ASSUME HostInv, NEW g \in Hosts, Alone(g), ProcessStep(g)
  PROVE  HP!Send(g) \/ HP!GetResponse(g) \/ UNCHANGED HP!own
<1>1. CASE TrcWrite(g) \/ TrcRead(g) \/ TrcTerminate(g)
  BY <1>1, TraceSends
<1>2. CASE ReadPacketData(g)
  <2>1. /\ awaiting[g] # {} /\ toHost[g] # <<>> /\ toHost'[g] = Tail(toHost[g])
        /\ awaiting' = [awaiting EXCEPT ![g] = {}] /\ j'[g] = j[g] + 1
        /\ trace' = trace /\ UNCHANGED <<sim, proc, toSim>>
    BY <1>2 DEF ReadPacketData, Advance, HostInv, CursorInv, ReadsInv
  <2>2. At(g, "R") /\ SentOf(g) = j[g] + 1 /\ Unsent(g) = From(Packets(trace[g]), SentOf(g))
        /\ j[g] \in Nat
    BY <2>1, UnsentIs
  <2>3. awaiting'[g] = {}
    BY <2>1 DEF HostInv, ReadsInv
  <2>4. j'[g] + Cardinality(awaiting'[g]) = SentOf(g)
    BY <2>1, <2>2, <2>3, FS_EmptySet
  <2>5. Unsent(g)' = Unsent(g)
    BY <2>1, <2>2, <2>4 DEF Unsent, From
  <2>6. Responses(g) = toHost[g] /\ Responses(g)' = Tail(toHost[g]) /\ Requests(g)' = Requests(g)
    BY <2>1, <2>2 DEF At, Responses, Requests
  <2> QED BY <2>1, <2>5, <2>6, Gets
<1>3. CASE EntryDone(g)
  <2>1. /\ proc[g] = "host" /\ trace[g] # <<>> /\ Head(trace[g]).api # "T" /\ ~ (left[g] > 0)
        /\ trace'[g] = Tail(trace[g]) /\ j'[g] = 0
        /\ UNCHANGED <<sim, proc, toSim, toHost, awaiting>>
    <3>1. left[g] \in Int /\ left[g] <= 0
      BY <1>3 DEF EntryDone, HostInv, CursorInv
    <3> QED BY <1>3, <3>1 DEF EntryDone, At, NextEntry, rings, HostInv, CursorInv
  <2>2. /\ awaiting[g] = {} /\ SentOf(g) = j[g]
        /\ Unsent(g) = From(Packets(trace[g]), SentOf(g))
        /\ ~ (j[g] < Count(Head(trace[g]).size)) /\ j[g] <= Count(Head(trace[g]).size)
        /\ Count(Head(trace[g]).size) \in Nat /\ j[g] \in Nat
    BY <2>1, UnsentIs
  <2>3. j[g] = Pieces(Head(trace[g]))
    BY <2>1, <2>2 DEF Pieces
  <2>4. Unsent(g) = From(Packets(Tail(trace[g])), 0)
    BY <2>1, <2>2, <2>3, EntryEnds
  <2>5. j'[g] + Cardinality(awaiting'[g]) = 0
    BY <2>1, <2>2, FS_EmptySet
  <2>6. Unsent(g)' = Unsent(g)
    BY <2>1, <2>4, <2>5 DEF Unsent, From
  <2>7. Requests(g)' = Requests(g) /\ Responses(g)' = Responses(g)
    BY <2>1 DEF Requests, Responses
  <2> QED BY <2>1, <2>6, <2>7, Stutters
<1>4. CASE MakeClean(g) \/ Make(g) \/ Exec(g) \/ PrepareConnection(g)
  <2>1. /\ proc[g] # "host" /\ proc'[g] # "host" /\ UNCHANGED <<trace, j, awaiting>>
    BY <1>4 DEF MakeClean, Make, Exec, PrepareConnection, HostInv, BuildInv, Starting, cursor
  <2>2. Unsent(g)' = Unsent(g) /\ Requests(g)' = Requests(g) /\ Responses(g)' = Responses(g)
    BY <2>1 DEF Unsent, Requests, Responses
  <2> QED BY <2>1, <2>2, Stutters
<1>5. CASE SendHello(g)
  <2>1. /\ proc[g] = "hello" /\ sim[g] = "waiting" /\ toSim[g] = <<>>
        /\ proc'[g] = "host" /\ toSim'[g] = Append(<<>>, Hello) /\ toHost' = toHost
        /\ UNCHANGED <<trace, j, awaiting, sim>>
    BY <1>5 DEF SendHello, Sent, HostInv, BuildInv, Starting, cursor
  <2>2. awaiting[g] = {} /\ toHost[g] = <<>>
    BY <2>1 DEF HostInv, ReadsInv, ReadOf, At
  <2>3. Requests(g) = <<>> /\ Responses(g) = <<>>
    BY <2>1 DEF Requests, Responses
  <2>4. Tail(Append(<<>>, Hello)) = <<>>
    OBVIOUS
  <2>5. Requests(g)' = <<>> /\ Responses(g)' = <<>>
    BY <2>1, <2>2, <2>4 DEF Requests, Responses
  <2>6. Unsent(g)' = Unsent(g)
    BY <2>1 DEF Unsent
  <2> QED BY <2>1, <2>3, <2>5, <2>6, Stutters
<1> QED BY <1>1, <1>2, <1>3, <1>4, <1>5 DEF ProcessStep

(* The steps of the simulator's kernel take packets and put answers. *)
LEMMA KernelMaps ==
  ASSUME HostInv, NEW g \in Hosts, Alone(g),
         RunHostProc(g) \/ WaitConnection(g) \/ Receive(g) \/ Answer(g) \/ Spin(g)
  PROVE  HostProcessStep(g) \/ UNCHANGED HP!own
<1>1. UNCHANGED <<trace, j, awaiting>>
  BY DEF RunHostProc, WaitConnection, Receive, Answer, Spin, cursor
<1>2. Unsent(g)' = Unsent(g)
  BY <1>1 DEF Unsent
<1>3. CASE RunHostProc(g)
  <2>1. proc[g] # "host" /\ proc'[g] # "host"
    BY <1>3 DEF RunHostProc, HostInv, BuildInv
  <2>2. Requests(g)' = Requests(g) /\ Responses(g)' = Responses(g)
    BY <2>1 DEF Requests, Responses
  <2> QED BY <1>1, <1>2, <2>2, Stutters
<1>4. CASE WaitConnection(g)
  <2>1. /\ sim[g] = "waiting" /\ sim'[g] = "polling" /\ toSim'[g] = Tail(toSim[g])
        /\ UNCHANGED <<proc, toHost>>
    BY <1>4 DEF WaitConnection, HostInv, BuildInv
  <2>2. Requests(g)' = Requests(g) /\ Responses(g)' = Responses(g)
    BY <2>1 DEF Requests, Responses
  <2> QED BY <1>1, <1>2, <2>2, Stutters
<1>5. CASE Spin(g)
  <2>1. /\ sim[g] # "waiting" /\ sim'[g] # "waiting" /\ UNCHANGED <<proc, toSim, toHost>>
    BY <1>5 DEF Spin, HostInv, BuildInv, rings
  <2>2. Requests(g)' = Requests(g) /\ Responses(g)' = Responses(g)
    BY <2>1 DEF Requests, Responses
  <2> QED BY <1>1, <1>2, <2>2, Stutters
<1>6. CASE Receive(g)
  <2>1. /\ sim[g] \in {"polling", "running", "req_done"} /\ sim'[g] # "waiting"
        /\ toSim[g] # <<>> /\ toSim'[g] = Tail(toSim[g]) /\ UNCHANGED <<proc, toHost>>
    BY <1>6 DEF Receive, HostInv, BuildInv
  <2>2. proc[g] = "host"
    BY <2>1 DEF HostInv, BuildInv, LoopInv, LoopOf
  <2>3. Requests(g) = toSim[g] /\ Requests(g)' = Tail(toSim[g]) /\ Responses(g)' = Responses(g)
    BY <2>1, <2>2 DEF Requests, Responses
  <2>4. HP!GiveRequest(g)
    BY <1>1, <1>2, <2>1, <2>3, Gives
  <2> QED BY <2>4 DEF HostProcessStep
<1>7. CASE Answer(g)
  <2>1. PICK p \in open[g] : toHost' = [toHost EXCEPT ![g] = Append(@, <<p.addr>>)]
    BY <1>7 DEF Answer
  <2>2. /\ open[g] # {} /\ Len(toHost[g]) < BufferSize - 1 /\ sim'[g] = "req_done"
        /\ UNCHANGED <<proc, toSim>> /\ sim[g] \notin {"init", "waiting"}
    BY <1>7 DEF Answer, HostInv, BuildInv
  <2>3. awaiting[g] # {} /\ toHost[g] = <<>>
    BY <2>2 DEF HostInv, ReadsInv, ReadOf
  <2>4. proc[g] = "host"
    BY <2>2, <2>3 DEF HostInv, ReadsInv, ReadOf, At
  <2>5. Append(<<>>, <<p.addr>>) = <<>> \o <<<<p.addr>>>>
    OBVIOUS
  <2>6. /\ Responses(g) = toHost[g]
        /\ Responses(g)' = Responses(g) \o <<<<p.addr>>>> /\ Requests(g)' = Requests(g)
    BY <2>1, <2>2, <2>3, <2>4, <2>5 DEF Responses, Requests, HostInv, ReadsInv
  <2>7. HP!TakeResponses(g, <<<<p.addr>>>>)
    BY <1>1, <1>2, <2>2, <2>6, TakesOne
  <2> QED BY <2>7 DEF HostProcessStep
<1> QED BY <1>3, <1>4, <1>5, <1>6, <1>7

(* The programs of the host processes are the traces, cut into packets. *)
LEMMA InitMaps == Init => HP!Init
<1> SUFFICES ASSUME Init PROVE HP!Init
  OBVIOUS
<1>1. /\ trace \in Traces /\ trace \in [Hosts -> Seq(Entry)]
      /\ \A h \in Hosts : proc[h] = "none" /\ j[h] = 0 /\ awaiting[h] = {}
      /\ awaiting = [h \in Hosts |-> {}]
  BY SessionAssumption DEF Init
<1>2. ASSUME NEW h \in Hosts
      PROVE  Unsent(h) = Packets(trace[h]) /\ Requests(h) = <<>> /\ Responses(h) = <<>>
  <2>1. j[h] + Cardinality(awaiting[h]) = 0
    BY <1>1, FS_EmptySet
  <2>2. Packets(trace[h]) \in Seq(Packet)
    BY <1>1, PacketsOfTrace
  <2>3. Unsent(h) = From(Packets(trace[h]), 0)
    BY <2>1 DEF Unsent, From
  <2>4. Unsent(h) = Packets(trace[h])
    BY <2>2, <2>3, FromSteps
  <2> QED BY <1>1, <2>4 DEF Requests, Responses
<1>3. /\ Unsents = [h \in Hosts |-> Packets(trace[h])]
      /\ Asking = [h \in Hosts |-> <<>>]
      /\ Answered = [h \in Hosts |-> <<>>]
  BY <1>2 DEF Unsents, Asking, Answered
<1>4. Unsents \in {[h \in Hosts |-> Packets(t[h])] : t \in Traces}
  BY <1>1, <1>3
<1> QED BY <1>1, <1>3, <1>4 DEF HP!Init, Unsents, Asking, Answered

(* Whatever an earlier run left in the rings, the simulator gets from each *)
(* host exactly the packets that cover the entries of its trace, in order  *)
(* and from the first, and each read is answered before the next packet is *)
(* sent (host/main.cpp, traceGenerator.cpp, host.cpp): the processes that  *)
(* build, connect and count bytes down are the host processes of the whole *)
(* simulator.                                                              *)
THEOREM SessionIsHosts == Spec => ImplementsHostProcess
<1>1. Init => HostInv
  BY InitBuild, InitCursor, InitReads, InitLoop DEF HostInv
<1>2. HostInv /\ [Next]_vars => HostInv'
  BY StepBuild, StepCursor, StepReads, StepLoop DEF HostInv
<1>3. HostInv /\ [Next]_vars => [\E h \in Hosts : HostProcessStep(h)]_(HP!own)
  <2> SUFFICES ASSUME HostInv, [Next]_vars
               PROVE  (\E h \in Hosts : HostProcessStep(h)) \/ UNCHANGED HP!own
    OBVIOUS
  <2>1. CASE Finished \/ UNCHANGED vars
    <3>1. UNCHANGED <<sim, proc, toSim, toHost, trace, j, awaiting>>
      BY <2>1 DEF Finished, vars, rings, cursor
    <3> QED BY <3>1 DEF HP!own, Unsent, Requests, Responses
  <2>2. ASSUME NEW g \in Hosts, StepOf(g)
        PROVE  HostProcessStep(g) \/ UNCHANGED HP!own
    <3>1. Alone(g)
      BY <2>2, StepsAlone
    <3>2. CASE ProcessStep(g)
      BY <3>1, <3>2, ProcessMaps DEF HostProcessStep
    <3>3. CASE ~ProcessStep(g)
      BY <2>2, <3>1, <3>3, KernelMaps DEF StepOf
    <3> QED BY <3>2, <3>3
  <2> QED BY <2>1, <2>2 DEF Next, KernelStep, StepOf
<1> QED BY <1>1, <1>2, <1>3, InitMaps, PTL DEF Spec, ImplementsHostProcess
=============================================================================

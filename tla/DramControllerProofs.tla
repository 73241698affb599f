------------------------ MODULE DramControllerProofs ------------------------
(***************************************************************************)
(* The DRAM simulator closes no row that is in use, and every command it   *)
(* was sent is held until it is returned once, or is gone at the one place *)
(* where the result of an enqueue is ignored, with the active buffer full: *)
(* for every number of commands and banks, buffer size and address mapping *)
(***************************************************************************)
EXTENDS DramController, FiniteSetTheorems, SequenceTheorems, TLAPS

PendingRead == [cmd : Commands, left : Nat]

(* The bank and the row of a command. *)
LEMMA Mapped ==
  ASSUME NEW c \in Commands
  PROVE  bank(c) \in Banks /\ row(c) \in Rows /\ row(c) # NoRow
BY DramAssumption DEF bank, row

(* The requests that enter the controller in a clock tick are commands.    *)
LEMMA EntryTyped ==
  ASSUME TypeOK
  PROVE  /\ First \subseteq Commands /\ Forwarded \subseteq First
         /\ Enqueued \subseteq First
         /\ reads \subseteq Commands /\ writes \subseteq Commands
         /\ WaitingCommands \in Seq(Commands)
<1>1. First \subseteq Commands
  BY HeadTailProperties DEF First, TypeOK
<1>2. in_queue # <<>> => Tail(in_queue) \in Seq(Commands)
  BY HeadTailProperties DEF TypeOK
<1>3. WaitingCommands \in Seq(Commands)
  <2>1. in_queue = <<>> => Forwarded \cup Enqueued = {}
    BY DEF Forwarded, Enqueued, First
  <2> QED
    BY <1>2, <2>1 DEF WaitingCommands, TypeOK
<1>4. Forwarded \subseteq First /\ Enqueued \subseteq First
  BY DEF Forwarded, Enqueued
<1> QED
  BY <1>1, <1>3, <1>4 DEF reads, writes, TypeOK

(* A pending read for a command, or none. *)
LEMMA PendedTyped ==
  ASSUME NEW cs \in SUBSET Commands, NEW n \in Nat
  PROVE  Pended(cs, n) \in Seq(PendingRead)
<1>1. CASE cs = {}
  BY <1>1, EmptySeq DEF Pended
<1>2. CASE cs # {}
  <2>1. (CHOOSE c \in cs : TRUE) \in Commands
    BY <1>2
  <2>2. [cmd |-> CHOOSE c \in cs : TRUE, left |-> n] \in PendingRead
    BY <2>1 DEF PendingRead
  <2> QED
    BY <1>2, <2>2 DEF Pended
<1> QED
  BY <1>1, <1>2

(* Time passes for the pending reads, and changes no other part of them.   *)
LEMMA AgedTyped ==
  ASSUME TypeOK
  PROVE  LET all == pending \o Pended(Forwarded, 1)
         IN  /\ all \in Seq(PendingRead) /\ aged \in Seq(PendingRead)
             /\ DOMAIN aged = DOMAIN all
             /\ \A i \in DOMAIN all : aged[i].cmd = all[i].cmd
<1> DEFINE all == pending \o Pended(Forwarded, 1)
           older(p) == [p EXCEPT !.left = IF @ = 0 THEN 0 ELSE @ - 1]
<1>1. all \in Seq(PendingRead)
  <2>1. pending \in Seq(PendingRead)
    BY DEF TypeOK, PendingRead
  <2>2. Pended(Forwarded, 1) \in Seq(PendingRead)
    BY EntryTyped, PendedTyped
  <2> QED
    BY <2>1, <2>2, ConcatProperties
<1>2. aged = [i \in DOMAIN all |-> older(all[i])]
  BY DEF aged
<1>3. \A p \in PendingRead : older(p) \in PendingRead /\ older(p).cmd = p.cmd
  BY DEF PendingRead
<1> HIDE DEF all, older
<1>4. Len(all) \in Nat /\ DOMAIN all = 1 .. Len(all)
  BY <1>1, LenProperties
<1>5. \A i \in 1 .. Len(all) : all[i] \in PendingRead
  BY <1>1, ElementOfSeq
<1>6. aged \in [1 .. Len(all) -> PendingRead]
  BY <1>2, <1>3, <1>4, <1>5
<1>7. aged \in Seq(PendingRead)
  BY <1>4, <1>6, SeqDef
<1>8. \A i \in DOMAIN all : aged[i].cmd = all[i].cmd
  BY <1>2, <1>3, <1>4, <1>5
<1> QED
  BY <1>1, <1>4, <1>6, <1>7, <1>8 DEF all

(* What serve_completed_reads takes and leaves. *)
LEMMA ServedTyped ==
  ASSUME TypeOK
  PROVE  served \in Seq(Commands) /\ unserved \in Seq(PendingRead)
<1>1. aged \in Seq(PendingRead)
  BY AgedTyped
<1>2. CASE Departs
  <2>1. Head(aged) \in PendingRead /\ Tail(aged) \in Seq(PendingRead)
    BY <1>1, <1>2, HeadTailProperties DEF Departs
  <2>2. Head(aged).cmd \in Commands
    BY <2>1 DEF PendingRead
  <2> QED
    BY <1>2, <2>1, <2>2 DEF served, unserved
<1>3. CASE ~Departs
  BY <1>1, <1>3, EmptySeq DEF served, unserved
<1> QED
  BY <1>2, <1>3

(* The parts of a clock tick that every way to issue a command shares.     *)
LEMMA TickTyped ==
  ASSUME TypeOK
  PROVE  /\ out_queue \o served \in Seq(Commands)
         /\ \A c \in Commands :
              /\ (out_queue \o served) \o <<c>> \in Seq(Commands)
              /\ unserved \o Pended({c}, ReadLatency) \in Seq(PendingRead)
<1>1. out_queue \o served \in Seq(Commands)
  BY ServedTyped, ConcatProperties DEF TypeOK
<1>2. ASSUME NEW c \in Commands
      PROVE  /\ (out_queue \o served) \o <<c>> \in Seq(Commands)
             /\ unserved \o Pended({c}, ReadLatency) \in Seq(PendingRead)
  <2>1. <<c>> \in Seq(Commands)
    OBVIOUS
  <2>2. Pended({c}, ReadLatency) \in Seq(PendingRead)
    BY PendedTyped, DramAssumption
  <2>3. unserved \in Seq(PendingRead)
    BY ServedTyped
  <2>4. (out_queue \o served) \o <<c>> \in Seq(Commands)
    BY <1>1, <2>1, ConcatProperties
  <2> QED
    BY <2>2, <2>3, <2>4, ConcatProperties
<1> QED
  BY <1>1, <1>2

(* What a tick assigns when a command is issued, or none. *)
LEMMA IssueTyped ==
  ASSUME TypeOK,
         (\E c \in Commands : Issue(c)) \/ (\E bs \in SUBSET Banks : Close(bs))
  PROVE  /\ read_buffer' \subseteq Commands
         /\ write_buffer' \subseteq Commands
         /\ active_buffer' \subseteq Commands
         /\ pending' \in Seq(PendingRead)
         /\ out_queue' \in Seq(Commands)
         /\ open' \in [Banks -> Rows \cup {NoRow}]
<1>t. /\ reads \subseteq Commands /\ writes \subseteq Commands
      /\ unserved \in Seq(PendingRead)
      /\ active_buffer \subseteq Commands
      /\ open \in [Banks -> Rows \cup {NoRow}]
  BY EntryTyped, ServedTyped DEF TypeOK
<1>1. ASSUME NEW bs \in SUBSET Banks, Close(bs)
      PROVE  /\ read_buffer' \subseteq Commands
             /\ write_buffer' \subseteq Commands
             /\ active_buffer' \subseteq Commands
             /\ pending' \in Seq(PendingRead)
             /\ out_queue' \in Seq(Commands)
             /\ open' \in [Banks -> Rows \cup {NoRow}]
  BY <1>1, <1>t, TickTyped DEF Close
<1>2. ASSUME NEW c \in Commands, Access(c)
      PROVE  /\ read_buffer' \subseteq Commands
             /\ write_buffer' \subseteq Commands
             /\ active_buffer' \subseteq Commands
             /\ pending' \in Seq(PendingRead)
             /\ out_queue' \in Seq(Commands)
             /\ open' \in [Banks -> Rows \cup {NoRow}]
  <2>1. CASE c.type = "R"
    BY <1>2, <2>1, <1>t, TickTyped DEF Access
  <2>2. CASE c.type # "R"
    BY <1>2, <2>2, <1>t, TickTyped DEF Access
  <2> QED
    BY <2>1, <2>2
<1>3. ASSUME NEW c \in Commands, Activate(c)
      PROVE  /\ read_buffer' \subseteq Commands
             /\ write_buffer' \subseteq Commands
             /\ active_buffer' \subseteq Commands
             /\ pending' \in Seq(PendingRead)
             /\ out_queue' \in Seq(Commands)
             /\ open' \in [Banks -> Rows \cup {NoRow}]
  <2>1. open' \in [Banks -> Rows \cup {NoRow}]
    BY <1>3, <1>t, Mapped DEF Activate
  <2> QED
    BY <1>3, <2>1, <1>t, TickTyped DEF Activate
<1>4. ASSUME NEW c \in Commands, Precharge(c)
      PROVE  Close({bank(c)}) /\ {bank(c)} \in SUBSET Banks
  BY <1>4, Mapped DEF Precharge
<1> QED
  BY <1>1, <1>2, <1>3, <1>4 DEF Issue

(* A rank that waits for its refresh.                                      *)
LEMMA RankTyped ==
  ASSUME NEW ranks \in Seq(SUBSET Banks), ranks # <<>>
  PROVE  Head(ranks) \in SUBSET Banks /\ Tail(ranks) \in Seq(SUBSET Banks)
BY HeadTailProperties

(* A tick issues a command or closes banks, and serves refreshes.          *)
LEMMA TickIssues ==
  ASSUME TypeOK, NEW ranks \in Seq(SUBSET Banks), Schedule(ranks)
  PROVE  /\ \/ \E c \in active_buffer \cup reads \cup writes : Issue(c)
            \/ \E bs \in SUBSET Banks :
                 Close(bs) /\ \A a \in active_buffer : bank(a) \notin bs
         /\ priority_buffer' \in Seq(SUBSET Banks)
         /\ write_mode' \in BOOLEAN
<1>t. write_mode \in BOOLEAN /\ NewMode \in BOOLEAN
  BY DEF TypeOK, NewMode
<1>1. CASE \E c \in active_buffer :
             Issue(c) /\ priority_buffer' = ranks /\ UNCHANGED write_mode
  BY <1>1, <1>t
<1>2. CASE IssueRefresh(ranks) /\ UNCHANGED write_mode
  <2>t. /\ Head(ranks) \in SUBSET Banks
        /\ Tail(ranks) \in Seq(SUBSET Banks)
    BY <1>2, RankTyped DEF IssueRefresh
  <2>1. CASE Close({}) /\ priority_buffer' = Tail(ranks)
    BY <1>2, <2>1, <2>t, <1>t
  <2>2. CASE /\ ~Interrupts(Head(ranks)) /\ Close(Head(ranks))
             /\ priority_buffer' = ranks
    BY <1>2, <2>2, <2>t, <1>t DEF Interrupts
  <2> QED
    BY <1>2, <2>1, <2>2 DEF IssueRefresh
<1>3. CASE /\ \E c \in IF NewMode THEN writes ELSE reads : Issue(c)
           /\ write_mode' = NewMode
           /\ priority_buffer' = ranks
  BY <1>3, <1>t
<1>4. CASE /\ Close({})
           /\ write_mode' = IF ranks = <<>> THEN NewMode ELSE write_mode
           /\ priority_buffer' = ranks
  BY <1>4, <1>t
<1> QED
  BY <1>1, <1>2, <1>3, <1>4 DEF Schedule

(* What a tick puts into the priority buffer. *)
LEMMA TickSchedules ==
  ASSUME TypeOK, ClockTick
  PROVE  /\ in_queue' = WaitingCommands /\ UNCHANGED <<unsent, returned>>
         /\ refreshes_left' \in Nat
         /\ \E ranks \in Seq(SUBSET Banks) : Schedule(ranks)
<1>1. PICK n \in {0, 1} :
        /\ n <= refreshes_left
        /\ refreshes_left' = refreshes_left - n
        /\ in_queue' = WaitingCommands
        /\ Schedule(priority_buffer \o (IF n = 1 THEN Ranks ELSE <<>>))
        /\ UNCHANGED <<unsent, returned>>
  BY DEF ClockTick
<1> DEFINE due == IF n = 1 THEN Ranks ELSE <<>>
<1>2. due \in Seq(SUBSET Banks)
  BY EmptySeq, DramAssumption
<1>3. priority_buffer \in Seq(SUBSET Banks) /\ refreshes_left \in Nat
  BY DEF TypeOK
<1> HIDE DEF due
<1>4. priority_buffer \o due \in Seq(SUBSET Banks)
  BY <1>2, <1>3, ConcatProperties
<1>5. Schedule(priority_buffer \o due)
  BY <1>1 DEF due
<1>6. \E ranks \in Seq(SUBSET Banks) : Schedule(ranks)
  BY <1>4, <1>5, Zenon
<1>7. refreshes_left' \in Nat
  BY <1>1, <1>3
<1> QED
  BY <1>1, <1>6, <1>7

(* Type correctness: in particular the priority buffer is not popped when  *)
(* it is empty, and no bank has a row open that is none.                   *)
THEOREM TypeCorrect == Spec => []TypeOK
<1>1. Init => TypeOK
  <2> SUFFICES ASSUME Init PROVE TypeOK
    OBVIOUS
  <2>1. in_queue \in Seq(Commands) /\ out_queue \in Seq(Commands)
    BY EmptySeq DEF Init
  <2>2. pending \in Seq([cmd : Commands, left : Nat])
    BY EmptySeq DEF Init
  <2>3. open \in [Banks -> Rows \cup {NoRow}]
    BY DEF Init
  <2>4. write_mode \in BOOLEAN
    BY DEF Init
  <2>5. priority_buffer \in Seq(SUBSET Banks) /\ refreshes_left \in Nat
    BY EmptySeq, DramAssumption DEF Init
  <2> QED
    BY <2>1, <2>2, <2>3, <2>4, <2>5 DEF Init, TypeOK
<1>2. TypeOK /\ [Next]_vars => TypeOK'
  <2> SUFFICES ASSUME TypeOK, [Next]_vars PROVE TypeOK'
    OBVIOUS
  <2>1. ASSUME NEW c \in Commands, SendCommand(c) PROVE TypeOK'
    <3>1. Append(in_queue, c) \in Seq(Commands)
      BY AppendProperties DEF TypeOK
    <3> QED
      BY <2>1, <3>1 DEF SendCommand, TypeOK, buffers
  <2>2. CASE GetCompletedCommand
    <3>1. Head(out_queue) \in Commands /\ Tail(out_queue) \in Seq(Commands)
      BY <2>2, HeadTailProperties DEF GetCompletedCommand, TypeOK
    <3> QED
      BY <2>2, <3>1 DEF GetCompletedCommand, TypeOK, buffers
  <2>3. CASE ClockTick
    <3>1. /\ in_queue' = WaitingCommands /\ UNCHANGED <<unsent, returned>>
          /\ refreshes_left' \in Nat
      BY <2>3, TickSchedules
    <3>2. PICK ranks \in Seq(SUBSET Banks) : Schedule(ranks)
      BY <2>3, TickSchedules
    <3>3. /\ \/ \E c \in active_buffer \cup reads \cup writes : Issue(c)
             \/ \E bs \in SUBSET Banks : Close(bs)
          /\ priority_buffer' \in Seq(SUBSET Banks)
          /\ write_mode' \in BOOLEAN
      BY <3>2, TickIssues
    <3>4. active_buffer \cup reads \cup writes \subseteq Commands
      BY EntryTyped DEF TypeOK
    <3>5. /\ read_buffer' \subseteq Commands
          /\ write_buffer' \subseteq Commands
          /\ active_buffer' \subseteq Commands
          /\ pending' \in Seq(PendingRead)
          /\ out_queue' \in Seq(Commands)
          /\ open' \in [Banks -> Rows \cup {NoRow}]
      BY <3>3, <3>4, IssueTyped
    <3>6. in_queue' \in Seq(Commands)
      BY <3>1, EntryTyped
    <3> QED
      BY <3>1, <3>3, <3>5, <3>6 DEF TypeOK, PendingRead
  <2>4. CASE UNCHANGED vars
    BY <2>4 DEF vars, buffers, TypeOK
  <2> QED
    BY <2>1, <2>2, <2>3, <2>4 DEF Next
<1> QED
  BY <1>1, <1>2, PTL DEF Spec

(* A clock tick issues a command that an open row asks for, opens a row of *)
(* a bank that has none, or closes rows that no active request is to use.  *)
THEOREM RowsKept == Spec => []OpenForActive
<1>1. Init => OpenForActive
  BY DEF Init, OpenForActive
<1>2. TypeOK /\ OpenForActive /\ [Next]_vars => OpenForActive'
  <2> SUFFICES ASSUME TypeOK, OpenForActive, [Next]_vars
               PROVE  OpenForActive'
    OBVIOUS
  <2>t. /\ active_buffer \subseteq Commands
        /\ reads \subseteq Commands /\ writes \subseteq Commands
        /\ open \in [Banks -> Rows \cup {NoRow}]
    BY EntryTyped DEF TypeOK
  <2>1. ASSUME NEW c \in Commands, Access(c) PROVE OpenForActive'
    BY <2>1 DEF Access, OpenForActive
  <2>2. ASSUME NEW c \in Commands, Activate(c) PROVE OpenForActive'
    <3>1. /\ bank(c) \in Banks /\ open[bank(c)] = NoRow
          /\ open' = [open EXCEPT ![bank(c)] = row(c)]
          /\ active_buffer' \subseteq active_buffer \cup {c}
      BY <2>2, Mapped DEF Activate
    <3>2. \A a \in active_buffer : bank(a) # bank(c)
      BY <3>1, <2>t, Mapped DEF OpenForActive
    <3>3. \A a \in active_buffer : open'[bank(a)] = open[bank(a)]
      BY <3>1, <3>2, <2>t
    <3>4. open'[bank(c)] = row(c)
      BY <3>1, <2>t
    <3> QED
      BY <3>1, <3>2, <3>3, <3>4 DEF OpenForActive
  <2>3. ASSUME NEW bs \in SUBSET Banks, Close(bs),
               \A a \in active_buffer : bank(a) \notin bs
        PROVE  OpenForActive'
    <3>1. \A a \in active_buffer : open'[bank(a)] = open[bank(a)]
      BY <2>3, <2>t, Mapped DEF Close
    <3>2. active_buffer' = active_buffer
      BY <2>3 DEF Close
    <3> QED
      BY <3>1, <3>2 DEF OpenForActive
  <2>4. ASSUME NEW c \in Commands, Precharge(c) PROVE OpenForActive'
    <3>1. Close({bank(c)}) /\ \A a \in active_buffer : bank(a) \notin {bank(c)}
      BY <2>4 DEF Precharge, Interrupts
    <3> QED
      BY <3>1, <2>3, Mapped
  <2>5. CASE ClockTick
    <3>1. PICK ranks \in Seq(SUBSET Banks) : Schedule(ranks)
      BY <2>5, TickSchedules
    <3>2. \/ \E c \in active_buffer \cup reads \cup writes : Issue(c)
          \/ \E bs \in SUBSET Banks :
               Close(bs) /\ \A a \in active_buffer : bank(a) \notin bs
      BY <3>1, TickIssues
    <3> QED
      BY <3>2, <2>1, <2>2, <2>3, <2>4, <2>t DEF Issue
  <2>6. CASE \E c \in Commands : SendCommand(c)
    BY <2>6 DEF SendCommand, buffers, OpenForActive
  <2>7. CASE GetCompletedCommand
    BY <2>7 DEF GetCompletedCommand, buffers, OpenForActive
  <2>8. CASE UNCHANGED vars
    BY <2>8 DEF vars, buffers, OpenForActive
  <2> QED
    BY <2>5, <2>6, <2>7, <2>8 DEF Next
<1> QED
  BY <1>1, <1>2, TypeCorrect, PTL DEF Spec

(* What stands in a queue, when it grows at its end or shrinks at its head *)
LEMMA ItemsOfConcat ==
  ASSUME NEW S, NEW q \in Seq(S), NEW r \in Seq(S)
  PROVE  Items(q \o r) = Items(q) \cup Items(r)
<1>1. /\ Len(q) \in Nat /\ DOMAIN q = 1 .. Len(q)
      /\ Len(r) \in Nat /\ DOMAIN r = 1 .. Len(r)
  BY LenProperties
<1>2. /\ DOMAIN (q \o r) = 1 .. Len(q) + Len(r)
      /\ \A i \in 1 .. Len(q) + Len(r) :
           (q \o r)[i] = IF i <= Len(q) THEN q[i] ELSE r[i - Len(q)]
  BY ConcatProperties, LenProperties
<1>3. \A i \in 1 .. Len(r) : (q \o r)[Len(q) + i] = r[i]
  BY <1>1, <1>2
<1>4. \A i \in 1 .. Len(q) : (q \o r)[i] = q[i]
  BY <1>1, <1>2
<1>5. ASSUME NEW x \in Items(q \o r) PROVE x \in Items(q) \cup Items(r)
  <2>1. PICK i \in 1 .. Len(q) + Len(r) : x = (q \o r)[i]
    BY <1>2 DEF Items
  <2>2. CASE i <= Len(q)
    BY <1>1, <1>2, <2>1, <2>2 DEF Items
  <2>3. CASE i > Len(q)
    <3>1. i - Len(q) \in 1 .. Len(r) /\ x = r[i - Len(q)]
      BY <1>1, <1>2, <2>1, <2>3
    <3> QED
      BY <1>1, <3>1 DEF Items
  <2> QED
    BY <1>1, <2>2, <2>3
<1>6. ASSUME NEW x \in Items(q) \cup Items(r) PROVE x \in Items(q \o r)
  <2>1. CASE x \in Items(q)
    <3>1. PICK i \in 1 .. Len(q) : x = q[i]
      BY <1>1, <2>1 DEF Items
    <3>2. i \in 1 .. Len(q) + Len(r) /\ x = (q \o r)[i]
      BY <1>1, <1>4, <3>1
    <3> QED
      BY <1>2, <3>2 DEF Items
  <2>2. CASE x \in Items(r)
    <3>1. PICK i \in 1 .. Len(r) : x = r[i]
      BY <1>1, <2>2 DEF Items
    <3>2. /\ Len(q) + i \in 1 .. Len(q) + Len(r)
          /\ x = (q \o r)[Len(q) + i]
      BY <1>1, <1>3, <3>1
    <3> QED
      BY <1>2, <3>2 DEF Items
  <2> QED
    BY <2>1, <2>2
<1> QED
  BY <1>5, <1>6

(* The items of the empty and of the one-element sequence. *)
LEMMA ItemsOfOne ==
  /\ Items(<<>>) = {}
  /\ \A x : Items(<<x>>) = {x}
BY DEF Items

(* The items of a queue are its head and those of its rest. *)
LEMMA ItemsOfTail ==
  ASSUME NEW S, NEW q \in Seq(S), q # <<>>
  PROVE  Items(q) = {Head(q)} \cup Items(Tail(q))
<1>1. Len(q) \in Nat \ {0} /\ DOMAIN q = 1 .. Len(q)
  BY EmptySeq, LenProperties
<1>2. /\ Tail(q) \in Seq(S) /\ Len(Tail(q)) = Len(q) - 1
      /\ \A i \in 1 .. Len(Tail(q)) : Tail(q)[i] = q[i + 1]
  BY HeadTailProperties
<1>3. DOMAIN Tail(q) = 1 .. Len(q) - 1
  BY <1>2, LenProperties
<1>4. Head(q) = q[1]
  BY <1>1
<1>5. ASSUME NEW i \in 1 .. Len(q)
      PROVE  q[i] \in {Head(q)} \cup Items(Tail(q))
  <2>1. CASE i = 1
    BY <1>4, <2>1
  <2>2. CASE i # 1
    <3>1. i - 1 \in 1 .. Len(q) - 1 /\ Tail(q)[i - 1] = q[i]
      BY <1>1, <1>2, <2>2
    <3> QED
      BY <1>3, <3>1 DEF Items
  <2> QED
    BY <2>1, <2>2
<1>6. ASSUME NEW i \in 1 .. Len(q) - 1 PROVE Tail(q)[i] \in Items(q)
  <2>1. i + 1 \in 1 .. Len(q) /\ Tail(q)[i] = q[i + 1]
    BY <1>1, <1>2
  <2> QED
    BY <1>1, <2>1 DEF Items
<1>7. Head(q) \in Items(q)
  BY <1>1, <1>4 DEF Items
<1> QED
  BY <1>1, <1>3, <1>5, <1>6, <1>7 DEF Items

(* The commands of a queue of pending reads. *)
CommandsOf(q) == {p.cmd : p \in Items(q)}

(* The one command of a read that was just made pending. *)
LEMMA PendedCommand ==
  ASSUME NEW c, NEW n
  PROVE  CommandsOf(Pended({c}, n)) = {c}
<1>1. (CHOOSE d \in {c} : TRUE) = c
  OBVIOUS
<1>2. Pended({c}, n) = <<[cmd |-> c, left |-> n]>>
  BY <1>1 DEF Pended
<1> QED
  BY <1>2, ItemsOfOne DEF CommandsOf

(* A command behind others. *)
LEMMA ItemsBehind ==
  ASSUME NEW q \in Seq(Commands), NEW c \in Commands
  PROVE  Items(q \o <<c>>) = Items(q) \cup {c}
<1>1. <<c>> \in Seq(Commands)
  OBVIOUS
<1>2. Items(q \o <<c>>) = Items(q) \cup Items(<<c>>)
  BY <1>1, ItemsOfConcat
<1> QED
  BY <1>2, ItemsOfOne

(* The commands of two runs of pending reads. *)
LEMMA CommandsOfConcat ==
  ASSUME NEW q \in Seq(PendingRead), NEW r \in Seq(PendingRead)
  PROVE  CommandsOf(q \o r) = CommandsOf(q) \cup CommandsOf(r)
BY ItemsOfConcat DEF CommandsOf

(* First half of a tick: the head of in_queue goes to one place.           *)
LEMMA EntryKeepsAll ==
  ASSUME TypeOK
  PROVE  Items(WaitingCommands) \cup reads \cup writes \cup Forwarded
           = Items(in_queue) \cup read_buffer \cup write_buffer
<1>1. CASE Forwarded \cup Enqueued = {}
  BY <1>1 DEF WaitingCommands, reads, writes
<1>2. CASE Forwarded \cup Enqueued # {}
  <2>1. in_queue # <<>> /\ First = {Head(in_queue)}
    BY <1>2 DEF First, Forwarded, Enqueued
  <2>2. Forwarded \cup Enqueued = {Head(in_queue)}
    BY <1>2, <2>1 DEF Forwarded, Enqueued
  <2>3. Items(in_queue) = {Head(in_queue)} \cup Items(Tail(in_queue))
    BY <2>1, ItemsOfTail DEF TypeOK
  <2>4. WaitingCommands = Tail(in_queue)
    BY <1>2 DEF WaitingCommands
  <2>5. \A c \in Enqueued : c.type \in {"R", "W"}
    BY EntryTyped, DramAssumption
  <2>6. reads \cup writes = read_buffer \cup write_buffer \cup Enqueued
    BY <2>5 DEF reads, writes
  <2> QED
    BY <2>2, <2>3, <2>4, <2>6
<1> QED
  BY <1>1, <1>2

(* Second half: the pending reads and the one that is served.              *)
LEMMA ServingKeepsAll ==
  ASSUME TypeOK
  PROVE  Items(served) \cup CommandsOf(unserved) = PendingCommands \cup Forwarded
<1> DEFINE all == pending \o Pended(Forwarded, 1)
<1>t. /\ all \in Seq(PendingRead) /\ aged \in Seq(PendingRead)
      /\ DOMAIN aged = DOMAIN all
      /\ \A i \in DOMAIN all : aged[i].cmd = all[i].cmd
  BY AgedTyped
<1>1. CommandsOf(aged) = CommandsOf(all)
  BY <1>t DEF CommandsOf, Items
<1>2. CommandsOf(Pended(Forwarded, 1)) = Forwarded
  <2>1. CASE Forwarded = {}
    BY <2>1, ItemsOfOne DEF Pended, CommandsOf
  <2>2. CASE Forwarded # {}
    <3>1. Forwarded = {Head(in_queue)}
      BY <2>2 DEF Forwarded, First
    <3> QED
      BY <3>1, PendedCommand
  <2> QED
    BY <2>1, <2>2
<1>3. CommandsOf(all) = PendingCommands \cup Forwarded
  <2>1. Pended(Forwarded, 1) \in Seq(PendingRead)
    BY EntryTyped, PendedTyped
  <2>2. pending \in Seq(PendingRead)
    BY DEF TypeOK, PendingRead
  <2> QED
    BY <1>2, <2>1, <2>2, CommandsOfConcat DEF PendingCommands, CommandsOf
<1>4. Items(served) \cup CommandsOf(unserved) = CommandsOf(aged)
  <2>1. CASE Departs
    <3>1. /\ aged # <<>> /\ served = <<Head(aged).cmd>>
          /\ unserved = Tail(aged)
      BY <2>1 DEF Departs, served, unserved
    <3>2. Items(aged) = {Head(aged)} \cup Items(Tail(aged))
      BY <1>t, <3>1, ItemsOfTail
    <3>3. Items(served) = {Head(aged).cmd}
      BY <3>1, ItemsOfOne
    <3> QED
      BY <3>1, <3>2, <3>3 DEF CommandsOf
  <2>2. CASE ~Departs
    BY <2>2, ItemsOfOne DEF served, unserved
  <2> QED
    BY <2>1, <2>2
<1> QED
  BY <1>1, <1>3, <1>4

(* The commands the controller holds, place by place. *)
LEMMA HeldIs ==
  Held = Items(in_queue) \cup Items(out_queue) \cup read_buffer
           \cup write_buffer \cup active_buffer \cup PendingCommands
BY DEF Held

(* A queue that holds nothing twice; a queue of pending reads that holds   *)
(* no command twice.                                                       *)
Once(q)         == \A i, j \in DOMAIN q : q[i] = q[j] => i = j
OnceCommands(q) == \A i, j \in DOMAIN q : q[i].cmd = q[j].cmd => i = j

(* Where the elements of a concatenation come from. *)
LEMMA ConcatAt ==
  ASSUME NEW S, NEW q \in Seq(S), NEW r \in Seq(S), NEW i \in DOMAIN (q \o r)
  PROVE  \/ i \in DOMAIN q /\ (q \o r)[i] = q[i]
         \/ i - Len(q) \in DOMAIN r /\ (q \o r)[i] = r[i - Len(q)]
<1>1. /\ Len(q) \in Nat /\ DOMAIN q = 1 .. Len(q)
      /\ Len(r) \in Nat /\ DOMAIN r = 1 .. Len(r)
  BY LenProperties
<1>2. /\ i \in 1 .. Len(q) + Len(r)
      /\ (q \o r)[i] = IF i <= Len(q) THEN q[i] ELSE r[i - Len(q)]
  BY ConcatProperties, LenProperties
<1>3. CASE i <= Len(q)
  BY <1>1, <1>2, <1>3
<1>4. CASE i > Len(q)
  BY <1>1, <1>2, <1>4
<1> QED
  BY <1>1, <1>2, <1>3, <1>4

(* Two sequences without repeats and without common items have no repeats
   together. *)
LEMMA OnceConcat ==
  ASSUME NEW S, NEW q \in Seq(S), NEW r \in Seq(S),
         Once(q), Once(r), Items(q) \cap Items(r) = {}
  PROVE  Once(q \o r)
<1> SUFFICES ASSUME NEW i \in DOMAIN (q \o r), NEW j \in DOMAIN (q \o r),
                    (q \o r)[i] = (q \o r)[j]
             PROVE  i = j
  BY DEF Once
<1>1. Len(q) \in Nat /\ Len(r) \in Nat /\ DOMAIN (q \o r) = 1 .. Len(q) + Len(r)
  BY ConcatProperties, LenProperties
<1>2. /\ \A k \in DOMAIN q : q[k] \in Items(q)
      /\ \A k \in DOMAIN r : r[k] \in Items(r)
  BY DEF Items
<1>3. /\ i \in Int /\ j \in Int
      /\ \/ i \in DOMAIN q /\ (q \o r)[i] = q[i]
         \/ i - Len(q) \in DOMAIN r /\ (q \o r)[i] = r[i - Len(q)]
      /\ \/ j \in DOMAIN q /\ (q \o r)[j] = q[j]
         \/ j - Len(q) \in DOMAIN r /\ (q \o r)[j] = r[j - Len(q)]
  BY <1>1, ConcatAt
<1>4. CASE i \in DOMAIN q /\ (q \o r)[i] = q[i]
  BY <1>2, <1>3, <1>4 DEF Once
<1>5. CASE i - Len(q) \in DOMAIN r /\ (q \o r)[i] = r[i - Len(q)]
  <2>1. j - Len(q) \in DOMAIN r /\ (q \o r)[j] = r[j - Len(q)]
    BY <1>2, <1>3, <1>5
  <2>2. i - Len(q) = j - Len(q)
    BY <1>5, <2>1 DEF Once
  <2> QED
    BY <1>1, <1>3, <2>2
<1> QED
  BY <1>3, <1>4, <1>5

(* The same for pending reads, by their commands. *)
LEMMA OnceCommandsConcat ==
  ASSUME NEW q \in Seq(PendingRead), NEW r \in Seq(PendingRead),
         OnceCommands(q), OnceCommands(r), CommandsOf(q) \cap CommandsOf(r) = {}
  PROVE  OnceCommands(q \o r)
<1> SUFFICES ASSUME NEW i \in DOMAIN (q \o r), NEW j \in DOMAIN (q \o r),
                    (q \o r)[i].cmd = (q \o r)[j].cmd
             PROVE  i = j
  BY DEF OnceCommands
<1>1. Len(q) \in Nat /\ Len(r) \in Nat /\ DOMAIN (q \o r) = 1 .. Len(q) + Len(r)
  BY ConcatProperties, LenProperties
<1>2. /\ \A k \in DOMAIN q : q[k].cmd \in CommandsOf(q)
      /\ \A k \in DOMAIN r : r[k].cmd \in CommandsOf(r)
  BY DEF Items, CommandsOf
<1>3. /\ i \in Int /\ j \in Int
      /\ \/ i \in DOMAIN q /\ (q \o r)[i] = q[i]
         \/ i - Len(q) \in DOMAIN r /\ (q \o r)[i] = r[i - Len(q)]
      /\ \/ j \in DOMAIN q /\ (q \o r)[j] = q[j]
         \/ j - Len(q) \in DOMAIN r /\ (q \o r)[j] = r[j - Len(q)]
  BY <1>1, ConcatAt
<1>4. CASE i \in DOMAIN q /\ (q \o r)[i] = q[i]
  BY <1>2, <1>3, <1>4 DEF OnceCommands
<1>5. CASE i - Len(q) \in DOMAIN r /\ (q \o r)[i] = r[i - Len(q)]
  <2>1. j - Len(q) \in DOMAIN r /\ (q \o r)[j] = r[j - Len(q)]
    BY <1>2, <1>3, <1>5
  <2>2. i - Len(q) = j - Len(q)
    BY <1>5, <2>1 DEF OnceCommands
  <2> QED
    BY <1>1, <1>3, <2>2
<1> QED
  BY <1>3, <1>4, <1>5

(* The head of such a queue does not stand behind it. *)
LEMMA OnceTail ==
  ASSUME NEW S, NEW q \in Seq(S), q # <<>>, Once(q)
  PROVE  Once(Tail(q)) /\ Head(q) \notin Items(Tail(q))
<1>1. /\ Len(q) \in Nat \ {0} /\ DOMAIN q = 1 .. Len(q) /\ Head(q) = q[1]
      /\ DOMAIN Tail(q) = 1 .. Len(q) - 1
      /\ \A i \in 1 .. Len(q) - 1 : Tail(q)[i] = q[i + 1]
  BY EmptySeq, LenProperties, HeadTailProperties
<1>2. \A i \in 1 .. Len(q) - 1 : i + 1 \in DOMAIN q /\ i + 1 # 1
  BY <1>1
<1>3. 1 \in DOMAIN q
  BY <1>1
<1> QED
  BY <1>1, <1>2, <1>3 DEF Once, Items

(* A pop of the pending reads takes the only one of its command. *)
LEMMA OnceCommandsTail ==
  ASSUME NEW q \in Seq(PendingRead), q # <<>>, OnceCommands(q)
  PROVE  OnceCommands(Tail(q)) /\ Head(q).cmd \notin CommandsOf(Tail(q))
<1>1. /\ Len(q) \in Nat \ {0} /\ DOMAIN q = 1 .. Len(q) /\ Head(q) = q[1]
      /\ DOMAIN Tail(q) = 1 .. Len(q) - 1
      /\ \A i \in 1 .. Len(q) - 1 : Tail(q)[i] = q[i + 1]
  BY EmptySeq, LenProperties, HeadTailProperties
<1>2. \A i \in 1 .. Len(q) - 1 : i + 1 \in DOMAIN q /\ i + 1 # 1
  BY <1>1
<1>3. 1 \in DOMAIN q
  BY <1>1
<1> QED
  BY <1>1, <1>2, <1>3 DEF OnceCommands, CommandsOf, Items

(* Six sets no two of which share an element. *)
Apart(a, b, c, d, e, f) ==
  /\ a \cap (b \cup c \cup d \cup e \cup f) = {}
  /\ b \cap (c \cup d \cup e \cup f) = {}
  /\ c \cap (d \cup e \cup f) = {}
  /\ d \cap (e \cup f) = {}
  /\ e \cap f = {}

(* An element of the third, fourth or fifth goes to the sixth or second.   *)
LEMMA ApartMoved ==
  ASSUME NEW a, NEW b, NEW c, NEW d, NEW e, NEW f, NEW x,
         Apart(a, b, c, d, e, f), x \notin a, x \notin b, x \notin f
  PROVE  /\ Apart(a, b, c \ {x}, d \ {x}, e \ {x}, f \cup {x})
         /\ Apart(a, b \cup {x}, c \ {x}, d \ {x}, e \ {x}, f)
BY DEF Apart

(* The inductive invariant: each command is in one place of the controller *)
(* at most, and there once; one that is not sent or is back is not there;  *)
(* and the active buffer has its max_size + 1 places.                      *)
StoreInv ==
  /\ Once(in_queue) /\ Once(out_queue) /\ OnceCommands(pending)
  /\ Apart(Items(in_queue), Items(out_queue), read_buffer, write_buffer,
           active_buffer, PendingCommands)
  /\ (unsent \cup returned) \cap Held = {}
  /\ unsent \cap returned = {}
  /\ Cardinality(active_buffer) <= MaxSize + 1

(* First half of a tick: the head of in_queue has left it, if it went      *)
(* anywhere, and went to one place.                                        *)
LEMMA EntryApart ==
  ASSUME TypeOK, StoreInv
  PROVE  /\ Once(WaitingCommands) /\ Forwarded \cap PendingCommands = {}
         /\ Apart(Items(WaitingCommands), Items(out_queue), reads, writes,
                  active_buffer, PendingCommands \cup Forwarded)
<1>1. CASE Forwarded \cup Enqueued = {}
  BY <1>1 DEF WaitingCommands, reads, writes, StoreInv, Apart
<1>2. CASE Forwarded \cup Enqueued # {}
  <2>1. in_queue # <<>> /\ First = {Head(in_queue)}
    BY <1>2 DEF First, Forwarded, Enqueued
  <2>2. /\ Forwarded \cup Enqueued = {Head(in_queue)}
        /\ Forwarded \cap Enqueued = {}
    BY <1>2, <2>1 DEF Forwarded, Enqueued
  <2>3. WaitingCommands = Tail(in_queue)
    BY <1>2 DEF WaitingCommands
  <2>4. Items(in_queue) = {Head(in_queue)} \cup Items(WaitingCommands)
    BY <2>1, <2>3, ItemsOfTail DEF TypeOK
  <2>5. Once(WaitingCommands) /\ Head(in_queue) \notin Items(WaitingCommands)
    BY <2>1, <2>3, OnceTail DEF TypeOK, StoreInv
  <2> DEFINE toRead  == {c \in Enqueued : c.type = "R"}
             toWrite == {c \in Enqueued : c.type = "W"}
  <2>6. /\ reads = read_buffer \cup toRead /\ writes = write_buffer \cup toWrite
        /\ toRead \cap toWrite = {} /\ toRead \cup toWrite \subseteq Enqueued
    BY DEF reads, writes
  <2> HIDE DEF toRead, toWrite
  <2>7. Apart(Items(in_queue), Items(out_queue), read_buffer, write_buffer,
              active_buffer, PendingCommands)
    BY DEF StoreInv
  <2>8. Forwarded \cap PendingCommands = {}
    BY <2>2, <2>4, <2>7 DEF Apart
  <2>9. Apart(Items(WaitingCommands), Items(out_queue), reads, writes,
              active_buffer, PendingCommands \cup Forwarded)
    BY <2>2, <2>4, <2>5, <2>6, <2>7 DEF Apart
  <2> QED
    BY <2>5, <2>8, <2>9
<1> QED
  BY <1>1, <1>2

(* Second half: the read that is served leaves the pending ones.           *)
LEMMA ServingApart ==
  ASSUME TypeOK, StoreInv
  PROVE  /\ Once(WaitingCommands) /\ Once(out_queue \o served)
         /\ OnceCommands(unserved)
         /\ Apart(Items(WaitingCommands), Items(out_queue \o served), reads,
                  writes, active_buffer, CommandsOf(unserved))
<1> DEFINE all == pending \o Pended(Forwarded, 1)
<1>t. /\ aged \in Seq(PendingRead) /\ DOMAIN aged = DOMAIN all
      /\ \A i \in DOMAIN all : aged[i].cmd = all[i].cmd
      /\ pending \in Seq(PendingRead)
      /\ Pended(Forwarded, 1) \in Seq(PendingRead)
  BY AgedTyped, EntryTyped, PendedTyped DEF TypeOK, PendingRead
<1>1. CommandsOf(Pended(Forwarded, 1)) = Forwarded
  <2>1. CASE Forwarded = {}
    BY <2>1, ItemsOfOne DEF Pended, CommandsOf
  <2>2. CASE Forwarded # {}
    <3>1. Forwarded = {Head(in_queue)}
      BY <2>2 DEF Forwarded, First
    <3> QED
      BY <3>1, PendedCommand
  <2> QED
    BY <2>1, <2>2
<1>2. OnceCommands(Pended(Forwarded, 1))
  BY DEF OnceCommands, Pended
<1>3. CommandsOf(pending) = PendingCommands
  BY DEF CommandsOf, PendingCommands
<1>4. OnceCommands(all) /\ CommandsOf(all) = PendingCommands \cup Forwarded
  BY <1>t, <1>1, <1>2, <1>3, EntryApart, OnceCommandsConcat, CommandsOfConcat
     DEF StoreInv
<1> HIDE DEF all
<1>5. OnceCommands(aged) /\ CommandsOf(aged) = PendingCommands \cup Forwarded
  BY <1>t, <1>4 DEF OnceCommands, CommandsOf, Items
<1>6. CASE Departs
  <2>1. /\ aged # <<>> /\ served = <<Head(aged).cmd>>
        /\ unserved = Tail(aged)
    BY <1>6 DEF Departs, served, unserved
  <2>2. Items(aged) = {Head(aged)} \cup Items(Tail(aged))
    BY <1>t, <2>1, ItemsOfTail
  <2>3. CommandsOf(aged) = {Head(aged).cmd} \cup CommandsOf(unserved)
    BY <2>1, <2>2 DEF CommandsOf
  <2>4. /\ OnceCommands(unserved)
        /\ Head(aged).cmd \notin CommandsOf(unserved)
    BY <1>t, <1>5, <2>1, OnceCommandsTail
  <2>5. Items(served) = {Head(aged).cmd} /\ Once(served)
    BY <2>1, ItemsOfOne DEF Once
  <2>6. Items(out_queue) \cap Items(served) = {}
    BY <1>5, <2>3, <2>5, EntryApart DEF Apart
  <2>7. /\ Once(out_queue \o served)
        /\ Items(out_queue \o served) = Items(out_queue) \cup Items(served)
    BY <2>5, <2>6, OnceConcat, ItemsOfConcat, ServedTyped DEF TypeOK, StoreInv
  <2>8. Apart(Items(WaitingCommands), Items(out_queue \o served), reads,
              writes, active_buffer, CommandsOf(unserved))
    BY <1>5, <2>3, <2>4, <2>5, <2>7, EntryApart DEF Apart
  <2> QED
    BY <2>4, <2>7, <2>8, EntryApart
<1>7. CASE ~Departs
  <2>1. served = <<>> /\ unserved = aged
    BY <1>7 DEF served, unserved
  <2>2. out_queue \o served = out_queue
    BY <2>1, ConcatEmptySeq DEF TypeOK
  <2> QED
    BY <1>5, <2>1, <2>2, EntryApart DEF StoreInv
<1> QED
  BY <1>6, <1>7

(* Issuing a command moves one request, or none. *)
LEMMA IssueApart ==
  ASSUME TypeOK, StoreInv, in_queue' = WaitingCommands,
         \/ \E c \in active_buffer \cup reads \cup writes : Issue(c)
         \/ \E bs \in SUBSET Banks : Close(bs)
  PROVE  /\ Once(in_queue') /\ Once(out_queue') /\ OnceCommands(pending')
         /\ Apart(Items(in_queue'), Items(out_queue'), read_buffer',
                  write_buffer', active_buffer', CommandsOf(pending'))
<1> DEFINE Goal ==
      /\ Once(in_queue') /\ Once(out_queue') /\ OnceCommands(pending')
      /\ Apart(Items(in_queue'), Items(out_queue'), read_buffer',
               write_buffer', active_buffer', CommandsOf(pending'))
<1>t. /\ active_buffer \cup reads \cup writes \subseteq Commands
      /\ unserved \in Seq(PendingRead)
      /\ out_queue \o served \in Seq(Commands)
  BY EntryTyped, ServedTyped, TickTyped DEF TypeOK
<1>a. /\ Once(WaitingCommands) /\ Once(out_queue \o served)
      /\ OnceCommands(unserved)
      /\ Apart(Items(WaitingCommands), Items(out_queue \o served), reads,
               writes, active_buffer, CommandsOf(unserved))
  BY ServingApart
<1>1. ASSUME NEW bs, Close(bs) PROVE Goal
  BY <1>1, <1>a DEF Close
<1>2. ASSUME NEW c \in active_buffer \cup reads \cup writes, Activate(c)
      PROVE  Goal
  <2>1. /\ read_buffer' = reads \ {c} /\ write_buffer' = writes \ {c}
        /\ active_buffer' \subseteq active_buffer \cup {c}
        /\ pending' = unserved /\ out_queue' = out_queue \o served
    BY <1>2 DEF Activate
  <2> QED
    BY <1>a, <2>1 DEF Apart
<1>3. ASSUME NEW c \in active_buffer \cup reads \cup writes, Access(c)
      PROVE  Goal
  <2>1. /\ read_buffer' = reads \ {c} /\ write_buffer' = writes \ {c}
        /\ active_buffer' = active_buffer \ {c}
    BY <1>3 DEF Access
  <2>2. /\ c \notin Items(out_queue \o served)
        /\ c \notin CommandsOf(unserved)
    BY <1>a DEF Apart
  <2>i. c \notin Items(WaitingCommands)
    BY <1>a DEF Apart
  <2>3. CASE c.type = "R"
    <3>1. /\ pending' = unserved \o Pended({c}, ReadLatency)
          /\ out_queue' = out_queue \o served
      BY <1>3, <2>3 DEF Access
    <3>2. /\ Pended({c}, ReadLatency) \in Seq(PendingRead)
          /\ CommandsOf(Pended({c}, ReadLatency)) = {c}
      BY <1>t, PendedTyped, PendedCommand, DramAssumption
    <3>3. OnceCommands(Pended({c}, ReadLatency))
      BY DEF OnceCommands, Pended
    <3>4. OnceCommands(pending')
      BY <1>t, <1>a, <2>2, <3>1, <3>2, <3>3, OnceCommandsConcat
    <3>5. CommandsOf(pending') = CommandsOf(unserved) \cup {c}
      BY <1>t, <3>1, <3>2, CommandsOfConcat
    <3>6. Apart(Items(WaitingCommands), Items(out_queue \o served),
                reads \ {c}, writes \ {c}, active_buffer \ {c},
                CommandsOf(unserved) \cup {c})
      BY <1>a, <2>2, <2>i, ApartMoved
    <3> QED
      BY <1>a, <2>1, <3>1, <3>4, <3>5, <3>6
  <2>4. CASE c.type # "R"
    <3>1. /\ pending' = unserved
          /\ out_queue' = (out_queue \o served) \o <<c>>
      BY <1>3, <2>4 DEF Access
    <3>2. <<c>> \in Seq(Commands) /\ Items(<<c>>) = {c} /\ Once(<<c>>)
      BY <1>t, ItemsOfOne DEF Once
    <3>3. Once(out_queue')
      BY <1>t, <1>a, <2>2, <3>1, <3>2, OnceConcat
    <3>4. Items(out_queue') = Items(out_queue \o served) \cup {c}
      <4>1. out_queue \o served \in Seq(Commands) /\ c \in Commands
        BY <1>t
      <4> QED
        BY <3>1, <4>1, ItemsBehind
    <3>5. Apart(Items(WaitingCommands), Items(out_queue \o served) \cup {c},
                reads \ {c}, writes \ {c}, active_buffer \ {c},
                CommandsOf(unserved))
      BY <1>a, <2>2, <2>i, ApartMoved
    <3> QED
      BY <1>a, <2>1, <3>1, <3>3, <3>4, <3>5
  <2> QED
    BY <2>3, <2>4
<1> QED
  BY <1>1, <1>2, <1>3 DEF Issue, Precharge

(* The store invariant holds at the start. *)
LEMMA StoreStart == Init => StoreInv
<1> SUFFICES ASSUME Init PROVE StoreInv
  OBVIOUS
<1>1. /\ Items(in_queue) = {} /\ Items(out_queue) = {} /\ PendingCommands = {}
  BY ItemsOfOne DEF Init, PendingCommands
<1>2. Held = {}
  BY <1>1, HeldIs DEF Init
<1>3. Once(in_queue) /\ Once(out_queue) /\ OnceCommands(pending)
  BY DEF Init, Once, OnceCommands
<1>4. Cardinality(active_buffer) <= MaxSize + 1
  BY FS_EmptySet, DramAssumption DEF Init
<1> QED
  BY <1>1, <1>2, <1>3, <1>4 DEF Init, StoreInv, Apart

(* A command that is sent is held from then on. *)
LEMMA SendStep ==
  ASSUME TypeOK, StoreInv, NEW c \in Commands, SendCommand(c)
  PROVE  StoreInv' /\ Store!Submit(c)
<1>1. /\ Items(in_queue') = Items(in_queue) \cup {c}
      /\ Once(in_queue')
  <2>1. /\ in_queue \in Seq(Commands) /\ <<c>> \in Seq(Commands)
        /\ in_queue' = in_queue \o <<c>>
    BY AppendIsConcat DEF TypeOK, SendCommand
  <2>2. Items(<<c>>) = {c} /\ Once(<<c>>)
    BY ItemsOfOne DEF Once
  <2>3. Items(in_queue) \cap {c} = {}
    BY HeldIs DEF SendCommand, StoreInv
  <2>4. Once(in_queue \o <<c>>)
    BY <2>1, <2>2, <2>3, OnceConcat DEF StoreInv
  <2>5. Items(in_queue \o <<c>>) = Items(in_queue) \cup Items(<<c>>)
    BY <2>1, ItemsOfConcat
  <2> QED
    BY <2>1, <2>2, <2>4, <2>5
<1>2. /\ UNCHANGED <<out_queue, read_buffer, write_buffer, active_buffer,
                     pending, returned>>
      /\ unsent' = unsent \ {c} /\ c \in unsent
  BY DEF SendCommand, buffers
<1>3. PendingCommands' = PendingCommands
  BY <1>2 DEF PendingCommands
<1>4. Held' = Held \cup {c}
  BY <1>1, <1>2, <1>3, HeldIs DEF Held
<1>5. c \notin Held /\ c \notin returned
  BY <1>2 DEF StoreInv
<1>6. StoreInv'
  BY <1>1, <1>2, <1>3, <1>4, <1>5, HeldIs DEF StoreInv, Apart
<1> QED
  BY <1>2, <1>4, <1>6 DEF Store!Submit

(* A completed command handed back leaves the store. *)
LEMMA ReturnStep ==
  ASSUME TypeOK, StoreInv, GetCompletedCommand
  PROVE  /\ StoreInv'
         /\ Head(out_queue) \in Commands /\ Store!Return(Head(out_queue))
<1> DEFINE c == Head(out_queue)
<1>1. /\ out_queue # <<>> /\ out_queue' = Tail(out_queue)
      /\ returned' = returned \cup {c}
      /\ UNCHANGED <<in_queue, read_buffer, write_buffer, active_buffer,
                     pending, unsent>>
  BY DEF GetCompletedCommand, buffers
<1>2. /\ Once(out_queue') /\ c \notin Items(out_queue')
      /\ Items(out_queue) = {c} \cup Items(out_queue')
  BY <1>1, OnceTail, ItemsOfTail DEF TypeOK, StoreInv
<1>3. PendingCommands' = PendingCommands
  BY <1>1 DEF PendingCommands
<1>4. c \in Commands
  BY <1>1, HeadTailProperties DEF TypeOK
<1> HIDE DEF c
<1>5. c \in Held /\ Held' = Held \ {c} /\ c \notin active_buffer
  BY <1>1, <1>2, <1>3, HeldIs DEF Held, StoreInv, Apart
<1>6. StoreInv'
  BY <1>1, <1>2, <1>3, <1>5, HeldIs DEF StoreInv, Apart
<1> QED
  BY <1>1, <1>4, <1>5, <1>6 DEF Store!Return, c

(* In a tick, the places of the commands held: after the head of in_queue  *)
(* and the first pending read have moved, and after the whole tick.        *)
LEMMA TickHeld ==
  ASSUME TypeOK, in_queue' = WaitingCommands
  PROVE  /\ Held = Items(WaitingCommands) \cup Items(out_queue \o served)
                     \cup reads \cup writes \cup active_buffer
                     \cup CommandsOf(unserved)
         /\ Held' = Items(WaitingCommands) \cup Items(out_queue') \cup read_buffer'
                      \cup write_buffer' \cup active_buffer' \cup CommandsOf(pending')
<1>1. Items(out_queue \o served) = Items(out_queue) \cup Items(served)
  BY ServedTyped, ItemsOfConcat DEF TypeOK
<1> QED
  BY <1>1, HeldIs, EntryKeepsAll, ServingKeepsAll
     DEF Held, CommandsOf, PendingCommands

(* A command that only closes rows. *)
LEMMA CloseStep ==
  ASSUME TypeOK, in_queue' = WaitingCommands, NEW bs, Close(bs)
  PROVE  Held' = Held /\ active_buffer' = active_buffer
BY TickHeld DEF Close

(* The last command of a request: if it was active, it is no more.         *)
LEMMA AccessStep ==
  ASSUME TypeOK, in_queue' = WaitingCommands,
         NEW c \in active_buffer \cup reads \cup writes, Access(c)
  PROVE  Held' = Held /\ active_buffer' = active_buffer \ {c}
<1>t. /\ c \in Commands /\ unserved \in Seq(PendingRead)
      /\ out_queue \o served \in Seq(Commands)
  BY EntryTyped, ServedTyped, TickTyped DEF TypeOK
<1>h. /\ Held = Items(WaitingCommands) \cup Items(out_queue \o served)
                   \cup reads \cup writes \cup active_buffer
                   \cup CommandsOf(unserved)
      /\ Held' = Items(WaitingCommands) \cup Items(out_queue')
                    \cup read_buffer' \cup write_buffer' \cup active_buffer'
                    \cup CommandsOf(pending')
  BY TickHeld
<1>a. /\ read_buffer' = reads \ {c} /\ write_buffer' = writes \ {c}
      /\ active_buffer' = active_buffer \ {c}
  BY DEF Access
<1>1. CASE c.type = "R"
  <2>1. /\ pending' = unserved \o Pended({c}, ReadLatency)
        /\ out_queue' = out_queue \o served
    BY <1>1 DEF Access
  <2>2. Pended({c}, ReadLatency) \in Seq(PendingRead)
    BY <1>t, PendedTyped, DramAssumption
  <2>3. CommandsOf(pending') = CommandsOf(unserved) \cup {c}
    <3>1. CommandsOf(unserved \o Pended({c}, ReadLatency))
            = CommandsOf(unserved) \cup CommandsOf(Pended({c}, ReadLatency))
      BY <1>t, <2>2, CommandsOfConcat
    <3>2. CommandsOf(Pended({c}, ReadLatency)) = {c}
      BY PendedCommand
    <3> QED
      BY <2>1, <3>1, <3>2
  <2>4. Items(out_queue') = Items(out_queue \o served)
    BY <2>1
  <2> QED
    BY <1>h, <1>a, <2>3, <2>4
<1>2. CASE c.type # "R"
  <2>1. /\ pending' = unserved
        /\ out_queue' = (out_queue \o served) \o <<c>>
    BY <1>2 DEF Access
  <2>2. Items(out_queue') = Items(out_queue \o served) \cup {c}
    BY <1>t, <2>1, ItemsBehind
  <2>3. CommandsOf(pending') = CommandsOf(unserved)
    BY <2>1
  <2> QED
    BY <1>h, <1>a, <2>2, <2>3
<1> QED
  BY <1>1, <1>2

(* A request whose row is opened was not active, and no active request     *)
(* needs its bank.  It becomes active, or with a full buffer it is gone.   *)
LEMMA ActivateStep ==
  ASSUME TypeOK, StoreInv, OpenForActive, in_queue' = WaitingCommands,
         NEW c \in active_buffer \cup reads \cup writes, Activate(c)
  PROVE  /\ Store!Opens(c)
         /\ IF Accepts(active_buffer)
              THEN Held' = Held /\ active_buffer' = active_buffer \cup {c}
              ELSE Held' = Held \ {c} /\ active_buffer' = active_buffer
<1>t. c \in Commands /\ active_buffer \subseteq Commands
  BY EntryTyped DEF TypeOK
<1>1. \A d \in active_buffer : bank(d) # bank(c)
  BY <1>t, Mapped DEF Activate, OpenForActive
<1>2. c \in Held \ active_buffer
  BY <1>1, TickHeld
<1>3. Store!Opens(c)
  BY <1>t, <1>1, <1>2 DEF Store!Opens
<1>4. CASE Accepts(active_buffer)
  BY <1>3, <1>4, TickHeld DEF Activate
<1>5. CASE ~Accepts(active_buffer)
  <2>1. active_buffer' = active_buffer
    BY <1>2, <1>5 DEF Activate
  <2>2. /\ c \notin Items(WaitingCommands) \cup Items(out_queue \o served)
        /\ c \notin CommandsOf(unserved)
    <3>1. Apart(Items(WaitingCommands), Items(out_queue \o served), reads,
                writes, active_buffer, CommandsOf(unserved))
      BY ServingApart
    <3> QED
      BY <3>1 DEF Apart
  <2>3. Held' = Held \ {c}
    BY <1>2, <2>1, <2>2, TickHeld DEF Activate
  <2> QED
    BY <1>3, <1>5, <2>1, <2>3
<1> QED
  BY <1>4, <1>5

(* A place of the active buffer is taken only where there is one.          *)
LEMMA PlacesKept ==
  ASSUME TypeOK, Cardinality(active_buffer) <= MaxSize + 1, NEW c,
         \/ active_buffer' \subseteq active_buffer
         \/ Accepts(active_buffer) /\ active_buffer' = active_buffer \cup {c}
  PROVE  Cardinality(active_buffer') <= MaxSize + 1
<1>1. IsFiniteSet(active_buffer)
  BY FS_Subset, DramAssumption DEF TypeOK
<1>2. Cardinality(active_buffer) \in Nat
  BY <1>1, FS_CardinalityType
<1>3. CASE active_buffer' \subseteq active_buffer
  <2>1. /\ IsFiniteSet(active_buffer')
        /\ Cardinality(active_buffer') <= Cardinality(active_buffer)
    BY <1>1, <1>3, FS_Subset
  <2>2. Cardinality(active_buffer') \in Nat
    BY <2>1, FS_CardinalityType
  <2> QED
    BY <1>2, <2>1, <2>2, DramAssumption
<1>4. CASE Accepts(active_buffer) /\ active_buffer' = active_buffer \cup {c}
  <2>1. Cardinality(active_buffer') \in {Cardinality(active_buffer),
                                         Cardinality(active_buffer) + 1}
    BY <1>1, <1>4, FS_AddElement
  <2> QED
    BY <1>2, <1>4, <2>1, DramAssumption DEF Accepts
<1> QED
  BY <1>3, <1>4

(* What a clock tick does to the commands held and to the active ones.     *)
LEMMA TickEffect ==
  ASSUME TypeOK, StoreInv, OpenForActive, ClockTick
  PROVE  \/ Held' = Held /\ active_buffer' = active_buffer
         \/ \E c \in Commands :
              \/ c \in active_buffer /\ Held' = Held
                   /\ active_buffer' = active_buffer \ {c}
              \/ Store!Opens(c) /\ Accepts(active_buffer) /\ Held' = Held
                   /\ active_buffer' = active_buffer \cup {c}
              \/ Store!Opens(c) /\ ~Accepts(active_buffer)
                   /\ Held' = Held \ {c} /\ active_buffer' = active_buffer
<1>1. /\ in_queue' = WaitingCommands
      /\ \E ranks \in Seq(SUBSET Banks) : Schedule(ranks)
  BY TickSchedules
<1>2. \/ \E c \in active_buffer \cup reads \cup writes : Issue(c)
      \/ \E bs \in SUBSET Banks : Close(bs)
  BY <1>1, TickIssues
<1>3. CASE \E bs \in SUBSET Banks : Close(bs)
  BY <1>1, <1>3, CloseStep
<1>4. ASSUME NEW c \in active_buffer \cup reads \cup writes, Precharge(c)
      PROVE  Held' = Held /\ active_buffer' = active_buffer
  BY <1>1, <1>4, CloseStep DEF Precharge
<1>5. active_buffer \cup reads \cup writes \subseteq Commands
  BY EntryTyped DEF TypeOK
<1>6. ASSUME NEW c \in active_buffer \cup reads \cup writes, Access(c)
      PROVE  /\ Held' = Held /\ active_buffer' = active_buffer \ {c}
             /\ c \notin active_buffer => active_buffer' = active_buffer
  BY <1>1, <1>6, AccessStep
<1>7. ASSUME NEW c \in active_buffer \cup reads \cup writes, Activate(c)
      PROVE  /\ Store!Opens(c)
             /\ IF Accepts(active_buffer)
                  THEN Held' = Held /\ active_buffer' = active_buffer \cup {c}
                  ELSE Held' = Held \ {c} /\ active_buffer' = active_buffer
  BY <1>1, <1>7, ActivateStep
<1> QED
  BY <1>2, <1>3, <1>4, <1>5, <1>6, <1>7 DEF Issue

(* A clock tick is a step of the abstract store, or none.                  *)
LEMMA TickStep ==
  ASSUME TypeOK, StoreInv, OpenForActive, ClockTick
  PROVE  /\ StoreInv'
         /\ \/ UNCHANGED Store!vars
            \/ \E c \in Commands : Store!Open(c) \/ Store!Lose(c) \/ Store!Use(c)
<1>1. /\ in_queue' = WaitingCommands /\ UNCHANGED <<unsent, returned>>
      /\ \E ranks \in Seq(SUBSET Banks) : Schedule(ranks)
  BY TickSchedules
<1>2. \/ \E c \in active_buffer \cup reads \cup writes : Issue(c)
      \/ \E bs \in SUBSET Banks : Close(bs)
  BY <1>1, TickIssues
<1>3. /\ Once(in_queue') /\ Once(out_queue') /\ OnceCommands(pending')
      /\ Apart(Items(in_queue'), Items(out_queue'), read_buffer',
               write_buffer', active_buffer', CommandsOf(pending'))
  BY <1>1, <1>2, IssueApart
<1>4. PendingCommands' = CommandsOf(pending')
  BY DEF PendingCommands, CommandsOf
<1>5. /\ Held' \subseteq Held
      /\ \E c : \/ active_buffer' \subseteq active_buffer
                \/ /\ Accepts(active_buffer)
                   /\ active_buffer' = active_buffer \cup {c}
  BY TickEffect
<1>6. Cardinality(active_buffer') <= MaxSize + 1
  BY <1>5, PlacesKept DEF StoreInv
<1>7. StoreInv'
  BY <1>1, <1>3, <1>4, <1>5, <1>6 DEF StoreInv
<1>8. /\ IsFiniteSet(active_buffer) /\ Cardinality(active_buffer) \in Nat
      /\ Cardinality(active_buffer) <= MaxSize + 1
  BY FS_Subset, FS_CardinalityType, DramAssumption DEF TypeOK, StoreInv
<1>9. /\ Accepts(active_buffer) => Cardinality(active_buffer) < MaxSize + 1
      /\ ~Accepts(active_buffer) => Cardinality(active_buffer) = MaxSize + 1
  BY <1>8, DramAssumption DEF Accepts
<1>c. Store!Cardinality(active_buffer) = Cardinality(active_buffer)
  BY DEF Store!Cardinality, Cardinality
<1>10. \/ UNCHANGED Store!vars
       \/ \E c \in Commands : Store!Open(c) \/ Store!Lose(c) \/ Store!Use(c)
  <2>1. CASE Held' = Held /\ active_buffer' = active_buffer
    BY <1>1, <2>1 DEF Store!vars
  <2>2. ASSUME NEW c \in active_buffer,
               Held' = Held, active_buffer' = active_buffer \ {c}
        PROVE  Store!Use(c)
    BY <1>1, <2>2 DEF Store!Use
  <2>3. ASSUME NEW c \in Commands, Store!Opens(c), Accepts(active_buffer),
               Held' = Held, active_buffer' = active_buffer \cup {c}
        PROVE  Store!Open(c)
    BY <1>1, <1>9, <1>c, <2>3 DEF Store!Open, Store!Opens
  <2>4. ASSUME NEW c \in Commands, Store!Opens(c), ~Accepts(active_buffer),
               Held' = Held \ {c}, active_buffer' = active_buffer
        PROVE  Store!Lose(c)
    BY <1>1, <1>9, <1>c, <2>4 DEF Store!Lose, Store!Opens
  <2> QED
    BY TickEffect, <2>1, <2>2, <2>3, <2>4
<1> QED
  BY <1>7, <1>10

(* The controller, with its buffers, write mode, forwarded reads and       *)
(* refreshes, keeps every command until it is returned and returns it      *)
(* once, for any number of banks, but where tick ignores the result of     *)
(* m_active_buffer.enqueue: a command is gone only when it opens a row     *)
(* while commands of max_size + 1 other banks have theirs open.            *)
THEOREM KeptUnlessCrowded == Spec => ImplementsStore
<1>1. Init => Store!Init
  <2> SUFFICES ASSUME Init PROVE Store!Init
    OBVIOUS
  <2>1. Held = {}
    BY ItemsOfOne, HeldIs DEF Init, PendingCommands
  <2> QED
    BY <2>1 DEF Init, Store!Init
<1>2. TypeOK /\ OpenForActive /\ StoreInv /\ [Next]_vars
        => StoreInv' /\ [Store!Next]_(Store!vars)
  <2> SUFFICES ASSUME TypeOK, OpenForActive, StoreInv, [Next]_vars
               PROVE  StoreInv' /\ [Store!Next]_(Store!vars)
    OBVIOUS
  <2>1. CASE \E c \in Commands : SendCommand(c)
    BY <2>1, SendStep DEF Store!Next
  <2>2. CASE GetCompletedCommand
    BY <2>2, ReturnStep DEF Store!Next
  <2>3. CASE UNCHANGED vars
    <3>1. Held' = Held /\ PendingCommands' = PendingCommands
      BY <2>3 DEF vars, buffers, Held, PendingCommands
    <3> QED
      BY <2>3, <3>1 DEF vars, buffers, StoreInv, Store!vars
  <2>4. CASE ClockTick
    BY <2>4, TickStep DEF Store!Next
  <2> QED
    BY <2>1, <2>2, <2>3, <2>4 DEF Next
<1> QED
  BY <1>1, <1>2, StoreStart, TypeCorrect, RowsKept, PTL
     DEF Spec, ImplementsStore, Store!Spec
=============================================================================

------------------------------ MODULE MCCxlSim ------------------------------
(***************************************************************************)
(* Small instances of the simulator: two hosts, packets of two payloads.   *)
(***************************************************************************)
EXTENDS CxlSimProperties
LOCAL INSTANCE TLC

CONSTANTS h0, h1

R(a) == [type |-> "R", addr |-> a]
Written(a, t) == [type |-> "W", addr |-> a, tag |-> t]
W(a) == Written(a, a)                             \* the tag names the write
T    == [type |-> "T"]

Pair(p, q) == (h0 :> p) @@ (h1 :> q)

MCHosts    == {h0, h1}
MCPktAddrs == {0, 2}

(* trace/r0.txt and r1.txt: a write and a read of the other's packet. *)
Exchange == Pair(<<W(0), R(2), T>>, <<W(2), R(0), T>>)

(* trace/llm: what one host writes the other reads, then the reverse. *)
Relay == Pair(<<R(0), W(2), T>>, <<W(0), R(2), T>>)

(* A burst of writes in the ring before anything is read. *)
Burst == Pair(<<W(0), W(2), T>>, <<R(0), R(2), T>>)

(* One host on its own reads what it wrote. *)
Alone == Pair(<<W(0), R(0), T>>, <<T>>)

(* An address used again when its packet was read: the hosts of the writer *)
(* and of the reader change places, which packet 2 tells the other one; or *)
(* one host is both.                                                       *)
Handover == Pair(<<Written(0, 0), R(2), R(0), T>>,
                 <<R(0), Written(0, 1), Written(2, 2), T>>)
Reused   == Pair(<<Written(0, 0), R(0), Written(0, 1), R(0), T>>, <<T>>)

MCTags == {0, 1, 2}

Disciplined == {Exchange, Relay, Burst, Alone}
MCPrograms  == Disciplined \cup {Handover, Reused}
JustBurst   == {Burst}

(* A host writes a packet twice, and then reads it twice. *)
TwiceEach == {Pair(<<Written(0, 0), Written(0, 1), R(0), R(0), T>>, <<T>>)}

(* A trace that ends with a write nobody reads. *)
Trailing == {Pair(<<W(0), T>>, <<T>>)}

(* Four of the programs keep to the discipline the theorems assume.        *)
Kept == INSTANCE CxlSimProperties WITH Programs <- Disciplined

ASSUME DisciplineKept ==
  Kept!OwnTraffic /\ Kept!PacketsOnce /\ Kept!TracesEnd /\ Kept!WritesRead
=============================================================================

-------------------------- MODULE MCDramController --------------------------
(***************************************************************************)
(* Buffers of two requests.  The reads conflict with the writes for rows;  *)
(* one of them reads what a write in the buffer has written.               *)
(***************************************************************************)
EXTENDS DramController

CONSTANTS b0, b1, b2, r0, r1

Read(i, a)  == [id |-> i, type |-> "R", addr |-> a]
Write(i, a) == [id |-> i, type |-> "W", addr |-> a]

MCAddrs == 0 .. 3
MCRows  == {r0, r1}
MCRowOf == [a \in MCAddrs |-> IF a = 1 THEN r1 ELSE r0]

(* More banks than the two places of the active buffer, as in the shipped  *)
(* DRAM, in two ranks.  Addresses 0 and 1 are rows of bank b0.             *)
MCBanks  == {b0, b1, b2}
MCRanks  == <<{b0}, {b1, b2}>>
MCBankOf == [a \in MCAddrs |-> IF a < 2 THEN b0 ELSE IF a = 2 THEN b1 ELSE b2]

MCCommands == {Write(0, 0), Read(1, 0), Read(2, 1), Write(3, 2), Read(4, 3)}
=============================================================================

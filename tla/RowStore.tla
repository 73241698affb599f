------------------------------ MODULE RowStore ------------------------------
(***************************************************************************)
(* What can be relied on in the DRAM simulator, whatever the DRAM's timing *)
(* and size: a command that was sent is held until it is returned, in any  *)
(* order, and is returned once.  The exception is Lose: there are Places   *)
(* places for the commands whose rows have been opened, one for each bank, *)
(* and a command whose row is opened when commands of that many other      *)
(* banks occupy them all is gone.                                          *)
(***************************************************************************)
EXTENDS Naturals, FiniteSets

CONSTANTS Commands, Bank,    \* Bank[c]: the bank of command c
          Places

VARIABLES unsent,     \* commands that have not been sent
          held,
          opened,     \* those of them whose rows were opened and not used yet
          returned

vars == <<unsent, held, opened, returned>>

Init == unsent = Commands /\ held = {} /\ opened = {} /\ returned = {}

Submit(c) ==
  /\ c \in unsent
  /\ unsent' = unsent \ {c}
  /\ held' = held \cup {c}
  /\ UNCHANGED <<opened, returned>>

(* The row of c can be opened for it: no command needs its bank.           *)
Opens(c) == c \in held \ opened /\ \A d \in opened : Bank[d] # Bank[c]

Open(c) ==
  /\ Opens(c) /\ Cardinality(opened) < Places
  /\ opened' = opened \cup {c}
  /\ UNCHANGED <<unsent, held, returned>>

Lose(c) ==
  /\ Opens(c) /\ Cardinality(opened) = Places
  /\ held' = held \ {c}
  /\ UNCHANGED <<unsent, opened, returned>>

Use(c) ==
  /\ c \in opened
  /\ opened' = opened \ {c}
  /\ UNCHANGED <<unsent, held, returned>>

Return(c) ==
  /\ c \in held \ opened
  /\ held' = held \ {c}
  /\ returned' = returned \cup {c}
  /\ UNCHANGED <<unsent, opened>>

Next == \E c \in Commands : Submit(c) \/ Open(c) \/ Lose(c) \/ Use(c) \/ Return(c)

Spec == Init /\ [][Next]_vars
=============================================================================

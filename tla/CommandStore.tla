---------------------------- MODULE CommandStore ----------------------------
(***************************************************************************)
(* What the payloads of one memory manager after another do for a request  *)
(* that was issued: it is held until it is answered, in any order, and     *)
(* answered once.                                                          *)
(***************************************************************************)
CONSTANT Commands

VARIABLES unsent,     \* commands that have not been sent
          held,
          returned

vars == <<unsent, held, returned>>

Init == unsent = Commands /\ held = {} /\ returned = {}

Submit(c) ==
  /\ c \in unsent
  /\ unsent' = unsent \ {c}
  /\ held' = held \cup {c}
  /\ UNCHANGED returned

Return(c) ==
  /\ c \in held
  /\ held' = held \ {c}
  /\ returned' = returned \cup {c}
  /\ UNCHANGED unsent

Next == \E c \in Commands : Submit(c) \/ Return(c)

Spec == Init /\ [][Next]_vars
=============================================================================

--------------------------------- MODULE Mm ---------------------------------
(***************************************************************************)
(* The memory manager of generic payloads (utilities/mm.h, mm.cpp): a pool *)
(* that makes a payload when it has none free, and never deletes one.      *)
(*                                                                         *)
(* The free payloads hang on a list of `access' nodes that is doubly       *)
(* linked and keeps its nodes: free_list points to the node of the payload *)
(* that was freed last, empties to the node before it, which was emptied   *)
(* last.  Nodes and payloads are numbered as they are made; 0 is NULL.     *)
(***************************************************************************)
EXTENDS Naturals, Sequences

NewPool == [free_list |-> 0, empties |-> 0, made |-> 0,
            trans |-> <<>>, next |-> <<>>, prev |-> <<>>]

(* allocate: the payload that is returned, and the pool afterwards. *)
Allocated(p) == IF p.free_list = 0 THEN p.made + 1 ELSE p.trans[p.free_list]

(* mutant: the list does not move on *)
AllocateKept(p) ==
  IF p.free_list = 0 THEN [p EXCEPT !.made = @ + 1]
    ELSE [p EXCEPT !.empties = p.free_list]

Allocate(p) ==
  IF p.free_list = 0 THEN [p EXCEPT !.made = @ + 1]
    ELSE [p EXCEPT !.empties = p.free_list,
                   !.free_list = p.next[p.free_list]]

(* "if (!empties)": a node in front of the list. *)
WithEmpty(p) ==
  LET node == Len(p.trans) + 1
  IN IF p.empties # 0 THEN p
     ELSE [p EXCEPT
             !.empties = node,
             !.trans = Append(@, 0),
             !.next = Append(@, p.free_list),
             !.prev = Append([k \in DOMAIN @ |->
                                IF k = p.free_list THEN node ELSE @[k]], 0)]

(* free: the empty node before the list takes the payload.                 *)
Put(q, n) ==
  [q EXCEPT !.free_list = q.empties,
            !.trans[q.empties] = n,
            !.empties = q.prev[q.empties]]

(* mutant: without the link back from the old head *)
FreeUnlinked(p, n) ==
  Put([WithEmpty(p) EXCEPT !.prev = [k \in DOMAIN @ |-> 0]], n)

Free(p, n) == Put(WithEmpty(p), n)

(* The payloads on the list. *)
FreeOf(p) == {p.trans[k] : k \in 1 .. p.free_list}
=============================================================================

--------------------------- MODULE PayloadProofs ---------------------------
(***************************************************************************)
(* The pools of the memory manager and the payloads in use never overlap,  *)
(* requests reach their devices, and none is lost or mixed up with another *)
(* on the way: for every number of hosts, devices and requests.            *)
(*                                                                         *)
(* PoolsSound is not inductive: that the list behaves as a stack rests on  *)
(* how its nodes hang together.  Sound says it: the k-th node that was     *)
(* made links to the one before and the one after it, the nodes up to      *)
(* free_list hold free payloads, and the node after it is the first empty  *)
(* one.                                                                    *)
(***************************************************************************)
EXTENDS PayloadLife, SequenceTheorems, TLAPS

Pools == [free_list : Nat, empties : Nat, made : Nat,
          trans : Seq(Nat), next : Seq(Nat), prev : Seq(Nat)]

Nodes(p) == 1 .. Len(p.trans)

Sound(p) ==
  /\ p \in Pools
  /\ Len(p.next) = Len(p.trans)
  /\ Len(p.prev) = Len(p.trans)
  /\ p.free_list \in 0 .. Len(p.trans)
  /\ p.empties = IF p.free_list = Len(p.trans) THEN 0 ELSE p.free_list + 1
  /\ \A k \in Nodes(p) :
       /\ p.next[k] = k - 1
       /\ p.prev[k] = IF k = Len(p.trans) THEN 0 ELSE k + 1
  /\ \A k \in 1 .. p.free_list : p.trans[k] \in 1 .. p.made
  /\ \A i, k \in 1 .. p.free_list : p.trans[i] = p.trans[k] => i = k

(* A new pool has no payload, free or not. *)
LEMMA NewSound == Sound(M!NewPool) /\ M!FreeOf(M!NewPool) = {}
BY DEF Sound, Pools, Nodes, M!NewPool, M!FreeOf

(* allocate returns a payload that was free, or one that is new. *)
LEMMA AllocateSound ==
  ASSUME NEW p, Sound(p)
  PROVE  /\ Sound(M!Allocate(p))
         /\ M!Allocated(p) \in Nat
         /\ M!FreeOf(M!Allocate(p)) = M!FreeOf(p) \ {M!Allocated(p)}
         /\ 1 .. M!Allocate(p).made = 1 .. p.made \cup {M!Allocated(p)}
         /\ \/ M!Allocated(p) \in M!FreeOf(p)
            \/ M!Allocated(p) = p.made + 1
<1> DEFINE q == M!Allocate(p)
<1>0. p \in Pools
  BY DEF Sound
<1>1. CASE p.free_list = 0
  <2>1. q = [p EXCEPT !.made = p.made + 1] /\ M!Allocated(p) = p.made + 1
    BY <1>1 DEF M!Allocate, M!Allocated
  <2> HIDE DEF q
  <2>2. /\ q \in Pools
        /\ q.free_list = p.free_list /\ q.empties = p.empties
        /\ q.made = p.made + 1 /\ p.made \in Nat
        /\ q.trans = p.trans /\ q.next = p.next /\ q.prev = p.prev
    <3>1. p.made \in Nat /\ p.made + 1 \in Nat
      BY <1>0 DEF Pools
    <3>2. PICK m \in Nat : m = p.made + 1
      BY <3>1
    <3>3. q = [p EXCEPT !.made = m]
      BY <2>1, <3>2
    <3>4. q \in Pools
      BY <1>0, <3>3 DEF Pools
    <3>5. /\ q.free_list = p.free_list /\ q.empties = p.empties /\ q.made = m
          /\ q.trans = p.trans /\ q.next = p.next /\ q.prev = p.prev
      BY <1>0, <3>3 DEF Pools
    <3> QED BY <3>1, <3>2, <3>4, <3>5
  <2>3. Sound(q)
    BY <1>1, <2>2 DEF Sound, Nodes
  <2>4. M!FreeOf(p) = {} /\ M!FreeOf(q) = {}
    BY <1>1, <2>2 DEF M!FreeOf
  <2>5. 1 .. q.made = 1 .. p.made \cup {p.made + 1}
    BY <2>2
  <2> QED BY <2>1, <2>2, <2>3, <2>4, <2>5 DEF q
<1>2. CASE p.free_list # 0
  <2>1. /\ q = [p EXCEPT !.empties = p.free_list,
                         !.free_list = p.next[p.free_list]]
        /\ M!Allocated(p) = p.trans[p.free_list]
    BY <1>2 DEF M!Allocate, M!Allocated
  <2>2. /\ p.free_list \in Nodes(p) /\ Len(p.trans) \in Nat
        /\ p.next[p.free_list] = p.free_list - 1
    <3>1. p.free_list \in 0 .. Len(p.trans)
      BY DEF Sound
    <3>2. Len(p.trans) \in Nat
      BY <1>0, LenProperties DEF Pools
    <3>3. p.free_list \in Nodes(p)
      BY <1>2, <3>1, <3>2 DEF Nodes
    <3> QED BY <3>2, <3>3 DEF Sound
  <2>3. p.free_list \in Nat /\ p.free_list - 1 \in Nat
    BY <2>2 DEF Nodes
  <2>4. /\ q \in Pools
        /\ q.free_list = p.free_list - 1 /\ q.empties = p.free_list
        /\ q.made = p.made
        /\ q.trans = p.trans /\ q.next = p.next /\ q.prev = p.prev
    BY <1>0, <2>1, <2>2, <2>3 DEF Pools
  <2> HIDE DEF q
  <2>5. Sound(q)
    <3>1. /\ q.free_list \in 0 .. Len(q.trans)
          /\ q.empties = IF q.free_list = Len(q.trans) THEN 0
                                                      ELSE q.free_list + 1
      BY <2>2, <2>3, <2>4 DEF Nodes
    <3>2. \A k \in 1 .. q.free_list : k \in 1 .. p.free_list
      BY <2>3, <2>4
    <3>3. Nodes(q) = Nodes(p)
      BY <2>4 DEF Nodes
    <3> QED BY <2>4, <3>1, <3>2, <3>3 DEF Sound
  <2>6. /\ M!Allocated(p) \in M!FreeOf(p)
        /\ M!Allocated(p) \in 1 .. p.made /\ M!Allocated(p) \in Nat
    <3>1. p.free_list \in 1 .. p.free_list
      BY <2>2, <2>3 DEF Nodes
    <3> QED BY <1>0, <2>1, <3>1 DEF Sound, Pools, M!FreeOf
  <2>7. M!FreeOf(q) = M!FreeOf(p) \ {M!Allocated(p)}
    <3>1. \A k \in 1 .. p.free_list :
            k = p.free_list \/ k \in 1 .. p.free_list - 1
      BY <2>3
    <3>2. \A k \in 1 .. p.free_list - 1 : /\ k \in 1 .. p.free_list
                                         /\ k # p.free_list
      BY <2>3
    <3>3. \A k \in 1 .. p.free_list - 1 : p.trans[k] # p.trans[p.free_list]
      <4>1. p.free_list \in 1 .. p.free_list
        BY <2>2, <2>3 DEF Nodes
      <4> QED BY <3>2, <4>1 DEF Sound
    <3> QED BY <2>1, <2>4, <3>1, <3>2, <3>3 DEF M!FreeOf
  <2>8. 1 .. p.made = 1 .. p.made \cup {M!Allocated(p)}
    BY <2>6
  <2> QED BY <2>4, <2>5, <2>6, <2>7, <2>8 DEF q
<1> QED BY <1>1, <1>2

(* free finds an empty node before the list, or makes one. *)
LEMMA EmptySound ==
  ASSUME NEW p, Sound(p)
  PROVE  LET q == M!WithEmpty(p)
         IN /\ Sound(q)
            /\ q.free_list = p.free_list
            /\ q.made = p.made
            /\ q.empties = q.free_list + 1
            /\ q.free_list < Len(q.trans)
            /\ M!FreeOf(q) = M!FreeOf(p)
<1> DEFINE q == M!WithEmpty(p)
           n == Len(p.trans)
           linked == [k \in DOMAIN p.prev |->
                        IF k = p.free_list THEN n + 1 ELSE p.prev[k]]
<1>1. CASE p.empties # 0
  <2>1. q = p
    BY <1>1 DEF M!WithEmpty
  <2> QED BY <1>1, <2>1 DEF Sound, Pools
<1>2. CASE p.empties = 0
  <2>0. p \in Pools /\ Len(p.prev) = n /\ Len(p.next) = n
    BY DEF Sound
  <2>1. p.free_list = n /\ n \in Nat
    BY <1>2, <2>0 DEF Sound, Pools
  <2>2. linked \in Seq(Nat) /\ Len(linked) = n
    <3>1. DOMAIN p.prev = 1 .. n
      BY <2>0 DEF Pools
    <3>2. linked \in [1 .. n -> Nat]
      BY <2>0, <2>1, <3>1 DEF Pools
    <3> QED BY <2>1, <3>2, SeqDef
  <2>3. q = [p EXCEPT !.empties = n + 1,
                      !.trans = Append(p.trans, 0),
                      !.next = Append(p.next, n),
                      !.prev = Append(linked, 0)]
    BY <1>2, <2>1 DEF M!WithEmpty
  <2>4. \A k \in 1 .. n : linked[k] = k + 1
    BY <2>0, <2>1 DEF Sound, Pools, Nodes
  <2> HIDE DEF linked
  <2>5. /\ Append(p.trans, 0) \in Seq(Nat) /\ Append(p.next, n) \in Seq(Nat)
        /\ Append(linked, 0) \in Seq(Nat)
    BY <2>0, <2>1, <2>2, AppendProperties DEF Pools
  <2> HIDE DEF q
  <2>6. /\ q \in Pools
        /\ q.free_list = n /\ q.made = p.made /\ q.empties = n + 1
        /\ q.trans = Append(p.trans, 0)
        /\ q.next = Append(p.next, n)
        /\ q.prev = Append(linked, 0)
    <3>1. PICK m \in Nat : m = n + 1
      BY <2>1
    <3> DEFINE trs == Append(p.trans, 0)
               nxt == Append(p.next, n)
               prv == Append(linked, 0)
    <3>2. trs \in Seq(Nat) /\ nxt \in Seq(Nat) /\ prv \in Seq(Nat)
      BY <2>5
    <3>3. q = [p EXCEPT !.empties = m, !.trans = trs, !.next = nxt, !.prev = prv]
      BY <2>3, <3>1
    <3> HIDE DEF trs, nxt, prv
    <3>4. /\ q \in Pools
          /\ q.free_list = p.free_list /\ q.made = p.made /\ q.empties = m
          /\ q.trans = trs /\ q.next = nxt /\ q.prev = prv
      BY <2>0, <3>2, <3>3 DEF Pools
    <3> QED BY <2>1, <3>1, <3>4 DEF trs, nxt, prv
  <2>7. /\ Len(q.trans) = n + 1
        /\ \A k \in 1 .. n : q.trans[k] = p.trans[k]
    BY <2>0, <2>1, <2>6, AppendProperties DEF Pools
  <2>8. /\ Len(q.next) = n + 1 /\ q.next[n + 1] = n
        /\ \A k \in 1 .. n : q.next[k] = p.next[k]
    BY <2>0, <2>1, <2>6, AppendProperties DEF Pools
  <2>9. /\ Len(q.prev) = n + 1 /\ q.prev[n + 1] = 0
        /\ \A k \in 1 .. n : q.prev[k] = k + 1
    BY <2>1, <2>2, <2>4, <2>6, AppendProperties
  <2>10. \A k \in Nodes(q) :
          /\ q.next[k] = k - 1
          /\ q.prev[k] = IF k = Len(q.trans) THEN 0 ELSE k + 1
    <3>1. \A k \in Nodes(q) : k \in 1 .. n \/ k = n + 1
      BY <2>1, <2>7 DEF Nodes
    <3>2. \A k \in 1 .. n : p.next[k] = k - 1 /\ k # n + 1
      BY <2>1 DEF Sound, Nodes
    <3>3. ASSUME NEW k \in Nodes(q), k \in 1 .. n
          PROVE  /\ q.next[k] = k - 1
                 /\ q.prev[k] = IF k = Len(q.trans) THEN 0 ELSE k + 1
      BY <2>7, <2>8, <2>9, <3>2, <3>3
    <3>4. ASSUME NEW k \in Nodes(q), k = n + 1
          PROVE  /\ q.next[k] = k - 1
                 /\ q.prev[k] = IF k = Len(q.trans) THEN 0 ELSE k + 1
      <4>1. q.next[k] = n /\ q.prev[k] = 0 /\ Len(q.trans) = k
        BY <2>7, <2>8, <2>9, <3>4
      <4> QED BY <2>1, <3>4, <4>1
    <3> QED BY <3>1, <3>3, <3>4
  <2>11. Sound(q)
    <3>1. \A k \in 1 .. q.free_list : q.trans[k] \in 1 .. q.made
      BY <2>1, <2>6, <2>7 DEF Sound
    <3>2. \A i, k \in 1 .. q.free_list : q.trans[i] = q.trans[k] => i = k
      BY <2>1, <2>6, <2>7 DEF Sound
    <3>3. /\ q.free_list \in 0 .. Len(q.trans)
          /\ q.empties = IF q.free_list = Len(q.trans) THEN 0
                                                      ELSE q.free_list + 1
      BY <2>1, <2>6, <2>7
    <3> QED BY <2>6, <2>7, <2>8, <2>9, <2>10, <3>1, <3>2, <3>3 DEF Sound
  <2>12. M!FreeOf(q) = M!FreeOf(p)
    BY <2>1, <2>6, <2>7 DEF M!FreeOf
  <2>13. q.free_list < Len(q.trans) /\ q.empties = q.free_list + 1
    BY <2>1, <2>6, <2>7
  <2> QED BY <2>1, <2>6, <2>11, <2>12, <2>13 DEF q
<1> QED BY <1>1, <1>2

(* free adds the payload to the free ones. *)
LEMMA FreeSound ==
  ASSUME NEW p, Sound(p), NEW n \in 1 .. p.made, n \notin M!FreeOf(p)
  PROVE  /\ Sound(M!Free(p, n))
         /\ M!FreeOf(M!Free(p, n)) = M!FreeOf(p) \cup {n}
         /\ M!Free(p, n).made = p.made
<1> DEFINE e == M!WithEmpty(p)
           q == M!Free(p, n)
<1>1. /\ Sound(e) /\ e.free_list = p.free_list /\ e.made = p.made
      /\ e.empties = e.free_list + 1 /\ e.free_list < Len(e.trans)
      /\ M!FreeOf(e) = M!FreeOf(p)
  BY EmptySound
<1>2. e \in Pools /\ n \in Nat /\ e.empties \in Nodes(e) /\ e.free_list \in Nat
  BY <1>1 DEF Sound, Pools, Nodes
<1>3. e.prev[e.empties] = IF e.empties = Len(e.trans) THEN 0 ELSE e.empties + 1
  BY <1>1, <1>2 DEF Sound
<1> HIDE DEF e
<1>4. q = [e EXCEPT !.free_list = e.empties,
                    !.trans[e.empties] = n,
                    !.empties = e.prev[e.empties]]
  BY DEF M!Free, M!Put, e
<1> HIDE DEF q
<1>5. [e.trans EXCEPT ![e.empties] = n] \in Seq(Nat)
      /\ Len([e.trans EXCEPT ![e.empties] = n]) = Len(e.trans)
  BY <1>2 DEF Pools, Nodes
<1>14. e.prev[e.empties] \in Nat /\ e.empties \in Nat
  BY <1>2, <1>3 DEF Nodes
<1>6. /\ q \in Pools
      /\ q.free_list = e.empties /\ q.made = e.made
      /\ q.empties = e.prev[e.empties]
      /\ q.trans = [e.trans EXCEPT ![e.empties] = n]
      /\ q.next = e.next /\ q.prev = e.prev
  BY <1>2, <1>4, <1>5, <1>14 DEF Pools
<1>7. /\ \A k \in 1 .. e.free_list : q.trans[k] = e.trans[k]
      /\ q.trans[e.empties] = n
  <2>1. e.trans \in Seq(Nat) /\ DOMAIN e.trans = Nodes(e)
    BY <1>2, LenProperties DEF Pools, Nodes
  <2>2. /\ q.trans[e.empties] = n
        /\ \A k \in Nodes(e) : k # e.empties => q.trans[k] = e.trans[k]
    BY <1>2, <1>6, <2>1
  <2>3. Len(e.trans) \in Nat
    BY <2>1, LenProperties
  <2>4. \A k \in 1 .. e.free_list : k \in Nodes(e) /\ k # e.empties
    BY <1>1, <1>2, <2>3 DEF Nodes
  <2> QED BY <2>2, <2>4
<1>8. \A k \in 1 .. e.free_list : e.trans[k] # n
  BY <1>1 DEF M!FreeOf
<1>9. \A k \in 1 .. q.free_list : k = e.empties \/ k \in 1 .. e.free_list
  BY <1>1, <1>2, <1>6
<1>10. \A k \in 1 .. q.free_list : q.trans[k] \in 1 .. q.made
  BY <1>1, <1>6, <1>7, <1>9 DEF Sound
<1>11. \A i, k \in 1 .. q.free_list : q.trans[i] = q.trans[k] => i = k
  BY <1>1, <1>6, <1>7, <1>8, <1>9 DEF Sound
<1>12. Sound(q)
  <2>1. Len(q.trans) = Len(e.trans) /\ Nodes(q) = Nodes(e)
    BY <1>5, <1>6 DEF Nodes
  <2>2. q.free_list \in 0 .. Len(q.trans)
    BY <1>1, <1>2, <1>6, <2>1 DEF Nodes
  <2>3. /\ Len(q.next) = Len(q.trans) /\ Len(q.prev) = Len(q.trans)
        /\ \A k \in Nodes(q) :
             /\ q.next[k] = k - 1
             /\ q.prev[k] = IF k = Len(q.trans) THEN 0 ELSE k + 1
    BY <1>1, <1>6, <2>1 DEF Sound
  <2>4. q.empties = IF q.free_list = Len(q.trans) THEN 0 ELSE q.free_list + 1
    BY <1>3, <1>6, <2>1
  <2> QED BY <1>6, <1>10, <1>11, <2>2, <2>3, <2>4 DEF Sound
<1>13. M!FreeOf(q) = M!FreeOf(e) \cup {n}
  BY <1>1, <1>2, <1>6, <1>7, <1>9 DEF M!FreeOf
<1> QED BY <1>1, <1>6, <1>12, <1>13 DEF q, e

(* An assignment to a field of a payload that is used again, or is new.    *)
LEMMA WrittenTyped ==
  ASSUME NEW S, NEW s \in Seq(S), NEW x \in S,
         NEW n \in 1 .. Len(s) \cup {Len(s) + 1}
  PROVE  /\ Written(s, n, x) \in Seq(S)
         /\ 1 .. Len(Written(s, n, x)) = 1 .. Len(s) \cup {n}
         /\ Written(s, n, x)[n] = x
         /\ \A k \in 1 .. Len(s) : k # n => Written(s, n, x)[k] = s[k]
<1> DEFINE m == Len(s)
<1>1. CASE n \in 1 .. m
  <2>1. Written(s, n, x) = [s EXCEPT ![n] = x]
    BY <1>1 DEF Written
  <2> QED BY <1>1, <2>1, ExceptSeq
<1>2. CASE n = m + 1
  <2>1. Written(s, n, x) = Append(s, x)
    BY <1>2 DEF Written
  <2>2. 1 .. m + 1 = 1 .. m \cup {m + 1}
    OBVIOUS
  <2> QED BY <1>2, <2>1, <2>2, AppendProperties
<1> QED BY <1>1, <1>2

-----------------------------------------------------------------------------
(* The payloads of host h that wait in the event queue of some device. *)
AtDevice(h) == {n \in Nat : \E d \in Devices : <<h, n>> \in at_device[d]}

UsedBy(o) == IF o \in Devices THEN in_dram[o] ELSE underway[o] \cup AtDevice(o)

(* A payload is in one place, or free, and its fields are there. *)
PlacedInv ==
  /\ pool \in [Owners -> Pools]
  /\ underway \in [Hosts -> SUBSET Nat]
  /\ at_device \in [Devices -> SUBSET (Hosts \X Nat)]
  /\ in_dram \in [Devices -> SUBSET Nat]
  /\ \A o \in Owners :
       /\ Sound(pool[o])
       /\ M!FreeOf(pool[o]) \cup UsedBy(o) = 1 .. pool[o].made
       /\ M!FreeOf(pool[o]) \cap UsedBy(o) = {}
  /\ \A h \in Hosts, n \in Nat, d \in Devices :
       <<h, n>> \in at_device[d] =>
         /\ n \notin underway[h]
         /\ \A e \in Devices : <<h, n>> \in at_device[e] => d = e

FieldsInv ==
  /\ fields \in [Owners -> Seq(Requests)]
  /\ device_map \in [Hosts -> Seq(Devices)]
  /\ \A o \in Owners : Len(fields[o]) = pool[o].made
  /\ \A h \in Hosts : Len(device_map[h]) = pool[h].made

RoutedInv ==
  /\ \A h \in Hosts : \A n \in underway[h] :
       device_map[h][n] = fields[h][n].dev
  /\ \A d \in Devices :
       /\ \A h \in Hosts, n \in Nat :
            <<h, n>> \in at_device[d] => fields[h][n].dev = d
       /\ \A n \in in_dram[d] : fields[d][n].dev = d

Inv == todo \subseteq Requests /\ PlacedInv /\ FieldsInv /\ RoutedInv

(* A payload in use, with its owner; and the request it holds.             *)
Carried == {c \in Owners \X Nat : c[2] \in UsedBy(c[1])}
On(c)   == fields[c[1]][c[2]]

(* A payload is carried exactly when its owner has it in use. *)
LEMMA InCarried ==
  ASSUME NEW o, NEW n
  PROVE  /\ <<o, n>> \in Carried <=> o \in Owners /\ n \in Nat /\ n \in UsedBy(o)
         /\ On(<<o, n>>) = fields[o][n]
BY DEF Carried, On

(* The invariant holds at the start. *)
LEMMA InitInv == Init => Inv
<1> SUFFICES ASSUME Init PROVE Inv
  OBVIOUS
<1>1. M!NewPool \in Pools /\ M!NewPool.made = 0
  BY DEF M!NewPool, Pools
<1>2. \A o \in Owners : pool[o] = M!NewPool /\ UsedBy(o) = {}
  BY DEF Init, Owners, UsedBy, AtDevice
<1>3. 1 .. 0 = {}
  OBVIOUS
<1>4. PlacedInv
  BY <1>1, <1>2, <1>3, NewSound DEF PlacedInv, Init
<1>5. FieldsInv
  BY <1>1, <1>2, EmptySeq DEF FieldsInv, Init, Owners
<1>6. RoutedInv
  BY DEF RoutedInv, Init
<1> QED BY <1>4, <1>5, <1>6 DEF Inv, Init

(* A payload in use is one that was made, and not free. *)
LEMMA UsedMade ==
  ASSUME Inv, NEW o \in Owners, NEW n \in UsedBy(o)
  PROVE  n \in 1 .. pool[o].made /\ n \notin M!FreeOf(pool[o]) /\ n \in Nat
BY DEF Inv, PlacedInv, Pools

(* A payload that allocate returns is not in use. *)
LEMMA AllocatedUnused ==
  ASSUME Inv, NEW o \in Owners
  PROVE  LET n == M!Allocated(pool[o])
         IN /\ n \notin UsedBy(o)
            /\ n \in 1 .. pool[o].made \/ n = pool[o].made + 1
            /\ pool[o].made \in Nat
<1>1. Sound(pool[o]) /\ pool[o].made \in Nat
  BY DEF Inv, PlacedInv, Pools
<1>2. pool[o].made + 1 \notin 1 .. pool[o].made
  BY <1>1
<1> QED
  BY <1>1, <1>2, AllocateSound DEF Inv, PlacedInv

(* A payload taken from the pool is new among the carried ones, and they keep
   their requests. *)
LEMMA AddPayloadInv ==
  ASSUME Inv, NEW r \in Requests, AddPayload(r)
  PROVE  /\ Inv'
         /\ \E c \in Owners \X Nat :
              /\ c \notin Carried /\ Carried' = Carried \cup {c} /\ On(c)' = r
              /\ \A b \in Carried : On(b)' = On(b)
<1> DEFINE h == r.host
<1>0. PICK n : n = M!Allocated(pool[h])
  OBVIOUS
<1>1. h \in Hosts /\ h \in Owners /\ h \notin Devices /\ r.dev \in Devices
  BY PayloadAssumption DEF Owners
<1>2. /\ Sound(M!Allocate(pool[h]))
      /\ n \in Nat
      /\ M!FreeOf(M!Allocate(pool[h])) = M!FreeOf(pool[h]) \ {n}
      /\ 1 .. M!Allocate(pool[h]).made = 1 .. pool[h].made \cup {n}
  BY <1>0, <1>1, AllocateSound DEF Inv, PlacedInv
<1>3. /\ n \notin UsedBy(h)
      /\ n \in 1 .. pool[h].made \/ n = pool[h].made + 1
      /\ pool[h].made \in Nat
  BY <1>0, <1>1, AllocatedUnused
<1>4. /\ pool' = [pool EXCEPT ![h] = M!Allocate(pool[h])]
      /\ fields' = [fields EXCEPT ![h] = Written(fields[h], n, r)]
      /\ device_map' = [device_map EXCEPT ![h] = Written(device_map[h], n, r.dev)]
      /\ underway' = [underway EXCEPT ![h] = underway[h] \cup {n}]
      /\ at_device' = at_device /\ in_dram' = in_dram
      /\ todo' = todo \ {r}
  BY <1>0 DEF AddPayload, Mapped
<1> HIDE DEF h
<1>5. \A o \in Owners : UsedBy(o)' = IF o = h THEN UsedBy(h) \cup {n} ELSE UsedBy(o)
  <2>1. ASSUME NEW o \in Owners, o \in Devices PROVE UsedBy(o)' = UsedBy(o)
    BY <1>4, <2>1 DEF UsedBy
  <2>2. ASSUME NEW o \in Owners, o \notin Devices
        PROVE  UsedBy(o)' = IF o = h THEN UsedBy(h) \cup {n} ELSE UsedBy(o)
    <3>1. AtDevice(o)' = AtDevice(o)
      BY <1>4 DEF AtDevice
    <3>2. o \in Hosts /\ underway \in [Hosts -> SUBSET Nat]
      BY <2>2 DEF Owners, Inv, PlacedInv
    <3>3. underway'[o] = IF o = h THEN underway[h] \cup {n} ELSE underway[o]
      BY <1>4, <3>2
    <3> QED BY <2>2, <3>1, <3>3 DEF UsedBy
  <2> QED BY <1>1, <2>1, <2>2
<1>6. \A d \in Devices : <<h, n>> \notin at_device[d]
  BY <1>1, <1>2, <1>3 DEF UsedBy, AtDevice
<1>7. \A o \in Owners :
        pool'[o] = IF o = h THEN M!Allocate(pool[h]) ELSE pool[o]
  BY <1>1, <1>4 DEF Inv, PlacedInv
<1>8. PlacedInv'
  <2>1. pool' \in [Owners -> Pools]
    BY <1>1, <1>2, <1>4 DEF Inv, PlacedInv, Sound
  <2>2. underway' \in [Hosts -> SUBSET Nat]
    BY <1>1, <1>2, <1>4 DEF Inv, PlacedInv
  <2>3. ASSUME NEW o \in Owners
        PROVE  /\ Sound(pool'[o])
               /\ M!FreeOf(pool'[o]) \cup UsedBy(o)' = 1 .. pool'[o].made
               /\ M!FreeOf(pool'[o]) \cap UsedBy(o)' = {}
    <3>1. /\ Sound(pool[o])
          /\ M!FreeOf(pool[o]) \cup UsedBy(o) = 1 .. pool[o].made
          /\ M!FreeOf(pool[o]) \cap UsedBy(o) = {}
      BY DEF Inv, PlacedInv
    <3>2. CASE o = h
      BY <1>2, <1>3, <1>5, <1>7, <3>1, <3>2
    <3>3. CASE o # h
      BY <1>5, <1>7, <3>1, <3>3
    <3> QED BY <3>2, <3>3
  <2>4. ASSUME NEW g \in Hosts, NEW k \in Nat, NEW d \in Devices,
               <<g, k>> \in at_device'[d]
        PROVE  /\ k \notin underway'[g]
               /\ \A e \in Devices : <<g, k>> \in at_device'[e] => d = e
    BY <1>1, <1>4, <1>6, <2>4 DEF Inv, PlacedInv
  <2> QED BY <1>4, <2>1, <2>2, <2>3, <2>4 DEF Inv, PlacedInv
<1>9. /\ Written(fields[h], n, r) \in Seq(Requests)
      /\ 1 .. Len(Written(fields[h], n, r)) = 1 .. pool[h].made \cup {n}
      /\ Written(fields[h], n, r)[n] = r
      /\ \A k \in 1 .. pool[h].made :
           k # n => Written(fields[h], n, r)[k] = fields[h][k]
  <2>1. fields[h] \in Seq(Requests) /\ Len(fields[h]) = pool[h].made
    BY <1>1 DEF Inv, FieldsInv
  <2>2. n \in 1 .. Len(fields[h]) \cup {Len(fields[h]) + 1}
    BY <1>3, <2>1
  <2>3. /\ Written(fields[h], n, r) \in Seq(Requests)
        /\ 1 .. Len(Written(fields[h], n, r)) = 1 .. Len(fields[h]) \cup {n}
        /\ Written(fields[h], n, r)[n] = r
        /\ \A k \in 1 .. Len(fields[h]) : k # n => Written(fields[h], n, r)[k] = fields[h][k]
    BY <1>1, <2>1, <2>2, WrittenTyped
  <2> QED BY <2>1, <2>3
<1>10. /\ Written(device_map[h], n, r.dev) \in Seq(Devices)
       /\ 1 .. Len(Written(device_map[h], n, r.dev)) = 1 .. pool[h].made \cup {n}
       /\ Written(device_map[h], n, r.dev)[n] = r.dev
       /\ \A k \in 1 .. pool[h].made :
            k # n => Written(device_map[h], n, r.dev)[k] = device_map[h][k]
  <2>1. device_map[h] \in Seq(Devices) /\ Len(device_map[h]) = pool[h].made
    BY <1>1 DEF Inv, FieldsInv
  <2>2. n \in 1 .. Len(device_map[h]) \cup {Len(device_map[h]) + 1}
    BY <1>3, <2>1
  <2>3. /\ Written(device_map[h], n, r.dev) \in Seq(Devices)
        /\ 1 .. Len(Written(device_map[h], n, r.dev)) = 1 .. Len(device_map[h]) \cup {n}
        /\ Written(device_map[h], n, r.dev)[n] = r.dev
        /\ \A k \in 1 .. Len(device_map[h]) : k # n => Written(device_map[h], n, r.dev)[k] = device_map[h][k]
    BY <1>1, <2>1, <2>2, WrittenTyped
  <2> QED BY <2>1, <2>3
<1>11. FieldsInv'
  <2>1. /\ M!Allocate(pool[h]).made \in Nat
        /\ Len(Written(fields[h], n, r)) \in Nat
        /\ Len(Written(device_map[h], n, r.dev)) \in Nat
    BY <1>2, <1>9, <1>10, LenProperties DEF Sound, Pools
  <2>2. \A a, b \in Nat : 1 .. a = 1 .. b => a = b
    OBVIOUS
  <2>3. /\ Len(Written(fields[h], n, r)) = M!Allocate(pool[h]).made
        /\ Len(Written(device_map[h], n, r.dev)) = M!Allocate(pool[h]).made
    BY <1>2, <1>9, <1>10, <2>1, <2>2
  <2> QED BY <1>1, <1>4, <1>7, <1>9, <1>10, <2>3 DEF Inv, FieldsInv, Owners
<1>12. RoutedInv'
  <2>1. ASSUME NEW g \in Hosts, NEW k \in underway'[g]
        PROVE  device_map'[g][k] = fields'[g][k].dev
    <3>1. CASE g = h /\ k = n
      BY <1>1, <1>4, <1>9, <1>10, <3>1 DEF Inv, FieldsInv, h
    <3>2. CASE ~(g = h /\ k = n)
      <4>1. k \in underway[g]
        BY <1>1, <1>4, <2>1, <3>2 DEF Inv, PlacedInv
      <4>2. k \in 1 .. pool[g].made
        BY <4>1, UsedMade, PayloadAssumption DEF UsedBy, Owners
      <4>3. device_map'[g][k] = device_map[g][k] /\ fields'[g][k] = fields[g][k]
        BY <1>1, <1>4, <1>9, <1>10, <3>2, <4>2 DEF Inv, FieldsInv, Owners
      <4> QED BY <4>1, <4>3 DEF Inv, RoutedInv
    <3> QED BY <3>1, <3>2
  <2>2. ASSUME NEW d \in Devices, NEW g \in Hosts, NEW k \in Nat,
               <<g, k>> \in at_device'[d]
        PROVE  fields'[g][k].dev = d
    <3>1. <<g, k>> \in at_device[d] /\ ~(g = h /\ k = n)
      BY <1>4, <1>6, <2>2
    <3>2. k \in 1 .. pool[g].made
      BY <3>1, UsedMade, PayloadAssumption DEF UsedBy, AtDevice, Owners
    <3>3. fields'[g][k] = fields[g][k]
      BY <1>1, <1>4, <1>9, <3>1, <3>2 DEF Inv, FieldsInv, Owners
    <3> QED BY <3>1, <3>3 DEF Inv, RoutedInv
  <2>3. ASSUME NEW d \in Devices, NEW k \in in_dram'[d]
        PROVE  fields'[d][k].dev = d
    BY <1>1, <1>4, <2>3 DEF Inv, FieldsInv, RoutedInv, Owners
  <2> QED BY <2>1, <2>2, <2>3 DEF RoutedInv
<1>13. Inv'
  BY <1>4, <1>8, <1>11, <1>12 DEF Inv
<1> DEFINE c == <<h, n>>
<1>14. c \in Owners \X Nat /\ c \notin Carried
  BY <1>1, <1>2, <1>3, InCarried
<1>15. Carried' = Carried \cup {c}
  <2>1. \A b \in Owners \X Nat : b = <<b[1], b[2]>> /\ b[1] \in Owners /\ b[2] \in Nat
    OBVIOUS
  <2>2. \A b \in Owners \X Nat : b = c <=> b[1] = h /\ b[2] = n
    BY <2>1
  <2>3. \A b \in Owners \X Nat :
          b[2] \in UsedBy(b[1])' <=> b[2] \in UsedBy(b[1]) \/ b = c
    BY <1>5, <2>1, <2>2
  <2> HIDE DEF c
  <2> QED BY <1>14, <2>3 DEF Carried
<1>16. On(c)' = r
  <2>1. fields'[h][n] = r
    BY <1>1, <1>4, <1>9 DEF Inv, FieldsInv
  <2>2. c[1] = h /\ c[2] = n
    OBVIOUS
  <2> HIDE DEF c
  <2> QED BY <2>1, <2>2 DEF On
<1>17. ASSUME NEW b \in Carried PROVE On(b)' = On(b)
  <2>1. b[1] \in Owners /\ b[2] \in Nat /\ b[2] \in UsedBy(b[1])
    BY DEF Carried
  <2>2. \A o \in Owners : \A k \in UsedBy(o) : fields'[o][k] = fields[o][k]
    <3> SUFFICES ASSUME NEW o \in Owners, NEW k \in UsedBy(o)
                 PROVE  fields'[o][k] = fields[o][k]
      OBVIOUS
    <3>1. k \in 1 .. pool[o].made /\ ~(o = h /\ k = n)
      BY <1>3, UsedMade
    <3> QED BY <1>1, <1>4, <1>9, <3>1 DEF Inv, FieldsInv
  <2> QED BY <2>1, <2>2 DEF On
<1> HIDE DEF c
<1> QED BY <1>13, <1>14, <1>15, <1>16, <1>17

(* The controller hands the payload on: its pool does not change.          *)
LEMMA RouteInv ==
  ASSUME Inv, NEW h \in Hosts, NEW n \in underway[h], Route(h, n)
  PROVE  Inv' /\ Carried' = Carried /\ fields' = fields
<1> DEFINE d == device_map[h][n]
<1>1. h \in Owners /\ h \notin Devices /\ n \in UsedBy(h)
  BY PayloadAssumption DEF Owners, UsedBy
<1>2. n \in 1 .. pool[h].made /\ n \in Nat
  BY <1>1, UsedMade
<1>3. d \in Devices
  BY <1>2, ElementOfSeq DEF Inv, FieldsInv
<1>4. d = fields[h][n].dev
  BY DEF Inv, RoutedInv
<1>5. /\ underway' = [underway EXCEPT ![h] = underway[h] \ {n}]
      /\ at_device' = [at_device EXCEPT ![d] = at_device[d] \cup {<<h, n>>}]
      /\ UNCHANGED <<todo, pool, fields, device_map, in_dram>>
  BY DEF Route
<1> HIDE DEF d
<1>6. \A e \in Devices : <<h, n>> \notin at_device[e]
  BY <1>2 DEF Inv, PlacedInv
<1>7. \A g \in Hosts, k \in Nat, e \in Devices :
        <<g, k>> \in at_device'[e] <=>
          <<g, k>> \in at_device[e] \/ (g = h /\ k = n /\ e = d)
  BY <1>3, <1>5 DEF Inv, PlacedInv
<1>8. \A g \in Hosts, k \in Nat :
        k \in underway'[g] <=> k \in underway[g] /\ ~(g = h /\ k = n)
  BY <1>5 DEF Inv, PlacedInv
<1>9. \A o \in Owners : UsedBy(o)' = UsedBy(o)
  <2>1. ASSUME NEW o \in Owners, o \in Devices PROVE UsedBy(o)' = UsedBy(o)
    BY <1>5, <2>1 DEF UsedBy
  <2>2. ASSUME NEW o \in Owners, o \notin Devices PROVE UsedBy(o)' = UsedBy(o)
    <3>1. o \in Hosts
      BY <2>2 DEF Owners
    <3>2. /\ underway[o] \subseteq Nat /\ underway'[o] \subseteq Nat
          /\ AtDevice(o) \subseteq Nat /\ AtDevice(o)' \subseteq Nat
      BY <1>2, <1>5, <3>1 DEF Inv, PlacedInv, AtDevice
    <3>3. \A k \in Nat : k \in underway'[o] \/ k \in AtDevice(o)'
                       <=> k \in underway[o] \/ k \in AtDevice(o)
      BY <1>3, <1>7, <1>8, <3>1 DEF AtDevice
    <3> QED BY <2>2, <3>2, <3>3 DEF UsedBy
  <2> QED BY <2>1, <2>2
<1>10. PlacedInv'
  <2>1. underway' \in [Hosts -> SUBSET Nat]
    BY <1>5 DEF Inv, PlacedInv
  <2>2. at_device' \in [Devices -> SUBSET (Hosts \X Nat)]
    BY <1>2, <1>3, <1>5 DEF Inv, PlacedInv
  <2>3. ASSUME NEW g \in Hosts, NEW k \in Nat, NEW e \in Devices,
               <<g, k>> \in at_device'[e]
        PROVE  /\ k \notin underway'[g]
               /\ \A f \in Devices : <<g, k>> \in at_device'[f] => e = f
    BY <1>6, <1>7, <1>8, <2>3 DEF Inv, PlacedInv
  <2> QED BY <1>5, <1>9, <2>1, <2>2, <2>3 DEF Inv, PlacedInv
<1>11. FieldsInv'
  BY <1>5 DEF Inv, FieldsInv
<1>12. RoutedInv'
  <2>1. \A g \in Hosts : underway'[g] \subseteq underway[g]
    BY <1>5 DEF Inv, PlacedInv
  <2>2. ASSUME NEW e \in Devices, NEW g \in Hosts, NEW k \in Nat,
               <<g, k>> \in at_device'[e]
        PROVE  fields'[g][k].dev = e
    BY <1>4, <1>5, <1>7, <2>2 DEF Inv, RoutedInv
  <2> QED BY <1>5, <2>1, <2>2 DEF Inv, RoutedInv
<1>13. Carried' = Carried
  BY <1>9 DEF Carried
<1> QED BY <1>5, <1>10, <1>11, <1>12, <1>13 DEF Inv

(* The memory wrapper takes a payload of its own, and releases the host's. *)
LEMMA CopyInv ==
  ASSUME Inv, NEW d \in Devices, NEW h \in Hosts, NEW n \in Nat, Copy(d, h, n)
  PROVE  /\ Inv'
         /\ \E k \in Nat : /\ <<h, n>> \in Carried /\ <<d, k>> \notin Carried
                          /\ Carried' = (Carried \ {<<h, n>>}) \cup {<<d, k>>}
                          /\ On(<<d, k>>)' = On(<<h, n>>)
                          /\ \A b \in Carried : b # <<h, n>> => On(b)' = On(b)
<1>0. PICK c : c = M!Allocated(pool[d])
  OBVIOUS
<1>1. /\ h \in Owners /\ h \notin Devices /\ d \in Owners /\ h # d
      /\ <<h, n>> \in at_device[d]
  BY PayloadAssumption DEF Owners, Copy
<1>2. n \in UsedBy(h)
  BY <1>1 DEF UsedBy, AtDevice
<1>3. n \in 1 .. pool[h].made /\ n \notin M!FreeOf(pool[h])
  BY <1>1, <1>2, UsedMade
<1>4. n \notin underway[h]
  BY <1>1 DEF Inv, PlacedInv
<1>5. Sound(pool[h]) /\ Sound(pool[d])
  BY <1>1 DEF Inv, PlacedInv
<1>6. /\ Sound(M!Allocate(pool[d]))
      /\ c \in Nat
      /\ M!FreeOf(M!Allocate(pool[d])) = M!FreeOf(pool[d]) \ {c}
      /\ 1 .. M!Allocate(pool[d]).made = 1 .. pool[d].made \cup {c}
  BY <1>0, <1>5, AllocateSound
<1>7. /\ c \notin UsedBy(d)
      /\ c \in 1 .. pool[d].made \cup {pool[d].made + 1}
  BY <1>0, <1>1, AllocatedUnused
<1>8. /\ Sound(M!Free(pool[h], n))
      /\ M!FreeOf(M!Free(pool[h], n)) = M!FreeOf(pool[h]) \cup {n}
      /\ M!Free(pool[h], n).made = pool[h].made
  BY <1>3, <1>5, FreeSound
<1>9. /\ at_device' = [at_device EXCEPT ![d] = at_device[d] \ {<<h, n>>}]
      /\ fields' = [fields EXCEPT ![d] = Written(fields[d], c, fields[h][n])]
      /\ pool' = [[pool EXCEPT ![d] = M!Allocate(pool[d])]
                    EXCEPT ![h] = M!Free(@, n)]
      /\ in_dram' = [in_dram EXCEPT ![d] = in_dram[d] \cup {c}]
      /\ UNCHANGED <<todo, device_map, underway>>
  BY <1>0 DEF Copy, Released
<1>10. \A o \in Owners :
        pool'[o] = CASE o = d -> M!Allocate(pool[d])
                     [] o = h -> M!Free(pool[h], n)
                     [] OTHER -> pool[o]
  <2>1. pool \in [Owners -> Pools]
    BY DEF Inv, PlacedInv
  <2> QED BY <1>1, <1>9, <2>1
<1>11. \A g \in Hosts, k \in Nat, e \in Devices :
        <<g, k>> \in at_device'[e] <=>
          <<g, k>> \in at_device[e] /\ ~(g = h /\ k = n)
  <2>1. at_device \in [Devices -> SUBSET (Hosts \X Nat)]
    BY DEF Inv, PlacedInv
  <2>2. \A e \in Devices :
          at_device'[e] = IF e = d THEN at_device[d] \ {<<h, n>>} ELSE at_device[e]
    BY <1>9, <2>1
  <2>3. \A e \in Devices : <<h, n>> \in at_device[e] => e = d
    BY <1>1 DEF Inv, PlacedInv
  <2>4. \A g \in Hosts, k \in Nat : <<g, k>> = <<h, n>> <=> g = h /\ k = n
    OBVIOUS
  <2> QED BY <2>2, <2>3, <2>4
<1>12. \A o \in Owners :
        UsedBy(o)' = CASE o = d -> UsedBy(d) \cup {c}
                       [] o = h -> UsedBy(h) \ {n}
                       [] OTHER -> UsedBy(o)
  <2>1. ASSUME NEW o \in Owners, o \in Devices
        PROVE  UsedBy(o)' = IF o = d THEN UsedBy(d) \cup {c} ELSE UsedBy(o)
    BY <1>9, <2>1 DEF UsedBy, Inv, PlacedInv
  <2>2. ASSUME NEW o \in Owners, o \notin Devices
        PROVE  UsedBy(o)' = IF o = h THEN UsedBy(h) \ {n} ELSE UsedBy(o)
    <3>1. o \in Hosts
      BY <2>2 DEF Owners
    <3>2. AtDevice(o)' = IF o = h THEN AtDevice(h) \ {n} ELSE AtDevice(o)
      BY <1>11, <3>1 DEF AtDevice
    <3> QED BY <1>4, <1>9, <2>2, <3>1, <3>2 DEF UsedBy
  <2> QED BY <1>1, <2>1, <2>2
<1>13. PlacedInv'
  <2>1. pool' \in [Owners -> Pools]
    <3>1. pool \in [Owners -> Pools]
      BY DEF Inv, PlacedInv
    <3>2. /\ M!Allocate(pool[d]) \in Pools
          /\ M!Free(pool[h], n) \in Pools
      BY <1>6, <1>8 DEF Sound
    <3>3. \A o \in Owners : pool'[o] \in Pools
      BY <1>10, <3>1, <3>2
    <3>4. DOMAIN pool' = Owners /\ pool' = [o \in Owners |-> pool'[o]]
      BY <1>9, <3>1
    <3> QED BY <3>3, <3>4
  <2>2. in_dram' \in [Devices -> SUBSET Nat]
    BY <1>6, <1>9 DEF Inv, PlacedInv
  <2>3. at_device' \in [Devices -> SUBSET (Hosts \X Nat)]
    BY <1>9 DEF Inv, PlacedInv
  <2>4. ASSUME NEW o \in Owners
        PROVE  /\ Sound(pool'[o])
               /\ M!FreeOf(pool'[o]) \cup UsedBy(o)' = 1 .. pool'[o].made
               /\ M!FreeOf(pool'[o]) \cap UsedBy(o)' = {}
    <3>1. /\ Sound(pool[o])
          /\ M!FreeOf(pool[o]) \cup UsedBy(o) = 1 .. pool[o].made
          /\ M!FreeOf(pool[o]) \cap UsedBy(o) = {}
      BY DEF Inv, PlacedInv
    <3>2. CASE o = d
      BY <1>1, <1>6, <1>7, <1>10, <1>12, <3>1, <3>2
    <3>3. CASE o = h
      BY <1>1, <1>2, <1>8, <1>10, <1>12, <3>1, <3>3
    <3>4. CASE o # d /\ o # h
      BY <1>10, <1>12, <3>1, <3>4
    <3> QED BY <3>2, <3>3, <3>4
  <2>5. ASSUME NEW g \in Hosts, NEW k \in Nat, NEW e \in Devices,
               <<g, k>> \in at_device'[e]
        PROVE  /\ k \notin underway'[g]
               /\ \A f \in Devices : <<g, k>> \in at_device'[f] => e = f
    BY <1>9, <1>11, <2>5 DEF Inv, PlacedInv
  <2> QED BY <1>9, <2>1, <2>2, <2>3, <2>4, <2>5 DEF Inv, PlacedInv
<1>14. /\ Written(fields[d], c, fields[h][n]) \in Seq(Requests)
       /\ 1 .. Len(Written(fields[d], c, fields[h][n])) = 1 .. pool[d].made \cup {c}
       /\ Written(fields[d], c, fields[h][n])[c] = fields[h][n]
       /\ \A k \in 1 .. pool[d].made :
            k # c => Written(fields[d], c, fields[h][n])[k] = fields[d][k]
  <2>1. /\ fields[d] \in Seq(Requests) /\ Len(fields[d]) = pool[d].made
        /\ fields[h] \in Seq(Requests) /\ Len(fields[h]) = pool[h].made
    BY <1>1 DEF Inv, FieldsInv
  <2>2. fields[h][n] \in Requests
    BY <1>3, <2>1, ElementOfSeq
  <2>3. c \in 1 .. Len(fields[d]) \cup {Len(fields[d]) + 1}
    BY <1>7, <2>1
  <2>4. /\ Written(fields[d], c, fields[h][n]) \in Seq(Requests)
        /\ 1 .. Len(Written(fields[d], c, fields[h][n]))
             = 1 .. Len(fields[d]) \cup {c}
        /\ Written(fields[d], c, fields[h][n])[c] = fields[h][n]
        /\ \A k \in 1 .. Len(fields[d]) :
             k # c => Written(fields[d], c, fields[h][n])[k] = fields[d][k]
    BY <2>1, <2>2, <2>3, WrittenTyped
  <2> QED BY <2>1, <2>4
<1>15. FieldsInv'
  <2>1. /\ M!Allocate(pool[d]).made \in Nat
        /\ Len(Written(fields[d], c, fields[h][n])) \in Nat
    BY <1>6, <1>14, LenProperties DEF Sound, Pools
  <2>2. \A a, b \in Nat : 1 .. a = 1 .. b => a = b
    OBVIOUS
  <2>3. Len(Written(fields[d], c, fields[h][n])) = M!Allocate(pool[d]).made
    BY <1>6, <1>14, <2>1, <2>2
  <2>4. \A g \in Hosts : g \in Owners /\ g # d /\ pool'[g].made = pool[g].made
    BY <1>8, <1>10, PayloadAssumption DEF Owners
  <2>5. \A o \in Owners : Len(fields'[o]) = pool'[o].made
    BY <1>1, <1>8, <1>9, <1>10, <2>3 DEF Inv, FieldsInv
  <2> QED BY <1>9, <1>14, <2>4, <2>5 DEF Inv, FieldsInv
<1>16. RoutedInv'
  <2>1. \A g \in Hosts : fields'[g] = fields[g]
    BY <1>9, PayloadAssumption DEF Inv, FieldsInv, Owners
  <2>2. ASSUME NEW e \in Devices, NEW k \in in_dram'[e]
        PROVE  fields'[e][k].dev = e
    <3>1. CASE e = d /\ k = c
      BY <1>1, <1>9, <1>14, <3>1 DEF Inv, FieldsInv, RoutedInv
    <3>2. CASE ~(e = d /\ k = c)
      <4>1. k \in in_dram[e]
        BY <1>9, <2>2, <3>2 DEF Inv, PlacedInv
      <4>2. k \in 1 .. pool[e].made
        BY <4>1, UsedMade DEF UsedBy, Owners
      <4>3. fields'[e][k] = fields[e][k]
        BY <1>1, <1>9, <1>14, <3>2, <4>2 DEF Inv, FieldsInv, Owners
      <4> QED BY <4>1, <4>3 DEF Inv, RoutedInv
    <3> QED BY <3>1, <3>2
  <2> QED BY <1>9, <1>11, <2>1, <2>2 DEF Inv, RoutedInv
<1>17. Inv'
  BY <1>9, <1>13, <1>15, <1>16 DEF Inv
<1>18. <<h, n>> \in Carried /\ <<d, c>> \notin Carried /\ <<d, c>> \in Owners \X Nat
  BY <1>1, <1>2, <1>6, <1>7, InCarried
<1>19. Carried' = (Carried \ {<<h, n>>}) \cup {<<d, c>>}
  <2>1. \A b \in Owners \X Nat : b = <<b[1], b[2]>> /\ b[1] \in Owners /\ b[2] \in Nat
    OBVIOUS
  <2>2. \A b \in Owners \X Nat :
          /\ b = <<d, c>> <=> b[1] = d /\ b[2] = c
          /\ b = <<h, n>> <=> b[1] = h /\ b[2] = n
    <3> TAKE b \in Owners \X Nat
    <3>1. b = <<d, c>> <=> b[1] = d /\ b[2] = c
      BY <2>1
    <3>2. b = <<h, n>> <=> b[1] = h /\ b[2] = n
      BY <2>1
    <3> QED BY <3>1, <3>2
  <2>3. \A b \in Owners \X Nat :
          b[2] \in UsedBy(b[1])' <=> (b[2] \in UsedBy(b[1]) /\ b # <<h, n>>) \/ b = <<d, c>>
    BY <1>1, <1>12, <2>1, <2>2
  <2> DEFINE x == <<d, c>>
             y == <<h, n>>
  <2>4. x \in Owners \X Nat
    BY <1>18
  <2> HIDE DEF x, y
  <2>5. Carried' = (Carried \ {y}) \cup {x}
    BY <2>3, <2>4 DEF Carried, x, y
  <2> QED BY <2>5 DEF x, y
<1>20. \A o \in Owners : \A k \in UsedBy(o) : fields'[o][k] = fields[o][k]
  <2> SUFFICES ASSUME NEW o \in Owners, NEW k \in UsedBy(o)
               PROVE  fields'[o][k] = fields[o][k]
    OBVIOUS
  <2>1. k \in 1 .. pool[o].made /\ ~(o = d /\ k = c)
    BY <1>7, UsedMade
  <2> QED BY <1>1, <1>9, <1>14, <2>1 DEF Inv, FieldsInv
<1>21. \A b \in Carried : On(b)' = On(b)
  <2>1. \A b \in Carried : b[1] \in Owners /\ b[2] \in UsedBy(b[1])
    BY DEF Carried
  <2> QED BY <1>20, <2>1 DEF On
<1>22. On(<<d, c>>)' = On(<<h, n>>)
  <2>1. fields'[d][c] = fields[h][n]
    BY <1>1, <1>9, <1>14 DEF Inv, FieldsInv
  <2> QED BY <2>1 DEF On
<1> QED BY <1>6, <1>17, <1>18, <1>19, <1>21, <1>22

(* The upstream port releases the copy.                                    *)
LEMMA AnswerInv ==
  ASSUME Inv, NEW d \in Devices, NEW n \in in_dram[d], Answer(d, n)
  PROVE  /\ Inv' /\ fields' = fields
         /\ <<d, n>> \in Carried /\ Carried' = Carried \ {<<d, n>>}
<1>1. d \in Owners /\ n \in UsedBy(d)
  BY DEF Owners, UsedBy
<1>2. n \in 1 .. pool[d].made /\ n \notin M!FreeOf(pool[d])
  BY <1>1, UsedMade
<1>3. /\ Sound(M!Free(pool[d], n))
      /\ M!FreeOf(M!Free(pool[d], n)) = M!FreeOf(pool[d]) \cup {n}
      /\ M!Free(pool[d], n).made = pool[d].made
  <2>1. Sound(pool[d])
    BY <1>1 DEF Inv, PlacedInv
  <2> QED BY <1>2, <2>1, FreeSound
<1>4. /\ in_dram' = [in_dram EXCEPT ![d] = in_dram[d] \ {n}]
      /\ pool' = [pool EXCEPT ![d] = M!Free(pool[d], n)]
      /\ UNCHANGED <<todo, fields, device_map, underway, at_device>>
  BY DEF Answer, Released
<1>5. \A o \in Owners :
        pool'[o] = IF o = d THEN M!Free(pool[d], n) ELSE pool[o]
  BY <1>1, <1>4 DEF Inv, PlacedInv
<1>6. \A o \in Owners :
        UsedBy(o)' = IF o = d THEN UsedBy(d) \ {n} ELSE UsedBy(o)
  BY <1>4 DEF UsedBy, AtDevice, Inv, PlacedInv
<1>7. PlacedInv'
  <2>1. pool' \in [Owners -> Pools]
    BY <1>1, <1>3, <1>4 DEF Inv, PlacedInv, Sound
  <2>2. in_dram' \in [Devices -> SUBSET Nat]
    BY <1>4 DEF Inv, PlacedInv
  <2>3. ASSUME NEW o \in Owners
        PROVE  /\ Sound(pool'[o])
               /\ M!FreeOf(pool'[o]) \cup UsedBy(o)' = 1 .. pool'[o].made
               /\ M!FreeOf(pool'[o]) \cap UsedBy(o)' = {}
    <3>1. /\ Sound(pool[o])
          /\ M!FreeOf(pool[o]) \cup UsedBy(o) = 1 .. pool[o].made
          /\ M!FreeOf(pool[o]) \cap UsedBy(o) = {}
      BY DEF Inv, PlacedInv
    <3>2. CASE o = d
      BY <1>1, <1>3, <1>5, <1>6, <3>1, <3>2
    <3>3. CASE o # d
      BY <1>5, <1>6, <3>1, <3>3
    <3> QED BY <3>2, <3>3
  <2> QED BY <1>4, <2>1, <2>2, <2>3 DEF Inv, PlacedInv
<1>8. FieldsInv'
  <2>1. \A o \in Owners : pool'[o].made = pool[o].made
    BY <1>3, <1>5
  <2> QED BY <1>4, <2>1 DEF Inv, FieldsInv, Owners
<1>9. RoutedInv'
  BY <1>4 DEF Inv, PlacedInv, RoutedInv
<1>10. <<d, n>> \in Carried
  BY <1>1, <1>2, InCarried
<1>11. Carried' = Carried \ {<<d, n>>}
  <2>1. \A b \in Owners \X Nat : b = <<b[1], b[2]>> /\ b[1] \in Owners /\ b[2] \in Nat
    OBVIOUS
  <2>2. \A b \in Owners \X Nat : b = <<d, n>> <=> b[1] = d /\ b[2] = n
    BY <2>1
  <2>3. \A b \in Owners \X Nat :
          b[2] \in UsedBy(b[1])' <=> b[2] \in UsedBy(b[1]) /\ b # <<d, n>>
    BY <1>6, <2>1, <2>2
  <2> DEFINE x == <<d, n>>
  <2> HIDE DEF x
  <2>4. Carried' = Carried \ {x}
    BY <2>3 DEF Carried, x
  <2> QED BY <2>4 DEF x
<1> QED BY <1>4, <1>7, <1>8, <1>9, <1>10, <1>11 DEF Inv

-----------------------------------------------------------------------------
(* Every step keeps the invariant. *)
LEMMA StepInv == Inv /\ [Next]_vars => Inv'
<1> SUFFICES ASSUME Inv, [Next]_vars PROVE Inv'
  OBVIOUS
<1>1. ASSUME NEW r \in Requests, AddPayload(r) PROVE Inv'
  BY <1>1, AddPayloadInv
<1>2. ASSUME NEW h \in Hosts, NEW n \in underway[h], Route(h, n) PROVE Inv'
  BY <1>2, RouteInv
<1>3. ASSUME NEW d \in Devices, NEW p \in at_device[d], Copy(d, p[1], p[2])
      PROVE  Inv'
  <2>1. p[1] \in Hosts /\ p[2] \in Nat
    BY DEF Inv, PlacedInv
  <2> QED BY <1>3, <2>1, CopyInv
<1>4. ASSUME NEW d \in Devices, NEW n \in in_dram[d], Answer(d, n) PROVE Inv'
  BY <1>4, AnswerInv
<1>5. CASE UNCHANGED vars
  BY <1>5 DEF vars, Inv, PlacedInv, FieldsInv, RoutedInv, UsedBy, AtDevice
<1> QED BY <1>1, <1>2, <1>3, <1>4, <1>5 DEF Next

(* The invariant holds in every reachable state. *)
LEMMA AlwaysInv == Spec => []Inv
BY InitInv, StepInv, PTL DEF Spec

(* The memory manager (mm.cpp): what is free is not in use, nothing is     *)
(* free twice, and nothing is lost, whichever way payloads come back.      *)
THEOREM PayloadsKept == Spec => []PoolsSound
<1>1. Inv => PoolsSound
  <2> SUFFICES ASSUME Inv, NEW o \in Owners
               PROVE  /\ M!FreeOf(pool[o]) \cup InUse(o) = 1 .. pool[o].made
                      /\ M!FreeOf(pool[o]) \cap InUse(o) = {}
                      /\ \A i, k \in 1 .. pool[o].free_list :
                           pool[o].trans[i] = pool[o].trans[k] => i = k
    BY DEF PoolsSound
  <2>1. /\ Sound(pool[o]) /\ UsedBy(o) \subseteq 1 .. pool[o].made
        /\ M!FreeOf(pool[o]) \cup UsedBy(o) = 1 .. pool[o].made
        /\ M!FreeOf(pool[o]) \cap UsedBy(o) = {}
    BY DEF Inv, PlacedInv
  <2>2. pool[o].made \in Nat
    BY <2>1 DEF Sound, Pools
  <2>3. InUse(o) = UsedBy(o)
    <3>1. CASE o \in Devices
      BY <3>1 DEF InUse, UsedBy
    <3>2. CASE o \notin Devices
      <4>1. AtDevice(o) = {n \in 1 .. pool[o].made :
                            \E d \in Devices : <<o, n>> \in at_device[d]}
        <5>1. AtDevice(o) \subseteq 1 .. pool[o].made
          BY <2>1, <3>2 DEF UsedBy
        <5> QED BY <2>2, <5>1 DEF AtDevice
      <4> QED BY <3>2, <4>1 DEF InUse, UsedBy
    <3> QED BY <3>1, <3>2
  <2> QED BY <2>1, <2>3 DEF Sound
<1> QED BY <1>1, AlwaysInv, PTL

(* device_map (sim_wrapper.cpp, controller.cpp): although it is keyed by   *)
(* payloads, which are used again, a request goes to its own device.       *)
THEOREM RoutedRight == Spec => []RoutedToDevice
<1>1. Inv => RoutedToDevice
  <2> SUFFICES ASSUME Inv, NEW d \in Devices
               PROVE  /\ \A p \in at_device[d] : fields[p[1]][p[2]].dev = d
                      /\ \A n \in in_dram[d] : fields[d][n].dev = d
    BY DEF RoutedToDevice
  <2>1. \A p \in at_device[d] :
          p[1] \in Hosts /\ p[2] \in Nat /\ p = <<p[1], p[2]>>
    BY DEF Inv, PlacedInv
  <2> QED BY <2>1 DEF Inv, RoutedInv
<1> QED BY <1>1, AlwaysInv, PTL

-----------------------------------------------------------------------------
(* A request is in one payload at a time, and then no longer with the      *)
(* wrapper: what is written into a payload that is used again overwrites   *)
(* no request.                                                             *)
CarriedInv ==
  /\ \A b, c \in Carried : On(b) = On(c) => b = c
  /\ \A c \in Carried : On(c) \notin todo

(* The open requests are the fields of the carried payloads. *)
LEMMA OpenIs ==
  ASSUME Inv
  PROVE  Open = {On(c) : c \in Carried} /\ Open \subseteq Requests
<1>1. \A h \in Hosts : h \in Owners /\ h \notin Devices
  BY PayloadAssumption DEF Owners
<1>2. \A d \in Devices : d \in Owners
  BY DEF Owners
<1>3. \A d \in Devices : \A p \in at_device[d] :
        p[1] \in Hosts /\ p[2] \in Nat /\ p = <<p[1], p[2]>>
  BY DEF Inv, PlacedInv
<1>4. ASSUME NEW x \in Open PROVE \E c \in Carried : x = On(c)
  <2>1. CASE \E h \in Hosts : \E n \in underway[h] : x = fields[h][n]
    <3>1. PICK h \in Hosts : \E n \in underway[h] : x = fields[h][n]
      BY <2>1
    <3>2. PICK n \in underway[h] : x = fields[h][n]
      BY <3>1
    <3>3. n \in UsedBy(h) /\ n \in Nat
      BY <1>1 DEF UsedBy, Inv, PlacedInv
    <3> QED BY <1>1, <3>2, <3>3, InCarried
  <2>2. CASE \E d \in Devices : \E p \in at_device[d] : x = fields[p[1]][p[2]]
    <3>1. PICK d \in Devices : \E p \in at_device[d] : x = fields[p[1]][p[2]]
      BY <2>2
    <3>2. PICK p \in at_device[d] : x = fields[p[1]][p[2]]
      BY <3>1
    <3>3. p[2] \in UsedBy(p[1])
      BY <1>1, <1>3 DEF UsedBy, AtDevice
    <3> QED BY <1>1, <1>3, <3>2, <3>3, InCarried
  <2>3. CASE \E d \in Devices : \E n \in in_dram[d] : x = fields[d][n]
    <3>1. PICK d \in Devices : \E n \in in_dram[d] : x = fields[d][n]
      BY <2>3
    <3>2. PICK n \in in_dram[d] : x = fields[d][n]
      BY <3>1
    <3>3. n \in UsedBy(d) /\ n \in Nat
      BY DEF UsedBy, Inv, PlacedInv
    <3> QED BY <1>2, <3>2, <3>3, InCarried
  <2> QED BY <2>1, <2>2, <2>3 DEF Open
<1>5. ASSUME NEW c \in Carried PROVE On(c) \in Open
  <2>1. c[1] \in Owners /\ c[2] \in UsedBy(c[1]) /\ On(c) = fields[c[1]][c[2]]
    BY DEF Carried, On
  <2>2. CASE c[1] \in Devices
    BY <2>1, <2>2 DEF UsedBy, Open
  <2>3. CASE c[1] \notin Devices /\ c[2] \in underway[c[1]]
    BY <2>1, <2>3 DEF Owners, Open
  <2>4. CASE c[1] \notin Devices /\ c[2] \in AtDevice(c[1])
    <3>1. PICK d \in Devices : <<c[1], c[2]>> \in at_device[d]
      BY <2>4 DEF AtDevice
    <3> DEFINE p == <<c[1], c[2]>>
    <3>2. On(c) = fields[p[1]][p[2]]
      BY <2>1
    <3> HIDE DEF p
    <3>3. p \in at_device[d]
      BY <3>1 DEF p
    <3> QED BY <3>2, <3>3 DEF Open
  <2> QED BY <2>1, <2>2, <2>3, <2>4 DEF UsedBy
<1>6. ASSUME NEW c \in Carried PROVE On(c) \in Requests
  <2>1. c[1] \in Owners /\ c[2] \in 1 .. Len(fields[c[1]])
    BY UsedMade DEF Carried, Inv, FieldsInv
  <2>2. fields[c[1]] \in Seq(Requests)
    BY <2>1 DEF Inv, FieldsInv
  <2> QED BY <2>1, <2>2, ElementOfSeq DEF On
<1> QED BY <1>4, <1>5, <1>6

(* OpenIs after a step. *)
LEMMA OpenIsNext == (Inv => Open = {On(c) : c \in Carried} /\ Open \subseteq Requests)'
<1>1. Inv => Open = {On(c) : c \in Carried} /\ Open \subseteq Requests
  BY OpenIs
<1> QED BY <1>1, PTL

(* At the start no payload is carried and the store is empty. *)
LEMMA InitCarried == Init => CarriedInv /\ Store!Init
<1> SUFFICES ASSUME Init PROVE CarriedInv /\ Store!Init
  OBVIOUS
<1>1. Carried = {}
  BY DEF Init, Carried, UsedBy, AtDevice, Owners
<1>2. Open = {}
  BY DEF Init, Open
<1> QED BY <1>1, <1>2 DEF Init, CarriedInv, Store!Init

(* The wrapper's and the controller's steps, those of the memory wrapper,  *)
(* and the answer are a step of the store, or none.                        *)
LEMMA StoreStep ==
  ASSUME Inv, Inv', CarriedInv, [Next]_vars
  PROVE  CarriedInv' /\ [Store!Next]_(Store!vars)
<1>1. /\ Open = {On(c) : c \in Carried} /\ Open \subseteq Requests
      /\ Open' = {On(c)' : c \in Carried'}
  BY OpenIs, OpenIsNext
<1>2. ASSUME NEW r \in Requests, AddPayload(r)
      PROVE  CarriedInv' /\ [Store!Next]_(Store!vars)
  <2>1. PICK c \in Owners \X Nat :
          /\ c \notin Carried /\ Carried' = Carried \cup {c} /\ On(c)' = r
          /\ \A b \in Carried : On(b)' = On(b)
    BY <1>2, AddPayloadInv
  <2>2. r \in todo /\ todo' = todo \ {r} /\ answered' = answered
    BY <1>2 DEF AddPayload
  <2>3. CarriedInv'
    BY <2>1, <2>2 DEF CarriedInv
  <2>4. Open' = Open \cup {r}
    BY <1>1, <2>1
  <2>5. Store!Submit(r)
    BY <2>2, <2>4 DEF Store!Submit
  <2> QED BY <2>3, <2>5 DEF Store!Next
<1>3. ASSUME Carried' = Carried, fields' = fields, todo' = todo, answered' = answered
      PROVE  CarriedInv' /\ [Store!Next]_(Store!vars)
  <2>1. \A c : On(c)' = On(c)
    BY <1>3 DEF On
  <2>2. Open' = Open
    BY <1>1, <1>3, <2>1
  <2> QED BY <1>3, <2>1, <2>2 DEF CarriedInv, Store!vars
<1>4. ASSUME NEW h \in Hosts, NEW n \in underway[h], Route(h, n)
      PROVE  CarriedInv' /\ [Store!Next]_(Store!vars)
  <2>1. Carried' = Carried /\ fields' = fields
    BY <1>4, RouteInv
  <2> QED BY <1>3, <1>4, <2>1 DEF Route
<1>5. ASSUME NEW d \in Devices, NEW p \in at_device[d], Copy(d, p[1], p[2])
      PROVE  CarriedInv' /\ [Store!Next]_(Store!vars)
  <2>1. p[1] \in Hosts /\ p[2] \in Nat
    BY DEF Inv, PlacedInv
  <2> DEFINE x == <<p[1], p[2]>>
  <2>2. PICK k \in Nat : /\ x \in Carried /\ <<d, k>> \notin Carried
                         /\ Carried' = (Carried \ {x}) \cup {<<d, k>>}
                         /\ On(<<d, k>>)' = On(x)
                         /\ \A b \in Carried : b # x => On(b)' = On(b)
    BY <1>5, <2>1, CopyInv
  <2> DEFINE y == <<d, k>>
  <2>3. todo' = todo /\ answered' = answered
    BY <1>5 DEF Copy
  <2>4. /\ x \in Carried /\ y \notin Carried /\ Carried' = (Carried \ {x}) \cup {y}
        /\ On(y)' = On(x) /\ \A b \in Carried : b # x => On(b)' = On(b)
    BY <2>2
  <2> HIDE DEF x, y
  <2>5. CarriedInv'
    BY <2>3, <2>4 DEF CarriedInv
  <2>6. Open' = Open
    BY <1>1, <2>4
  <2> QED BY <2>3, <2>5, <2>6 DEF Store!vars
<1>6. ASSUME NEW d \in Devices, NEW n \in in_dram[d], Answer(d, n)
      PROVE  CarriedInv' /\ [Store!Next]_(Store!vars)
  <2> DEFINE x == <<d, n>>
  <2>1. /\ fields' = fields /\ x \in Carried /\ Carried' = Carried \ {x}
    BY <1>6, AnswerInv
  <2>2. todo' = todo /\ answered' = answered \cup {On(x)}
    BY <1>6 DEF Answer, On
  <2> HIDE DEF x
  <2>3. \A c : On(c)' = On(c)
    BY <2>1 DEF On
  <2>4. CarriedInv'
    BY <2>1, <2>2, <2>3 DEF CarriedInv
  <2>5. Open' = Open \ {On(x)} /\ On(x) \in Open
    BY <1>1, <2>1, <2>3 DEF CarriedInv
  <2>6. On(x) \in Requests /\ Store!Return(On(x))
    BY <1>1, <2>2, <2>5 DEF Store!Return
  <2> QED BY <2>4, <2>6 DEF Store!Next
<1>7. CASE UNCHANGED vars
  <2>1. Carried' = Carried
    BY <1>7 DEF vars, Carried, UsedBy, AtDevice
  <2> QED BY <1>3, <1>7, <2>1 DEF vars
<1> QED BY <1>2, <1>4, <1>5, <1>6, <1>7 DEF Next

(* Payloads that are used again, copied by MEMWrapper and released by USP  *)
(* keep every request: what add_payload wrote is what is answered, once.   *)
THEOREM RequestsKept == Spec => ImplementsStore
<1>1. Init => CarriedInv /\ Store!Init
  BY InitCarried
<1>2. Inv /\ Inv' /\ CarriedInv /\ [Next]_vars => CarriedInv' /\ [Store!Next]_(Store!vars)
  BY StoreStep
<1> QED BY <1>1, <1>2, AlwaysInv, PTL DEF Spec, ImplementsStore, Store!Spec
=============================================================================

---------------------------- MODULE CxlSimProofs ----------------------------
(***************************************************************************)
(* What the simulator does for every number of hosts, packets and payloads *)
(* per packet, if the traces keep to the discipline of the ones that come  *)
(* with the program.                                                       *)
(*                                                                         *)
(* The queues that payloads pass through are taken as one function from    *)
(* places to sequences.  Most steps only move the first payload of one     *)
(* place to the end of another, so that what each payload is, and that it  *)
(* is in one place, is shown once, for a move.                             *)
(***************************************************************************)
EXTENDS CxlSimInvariants, FiniteSetTheorems, SequenceTheorems, TLAPS

-----------------------------------------------------------------------------
(* Queues in general *)

(* The length, the domain and the entries of a sequence over a set. *)
LEMMA SeqFacts ==
  ASSUME NEW S, NEW q \in Seq(S)
  PROVE  /\ Len(q) \in Nat /\ DOMAIN q = 1 .. Len(q)
         /\ \A i \in 1 .. Len(q) : q[i] \in S
         /\ Items(q) \subseteq S
         /\ q = <<>> <=> Len(q) = 0
<1>1. Len(q) \in Nat /\ DOMAIN q = 1 .. Len(q)
  BY LenProperties
<1>2. \A i \in 1 .. Len(q) : q[i] \in S
  BY ElementOfSeq
<1>3. q = <<>> <=> Len(q) = 0
  BY EmptySeq
<1> QED BY <1>1, <1>2, <1>3 DEF Items

(* The head and the rest of a queue that is not empty. *)
LEMMA TailFacts ==
  ASSUME NEW S, NEW q \in Seq(S), q # <<>>
  PROVE  /\ Head(q) = q[1] /\ Head(q) \in S /\ Tail(q) \in Seq(S)
         /\ Len(q) \in Nat \ {0} /\ Len(Tail(q)) = Len(q) - 1
         /\ \A i \in 1 .. Len(q) - 1 : Tail(q)[i] = q[i + 1]
         /\ Items(q) = {Head(q)} \cup Items(Tail(q))
<1>1. /\ Head(q) \in S /\ Tail(q) \in Seq(S)
      /\ Len(Tail(q)) = Len(q) - 1
      /\ \A i \in 1 .. Len(Tail(q)) : Tail(q)[i] = q[i + 1]
  BY HeadTailProperties
<1>2. Len(q) \in Nat \ {0} /\ Head(q) = q[1]
  BY EmptySeq
<1>3. DOMAIN q = 1 .. Len(q) /\ DOMAIN Tail(q) = 1 .. Len(q) - 1
  BY <1>1, LenProperties
<1>4. \A i \in 1 .. Len(q) : i = 1 \/ (i - 1 \in 1 .. Len(q) - 1 /\ i = (i - 1) + 1)
  BY <1>2
<1>5. \A i \in 1 .. Len(q) - 1 : i + 1 \in 1 .. Len(q)
  BY <1>2
<1>6. 1 \in 1 .. Len(q)
  BY <1>2
<1>7. Items(q) \subseteq {Head(q)} \cup Items(Tail(q))
  <2> SUFFICES ASSUME NEW i \in 1 .. Len(q)
               PROVE  q[i] \in {Head(q)} \cup Items(Tail(q))
    BY <1>3 DEF Items
  <2>1. CASE i = 1
    BY <1>2, <2>1
  <2>2. CASE i # 1
    <3>1. i - 1 \in 1 .. Len(q) - 1 /\ (i - 1) + 1 = i
      BY <1>4, <2>2
    <3>2. Tail(q)[i - 1] = q[i]
      BY <1>1, <3>1
    <3> QED BY <1>3, <3>1, <3>2 DEF Items
  <2> QED BY <2>1, <2>2
<1>8. {Head(q)} \cup Items(Tail(q)) \subseteq Items(q)
  BY <1>1, <1>2, <1>3, <1>5, <1>6 DEF Items
<1> QED BY <1>1, <1>2, <1>7, <1>8

(* A queue after a push at its back (std::deque::push_back). *)
LEMMA AppendFacts ==
  ASSUME NEW S, NEW q \in Seq(S), NEW x \in S
  PROVE  /\ Append(q, x) \in Seq(S) /\ Len(Append(q, x)) = Len(q) + 1
         /\ Append(q, x)[Len(q) + 1] = x
         /\ \A i \in 1 .. Len(q) : Append(q, x)[i] = q[i]
         /\ Items(Append(q, x)) = Items(q) \cup {x}
<1>1. /\ Append(q, x) \in Seq(S) /\ Len(Append(q, x)) = Len(q) + 1
      /\ Append(q, x)[Len(q) + 1] = x
      /\ \A i \in 1 .. Len(q) : Append(q, x)[i] = q[i]
  BY AppendProperties
<1>2. Len(q) \in Nat /\ DOMAIN q = 1 .. Len(q)
      /\ DOMAIN Append(q, x) = 1 .. Len(q) + 1
  BY <1>1, LenProperties
<1>3. 1 .. Len(q) + 1 = 1 .. Len(q) \cup {Len(q) + 1}
  BY <1>2
<1>4. Items(Append(q, x)) = Items(q) \cup {x}
  BY <1>1, <1>2, <1>3 DEF Items
<1> QED BY <1>1, <1>4

(* A queue followed by another. *)
LEMMA ConcatFacts ==
  ASSUME NEW S, NEW q \in Seq(S), NEW r \in Seq(S)
  PROVE  /\ q \o r \in Seq(S) /\ Len(q \o r) = Len(q) + Len(r)
         /\ \A i \in 1 .. Len(q) : (q \o r)[i] = q[i]
         /\ \A i \in 1 .. Len(r) : (q \o r)[Len(q) + i] = r[i]
         /\ Items(q \o r) = Items(q) \cup Items(r)
<1>1. /\ q \o r \in Seq(S) /\ Len(q \o r) = Len(q) + Len(r)
      /\ \A i \in 1 .. Len(q) + Len(r) :
           (q \o r)[i] = IF i <= Len(q) THEN q[i] ELSE r[i - Len(q)]
  BY ConcatProperties
<1>2. /\ Len(q) \in Nat /\ DOMAIN q = 1 .. Len(q)
      /\ Len(r) \in Nat /\ DOMAIN r = 1 .. Len(r)
      /\ DOMAIN (q \o r) = 1 .. Len(q) + Len(r)
  BY <1>1, LenProperties
<1>3. \A i \in 1 .. Len(q) : (q \o r)[i] = q[i] /\ i \in 1 .. Len(q) + Len(r)
  BY <1>1, <1>2
<1>4. \A i \in 1 .. Len(r) : /\ (q \o r)[Len(q) + i] = r[i]
                            /\ Len(q) + i \in 1 .. Len(q) + Len(r)
  <2> TAKE i \in 1 .. Len(r)
  <2>1. /\ Len(q) + i \in 1 .. Len(q) + Len(r)
        /\ ~(Len(q) + i <= Len(q)) /\ (Len(q) + i) - Len(q) = i
    BY <1>2
  <2> QED BY <1>1, <2>1
<1>5. Items(q) \cup Items(r) \subseteq Items(q \o r)
  BY <1>2, <1>3, <1>4 DEF Items
<1>6. Items(q \o r) \subseteq Items(q) \cup Items(r)
  <2> SUFFICES ASSUME NEW i \in 1 .. Len(q) + Len(r)
               PROVE  (q \o r)[i] \in Items(q) \cup Items(r)
    BY <1>2 DEF Items
  <2>1. CASE i <= Len(q)
    BY <1>2, <1>3, <2>1 DEF Items
  <2>2. CASE ~(i <= Len(q))
    <3>1. i - Len(q) \in 1 .. Len(r) /\ (q \o r)[i] = r[i - Len(q)]
      BY <1>1, <1>2, <2>2
    <3> QED BY <1>2, <3>1 DEF Items
  <2> QED BY <2>1, <2>2
<1> QED BY <1>1, <1>3, <1>4, <1>5, <1>6

(* What a family of queues holds, element by element. *)
LEMMA InContent ==
  \A F, x : x \in Content(F) <=> \E m \in DOMAIN F : x \in Items(F[m])
BY DEF Content

(* A queue that loses its first element. *)
LEMMA DroppedFacts ==
  ASSUME NEW P, NEW S, NEW F \in Family(P, S), NEW l \in P, Once(F)
  PROVE  /\ Dropped(F, l) \in Family(P, S) /\ Once(Dropped(F, l))
         /\ F[l] = <<>> => Dropped(F, l) = F
         /\ F[l] # <<>> => /\ Head(F[l]) \in Content(F)
                           /\ Content(Dropped(F, l)) = Content(F) \ {Head(F[l])}
<1> USE DEF Family
<1> DEFINE G == Dropped(F, l)
<1>1. CASE F[l] = <<>>
  <2>1. G = F
    BY <1>1 DEF Dropped, Rest
  <2> QED BY <1>1, <2>1
<1>2. CASE F[l] # <<>>
  <2>1. /\ DOMAIN G = P /\ G[l] = Tail(F[l])
        /\ \A m \in P : m # l => G[m] = F[m]
    BY <1>2 DEF Dropped, Rest
  <2>2. /\ Head(F[l]) = F[l][1] /\ Tail(F[l]) \in Seq(S)
        /\ Len(F[l]) \in Nat \ {0} /\ DOMAIN Tail(F[l]) = 1 .. Len(F[l]) - 1
        /\ \A i \in 1 .. Len(F[l]) - 1 : Tail(F[l])[i] = F[l][i + 1]
        /\ Items(F[l]) = {Head(F[l])} \cup Items(Tail(F[l]))
    BY <1>2, TailFacts, SeqFacts
  <2>3. G \in Family(P, S)
    BY <2>2 DEF Dropped, Rest
  <2>4. \A m \in P : DOMAIN F[m] = 1 .. Len(F[m]) /\ Len(F[m]) \in Nat
    BY SeqFacts
  <2> HIDE DEF G
  <2> DEFINE o(m, i) == IF m = l THEN i + 1 ELSE i
  <2>5. \A m \in P : \A i \in DOMAIN G[m] :
          o(m, i) \in DOMAIN F[m] /\ G[m][i] = F[m][o(m, i)] /\ i \in Nat \ {0}
    BY <2>1, <2>2, <2>4
  <2>6. Once(G)
    <3> SUFFICES ASSUME NEW m \in P, NEW n \in P,
                        NEW i \in DOMAIN G[m], NEW j \in DOMAIN G[n],
                        G[m][i] = G[n][j]
                 PROVE  m = n /\ i = j
      BY <2>1 DEF Once
    <3>1. m = n /\ o(m, i) = o(n, j)
      BY <2>5 DEF Once
    <3> QED BY <2>5, <3>1
  <2>7. 1 \in DOMAIN F[l] /\ Head(F[l]) \in Content(F)
    BY <2>2, <2>4 DEF Content, Items
  <2>8. \A m \in P : \A i \in DOMAIN G[m] : G[m][i] # Head(F[l])
    <3> TAKE m \in P
    <3> TAKE i \in DOMAIN G[m]
    <3>1. m = l => o(m, i) # 1
      BY <2>5
    <3>2. o(m, i) \in DOMAIN F[m] /\ G[m][i] = F[m][o(m, i)]
      BY <2>5
    <3> HIDE DEF o
    <3>3. F[m][o(m, i)] # F[l][1]
      BY <2>7, <3>1, <3>2 DEF Once
    <3> QED BY <2>2, <3>2, <3>3
  <2>9. Head(F[l]) \notin Content(G)
    BY <2>1, <2>8 DEF Content, Items
  <2>10. Content(F) = {Head(F[l])} \cup Content(G)
    <3>1. \A m \in P : m # l => Items(G[m]) = Items(F[m])
      BY <2>1
    <3>2. Items(F[l]) = {Head(F[l])} \cup Items(G[l])
      BY <2>1, <2>2
    <3> QED BY <2>1, <3>1, <3>2 DEF Content
  <2> QED BY <1>2, <2>3, <2>6, <2>7, <2>9, <2>10 DEF G
<1> QED BY <1>1, <1>2

(* A queue that new elements are put into. *)
LEMMA ExtendedFacts ==
  ASSUME NEW P, NEW S, NEW F \in Family(P, S), NEW l \in P, Once(F),
         NEW s \in Seq(S), OnceIn(s), AllNew(s, F)
  PROVE  /\ Extended(F, l, s) \in Family(P, S) /\ Once(Extended(F, l, s))
         /\ Content(Extended(F, l, s)) = Content(F) \cup Items(s)
<1> USE DEF Family
<1> DEFINE G == Extended(F, l, s)
<1>1. /\ F[l] \o s \in Seq(S) /\ Len(F[l] \o s) = Len(F[l]) + Len(s)
      /\ \A i \in 1 .. Len(F[l]) : (F[l] \o s)[i] = F[l][i]
      /\ \A i \in 1 .. Len(s) : (F[l] \o s)[Len(F[l]) + i] = s[i]
      /\ Items(F[l] \o s) = Items(F[l]) \cup Items(s)
  BY ConcatFacts
<1>2. /\ Len(F[l]) \in Nat /\ Len(s) \in Nat /\ DOMAIN s = 1 .. Len(s)
      /\ DOMAIN (F[l] \o s) = 1 .. Len(F[l]) + Len(s)
      /\ \A m \in P : DOMAIN F[m] = 1 .. Len(F[m])
  <2>1. F[l] \in Seq(S) /\ \A m \in P : F[m] \in Seq(S)
    OBVIOUS
  <2> QED BY <1>1, <2>1, SeqFacts
<1>3. /\ DOMAIN G = P /\ G[l] = F[l] \o s
      /\ \A m \in P : m # l => G[m] = F[m]
      /\ G \in Family(P, S)
  BY <1>1 DEF Extended
<1> HIDE DEF G
<1> DEFINE new(m, i) == m = l /\ ~(i <= Len(F[l]))
<1>4. \A m \in P : \A i \in DOMAIN G[m] : ~new(m, i) =>
        i \in DOMAIN F[m] /\ G[m][i] = F[m][i] /\ G[m][i] \in Content(F)
  BY <1>1, <1>2, <1>3 DEF Content, Items
<1>5. \A m \in P : \A i \in DOMAIN G[m] : new(m, i) =>
        /\ i - Len(F[l]) \in DOMAIN s /\ G[m][i] = s[i - Len(F[l])]
        /\ G[m][i] \in Items(s) /\ i \in Nat
  <2> TAKE m \in P
  <2> TAKE i \in DOMAIN G[m]
  <2> HAVE new(m, i)
  <2>1. /\ m = l /\ i \in 1 .. Len(F[l]) + Len(s) /\ i - Len(F[l]) \in 1 .. Len(s)
        /\ Len(F[l]) + (i - Len(F[l])) = i
    BY <1>2, <1>3
  <2> QED BY <1>1, <1>2, <1>3, <2>1 DEF Items
<1>6. Once(G)
  <2> SUFFICES ASSUME NEW m \in P, NEW n \in P,
                      NEW i \in DOMAIN G[m], NEW j \in DOMAIN G[n],
                      G[m][i] = G[n][j]
               PROVE  m = n /\ i = j
    BY <1>3 DEF Once
  <2>a. Items(s) \cap Content(F) = {}
    BY DEF AllNew
  <2>1. CASE ~new(m, i) /\ ~new(n, j)
    BY <1>4, <2>1 DEF Once
  <2>2. CASE new(m, i) /\ new(n, j)
    <3>1. i - Len(F[l]) = j - Len(F[l])
      BY <1>5, <2>2 DEF OnceIn
    <3> QED BY <1>2, <1>5, <2>2, <3>1
  <2>3. CASE new(m, i) /\ ~new(n, j)
    BY <1>4, <1>5, <2>a, <2>3
  <2>4. CASE ~new(m, i) /\ new(n, j)
    BY <1>4, <1>5, <2>a, <2>4
  <2> QED BY <2>1, <2>2, <2>3, <2>4
<1>7. Content(G) = Content(F) \cup Items(s)
  <2>1. \A m \in P : m # l => Items(G[m]) = Items(F[m])
    BY <1>3
  <2>2. Items(G[l]) = Items(F[l]) \cup Items(s)
    BY <1>1, <1>3
  <2>3. DOMAIN F = P
    OBVIOUS
  <2>4. \A x : (\E m \in P : x \in Items(G[m]))
             <=> x \in Items(s) \/ \E m \in P : x \in Items(F[m])
    BY <2>1, <2>2
  <2>5. \A x : x \in Content(G) <=> x \in Content(F) \cup Items(s)
    BY <1>3, <2>3, <2>4, InContent
  <2> QED BY <2>5
<1> QED BY <1>3, <1>6, <1>7 DEF G

(* A queue that is handed on as a whole. *)
LEMMA EmptiedFacts ==
  ASSUME NEW P, NEW S, NEW F \in Family(P, S), NEW l \in P, Once(F)
  PROVE  /\ Emptied(F, l) \in Family(P, S) /\ Once(Emptied(F, l))
         /\ Items(F[l]) \subseteq Content(F) /\ OnceIn(F[l])
         /\ Content(Emptied(F, l)) = Content(F) \ Items(F[l])
<1> USE DEF Family
<1> DEFINE G == Emptied(F, l)
<1>1. /\ DOMAIN G = P /\ DOMAIN F = P /\ G[l] = <<>> /\ <<>> \in Seq(S)
      /\ \A m \in P : m # l => G[m] = F[m]
      /\ G \in Family(P, S)
  BY EmptySeq DEF Emptied
<1>2. DOMAIN G[l] = {} /\ Items(G[l]) = {}
  <2>1. G[l] = <<>>
    BY <1>1
  <2> HIDE DEF G
  <2> QED BY <2>1 DEF Items
<1> HIDE DEF G
<1>3. Once(G)
  <2> SUFFICES ASSUME NEW m \in P, NEW n \in P,
                      NEW i \in DOMAIN G[m], NEW j \in DOMAIN G[n],
                      G[m][i] = G[n][j]
               PROVE  m = n /\ i = j
    BY <1>1 DEF Once
  <2>1. m # l /\ n # l
    BY <1>2
  <2>2. G[m] = F[m] /\ G[n] = F[n]
    BY <1>1, <2>1
  <2> QED BY <1>1, <2>2 DEF Once
<1>4. OnceIn(F[l])
  BY <1>1 DEF Once, OnceIn
<1>5. \A m \in P : m # l => Items(F[m]) \cap Items(F[l]) = {}
  BY <1>1 DEF Once, Items
<1>6. \A x : x \in Content(G) <=> x \in Content(F) \ Items(F[l])
  BY <1>1, <1>2, <1>5, InContent
<1>7. Items(F[l]) \subseteq Content(F)
  BY <1>1, InContent
<1> QED BY <1>1, <1>3, <1>4, <1>6, <1>7 DEF G

(* An element that goes from one queue to another, or none, moves. *)
LEMMA ShiftFacts ==
  ASSUME NEW P, NEW S, NEW F \in Family(P, S), NEW l \in P, NEW k \in P,
         l # k, Once(F)
  PROVE  /\ Shift(F, l, k) \in Family(P, S) /\ Once(Shift(F, l, k))
         /\ Content(Shift(F, l, k)) = Content(F)
<1>0. DOMAIN F = P /\ \A m \in P : F[m] \in Seq(S)
  BY DEF Family
<1>1. CASE F[l] = <<>>
  <2>1. Shift(F, l, k) = F
    BY <1>1 DEF Shift, Rest, Moved, Family
  <2> QED BY <2>1
<1>2. CASE F[l] # <<>>
  <2> DEFINE G == Dropped(F, l)
             x == Head(F[l])
  <2>1. /\ G \in Family(P, S) /\ Once(G) /\ x \in Content(F)
        /\ Content(G) = Content(F) \ {x}
    BY <1>2, DroppedFacts
  <2>2. F[l] \in Seq(S) /\ x \in S
    BY <1>0, <1>2, TailFacts
  <2>3. <<x>> \in Seq(S) /\ OnceIn(<<x>>) /\ Items(<<x>>) = {x}
    BY <2>2 DEF OnceIn, Items
  <2>4. G[k] = F[k] /\ F[k] \in Seq(S)
    BY <1>0 DEF Dropped
  <2>5. Append(F[k], x) = F[k] \o <<x>>
    BY <2>2, <2>4, AppendIsConcat
  <2>6. Shift(F, l, k) = Extended(G, k, <<x>>)
    <3>1. Shift(F, l, k) = [F EXCEPT ![l] = Tail(F[l]), ![k] = Append(F[k], x)]
      BY <1>2 DEF Shift, Rest, Moved
    <3>2. G = [F EXCEPT ![l] = Tail(F[l])]
      BY <1>2 DEF Dropped, Rest
    <3> HIDE DEF G, x
    <3> QED BY <1>0, <2>4, <2>5, <3>1, <3>2 DEF Extended
  <2> HIDE DEF G, x
  <2> DEFINE s == <<x>>
  <2>7. s \in Seq(S) /\ OnceIn(s) /\ Items(s) = {x}
    BY <2>3
  <2> HIDE DEF s
  <2>8. AllNew(s, G)
    BY <2>1, <2>7 DEF AllNew
  <2>9. /\ Extended(G, k, s) \in Family(P, S) /\ Once(Extended(G, k, s))
        /\ Content(Extended(G, k, s)) = Content(G) \cup Items(s)
    BY <2>1, <2>7, <2>8, ExtendedFacts
  <2> QED BY <2>1, <2>6, <2>7, <2>9 DEF s
<1> QED BY <1>1, <1>2

(* What is at each place stays of the kind that belongs there. *)
LEMMA ShiftTyped ==
  ASSUME NEW P, NEW A, NEW F, DOMAIN F = P, \A m \in P : F[m] \in Seq(A[m]),
         NEW l \in P, NEW k \in P, l # k, F[l] # <<>> => Head(F[l]) \in A[k]
  PROVE  /\ DOMAIN Shift(F, l, k) = P
         /\ \A m \in P : Shift(F, l, k)[m] \in Seq(A[m])
         /\ \A m \in P : m # l /\ m # k => Shift(F, l, k)[m] = F[m]
<1>1. Rest(F[l]) \in Seq(A[l])
  <2>1. F[l] # <<>> => Tail(F[l]) \in Seq(A[l])
    BY TailFacts
  <2> QED BY <2>1 DEF Rest
<1>2. Moved(F[k], F[l]) \in Seq(A[k])
  <2>1. F[l] # <<>> => Append(F[k], Head(F[l])) \in Seq(A[k])
    BY AppendFacts
  <2> QED BY <2>1 DEF Moved
<1> QED BY <1>1, <1>2 DEF Shift

(* A pop at one place leaves the family typed. *)
LEMMA DroppedTyped ==
  ASSUME NEW P, NEW A, NEW F, DOMAIN F = P, \A m \in P : F[m] \in Seq(A[m]),
         NEW l \in P
  PROVE  /\ DOMAIN Dropped(F, l) = P
         /\ \A m \in P : Dropped(F, l)[m] \in Seq(A[m])
<1>1. Rest(F[l]) \in Seq(A[l])
  <2>1. F[l] # <<>> => Tail(F[l]) \in Seq(A[l])
    BY TailFacts
  <2> QED BY <2>1 DEF Rest
<1> QED BY <1>1 DEF Dropped

(* A sequence pushed at one place leaves the family typed. *)
LEMMA ExtendedTyped ==
  ASSUME NEW P, NEW A, NEW F, DOMAIN F = P, \A m \in P : F[m] \in Seq(A[m]),
         NEW l \in P, NEW s \in Seq(A[l])
  PROVE  /\ DOMAIN Extended(F, l, s) = P
         /\ \A m \in P : Extended(F, l, s)[m] \in Seq(A[m])
<1>1. F[l] \o s \in Seq(A[l])
  BY ConcatFacts
<1> QED BY <1>1 DEF Extended

(* Emptying one place leaves the family typed. *)
LEMMA EmptiedTyped ==
  ASSUME NEW P, NEW A, NEW F, DOMAIN F = P, \A m \in P : F[m] \in Seq(A[m]),
         NEW l \in P
  PROVE  /\ DOMAIN Emptied(F, l) = P
         /\ \A m \in P : Emptied(F, l)[m] \in Seq(A[m])
<1>1. <<>> \in Seq(A[l])
  BY EmptySeq
<1> QED BY <1>1 DEF Emptied

-----------------------------------------------------------------------------
(* Types *)

(* The components share the operators of Tlm. *)
LEMMA SameOps ==
  /\ Host!Packet = Packet /\ Host!Cells = Cells
  /\ Sim!Packet = Packet /\ Sim!Payload = Payload /\ Sim!Cells = Cells
  /\ Sim!Slices = Slices
  /\ Lk!Payload = Payload /\ Sw!Payload = Payload /\ Mem!Payload = Payload
  /\ Sw!Addrs = Addrs /\ Mem!Addrs = Addrs /\ Mem!Cells = Cells
  /\ \A q : Sim!Rest(q) = Rest(q) /\ Mem!Rest(q) = Rest(q)
            /\ Sim!Front(q) = Front(q) /\ Mem!Front(q) = Front(q)
  /\ \A d, q : Mem!Moved(d, q) = Moved(d, q)
  /\ \A h, p : /\ Sim!ReadPayloads(h, p) = ReadPayloads(h, p)
               /\ Sim!WritePayloads(h, p) = WritePayloads(h, p)
<1>1. Host!Packet = Packet /\ Sim!Packet = Packet
  BY DEF Packet, Host!Packet, Sim!Packet
<1>2. Host!Slices = Slices /\ Sim!Slices = Slices /\ Lk!Slices = Slices
      /\ Sw!Slices = Slices /\ Mem!Slices = Slices
  BY DEF Slices, Host!Slices, Sim!Slices, Lk!Slices, Sw!Slices, Mem!Slices
<1>3. Host!Cells = Cells /\ Sim!Cells = Cells /\ Lk!Cells = Cells
      /\ Sw!Cells = Cells /\ Mem!Cells = Cells
  BY <1>2 DEF Cells, Host!Cells, Sim!Cells, Lk!Cells, Sw!Cells, Mem!Cells
<1>4. Sim!Addrs = Addrs /\ Lk!Addrs = Addrs /\ Sw!Addrs = Addrs /\ Mem!Addrs = Addrs
  BY <1>2 DEF Addrs, Sim!Addrs, Lk!Addrs, Sw!Addrs, Mem!Addrs
<1>5. Sim!Payload = Payload /\ Lk!Payload = Payload /\ Sw!Payload = Payload
      /\ Mem!Payload = Payload
  BY <1>3, <1>4 DEF Payload, Sim!Payload, Lk!Payload, Sw!Payload, Mem!Payload
<1>6. \A q : Sim!Rest(q) = Rest(q) /\ Mem!Rest(q) = Rest(q)
            /\ Sim!Front(q) = Front(q) /\ Mem!Front(q) = Front(q)
  BY DEF Rest, Sim!Rest, Mem!Rest, Front, Sim!Front, Mem!Front
<1>7. \A d, q : Mem!Moved(d, q) = Moved(d, q)
  BY DEF Moved, Mem!Moved
<1>8. \A h, p : /\ Sim!ReadPayloads(h, p) = ReadPayloads(h, p)
                /\ Sim!WritePayloads(h, p) = WritePayloads(h, p)
  BY DEF ReadPayloads, Sim!ReadPayloads, WritePayloads, Sim!WritePayloads
<1> QED BY <1>1, <1>2, <1>3, <1>4, <1>5, <1>6, <1>7, <1>8

(* What is missing for TypeOK. *)
LEMMA TypeInvIsType ==
  TypeInv /\ sync_queue \in [Hosts -> Seq(PktAddrs)] => TypeOK
<1> SUFFICES ASSUME TypeInv, sync_queue \in [Hosts -> Seq(PktAddrs)]
             PROVE  TypeOK
  OBVIOUS
<1>1. Host!TypeOK
  BY SameOps DEF TypeInv, HostTyped, Host!TypeOK
<1>2. Sim!TypeOK
  BY SameOps DEF TypeInv, ControlTyped, BurstsTyped, QueuesTyped, Sim!TypeOK
<1>3. Lk!TypeOK
  BY SameOps DEF TypeInv, LinkTyped, Lk!TypeOK
<1>4. Sw!TypeOK
  BY SameOps DEF TypeInv, SwitchTyped, Sw!TypeOK
<1>5. Mem!TypeOK
  BY SameOps DEF TypeInv, MemTyped, Mem!TypeOK
<1> QED BY <1>1, <1>2, <1>3, <1>4, <1>5 DEF TypeOK

(* The helpers on queues. *)
LEMMA QueueHelpers ==
  ASSUME NEW S, NEW q \in Seq(S), NEW d \in Seq(S)
  PROVE  /\ Rest(q) \in Seq(S) /\ Front(q) \in Seq(S)
         /\ Front(q) = IF q = <<>> THEN <<>> ELSE <<Head(q)>>
         /\ Len(Front(q)) = IF q = <<>> THEN 0 ELSE 1
         /\ Moved(d, q) = d \o Front(q) /\ Moved(d, q) \in Seq(S)
         /\ q # <<>> => Head(q) \in S /\ Tail(q) \in Seq(S)
                        /\ SubSeq(q, 2, Len(q)) = Tail(q)
         /\ SubSeq(q, 1, Len(q)) = q
<1>1. SubSeq(q, 1, Len(q)) = q
  BY SubSeqFull
<1>2. CASE q = <<>>
  <2>1. SubSeq(q, 1, 0) = <<>>
    BY SubSeqEmpty
  <2>2. Front(q) = <<>>
    BY <1>2, <2>1 DEF Front
  <2>3. d \o <<>> = d
    BY ConcatEmptySeq
  <2>4. <<>> \in Seq(S) /\ Len(<<>>) = 0
    BY EmptySeq
  <2>5. Rest(q) = q /\ Moved(d, q) = d
    BY <1>2 DEF Rest, Moved
  <2>6. Front(q) \in Seq(S) /\ Len(Front(q)) = 0
    BY <2>2, <2>4
  <2>7. Moved(d, q) = d \o Front(q)
    BY <2>2, <2>3, <2>5
  <2>8. Rest(q) \in Seq(S) /\ Moved(d, q) \in Seq(S)
    BY <2>5
  <2> QED BY <1>1, <1>2, <2>2, <2>6, <2>7, <2>8
<1>3. CASE q # <<>>
  <2>1. Head(q) \in S /\ Tail(q) \in Seq(S) /\ q[1] = Head(q) /\ Len(q) \in Nat \ {0}
    BY <1>3, TailFacts
  <2>2. SubSeq(q, 1, 1) = <<q[1]>> \o SubSeq(q, 2, 1) /\ SubSeq(q, 2, 1) = <<>>
    BY <2>1, SubSeqRecursiveFirst, SubSeqEmpty
  <2>3. <<q[1]>> \in Seq(S) /\ Len(<<q[1]>>) = 1
    BY <2>1
  <2>4. Front(q) = <<Head(q)>>
    BY <1>3, <2>1, <2>2, <2>3, ConcatEmptySeq DEF Front
  <2>5. d \o <<Head(q)>> = Append(d, Head(q)) /\ Append(d, Head(q)) \in Seq(S)
    BY <2>1, AppendIsConcat, AppendProperties
  <2>6. SubSeq(q, 2, Len(q)) = Tail(q)
    BY <1>3, TailIsSubSeq
  <2> QED BY <1>1, <1>3, <2>1, <2>3, <2>4, <2>5, <2>6 DEF Rest, Moved
<1> QED BY <1>2, <1>3

(* What a packet is cut into. *)
LEMMA CutTyped ==
  ASSUME NEW h \in Hosts, NEW p \in Packet
  PROVE  /\ p.type = "R" => /\ ReadPayloads(h, p) \in Seq(Payload)
                            /\ Len(ReadPayloads(h, p)) = PayloadNum
         /\ p.type = "W" => /\ WritePayloads(h, p) \in Seq(Payload)
                            /\ Len(WritePayloads(h, p)) = PayloadNum
<1>1. PayloadNum \in Nat \ {0} /\ PktAddrs \subseteq Nat
  BY TlmAssumption
<1>2. \A i \in 1 .. PayloadNum : i - 1 \in Slices
  BY <1>1 DEF Slices
<1>3. \A a \in PktAddrs, i \in 1 .. PayloadNum : a + i - 1 = a + (i - 1) /\ a + i - 1 \in Addrs
  BY <1>1, <1>2 DEF Addrs
<1>4. ASSUME p.type = "R"
      PROVE  /\ ReadPayloads(h, p) \in Seq(Payload)
             /\ Len(ReadPayloads(h, p)) = PayloadNum
  <2>1. p.addr \in PktAddrs
    BY <1>4 DEF Packet
  <2>2. \A i \in 1 .. PayloadNum :
          [cmd |-> "R", addr |-> p.addr + i - 1, id |-> h, data |-> NoData] \in Payload
    BY <1>3, <2>1 DEF Payload, Cells
  <2> QED BY <1>1, <2>2 DEF ReadPayloads
<1>5. ASSUME p.type = "W"
      PROVE  /\ WritePayloads(h, p) \in Seq(Payload)
             /\ Len(WritePayloads(h, p)) = PayloadNum
  <2>1. p.addr \in PktAddrs /\ p.tag \in Tags
    BY <1>5 DEF Packet
  <2>2. \A i \in 1 .. PayloadNum :
          [cmd |-> "W", addr |-> p.addr + i - 1, id |-> h,
           data |-> <<p.tag, i - 1>>] \in Payload
    BY <1>2, <1>3, <2>1 DEF Payload, Cells
  <2> QED BY <1>1, <2>2 DEF WritePayloads
<1> QED BY <1>4, <1>5

(* What the handlers of a packet do. *)
LEMMA HandleReadDoes ==
  ASSUME NEW h \in Hosts, Sim!HandleRead(h)
  PROVE  /\ pc[h] = "read" /\ pc' = [pc EXCEPT ![h] = "poll"]
         /\ req_done' = [req_done EXCEPT ![h] = FALSE]
         /\ r_queue' = [r_queue EXCEPT ![h] = r_queue[h] \o ReadPayloads(h, pkt[h])]
         /\ UNCHANGED <<pkt, sync, active_cores, spinner, stopped>>
         /\ UNCHANGED <<w_queue, rack_queue, wack_queue, rack_incoming, wack_incoming>>
         /\ UNCHANGED <<sync_queue, packet_data, wack_num, outstanding>>
<1>1. r_queue' = [r_queue EXCEPT ![h] = r_queue[h] \o ReadPayloads(h, pkt[h])]
  BY SameOps DEF Sim!HandleRead
<1> QED BY <1>1 DEF Sim!HandleRead, Sim!Step, Sim!acks, Sim!bursts, Sim!global

(* What SIMWrapper::handle_packet changes for a write packet. *)
LEMMA HandleWriteDoes ==
  ASSUME NEW h \in Hosts, Sim!HandleWrite(h)
  PROVE  /\ pc[h] = "write" /\ pc' = [pc EXCEPT ![h] = "poll"]
         /\ req_done' = [req_done EXCEPT ![h] = FALSE]
         /\ w_queue' = [w_queue EXCEPT ![h] = w_queue[h] \o WritePayloads(h, pkt[h])]
         /\ sync_queue' = [sync_queue EXCEPT ![h] = Append(sync_queue[h], pkt[h].addr)]
         /\ UNCHANGED <<pkt, sync, active_cores, spinner, stopped>>
         /\ UNCHANGED <<r_queue, rack_queue, wack_queue, rack_incoming, wack_incoming>>
         /\ UNCHANGED <<packet_data, wack_num, outstanding>>
<1>1. w_queue' = [w_queue EXCEPT ![h] = w_queue[h] \o WritePayloads(h, pkt[h])]
  BY SameOps DEF Sim!HandleWrite
<1> QED BY <1>1 DEF Sim!HandleWrite, Sim!Step, Sim!acks, Sim!global

(* What a falling edge changes in a wrapper: its queues, its bursts, its control
   state. *)
LEMMA NegedgeDoes ==
  ASSUME NEW h \in Hosts, SimNegedge(h), TypeInv
  PROVE  NegedgeQueues(h) /\ NegedgeBursts(h) /\ NegedgeControl(h)
<1>1. Sim!ClockNegedge(h)
  BY DEF SimNegedge
<1>2. Lk!TakeRequests(h, Front(r_queue[h]), Front(w_queue[h]))
      /\ Host!TakeResponses(h, Response(h)) /\ UNCHANGED <<switchVars, memVars>>
  BY DEF SimNegedge
<1>3. /\ r_queue' = [r_queue EXCEPT ![h] = Rest(r_queue[h])]
      /\ w_queue' = [w_queue EXCEPT ![h] = Rest(w_queue[h])]
      /\ rack_queue' = [rack_queue EXCEPT ![h] = Rest(rack_queue[h])]
      /\ wack_queue' = [wack_queue EXCEPT ![h] = Rest(wack_queue[h])]
      /\ UNCHANGED <<rack_incoming, wack_incoming>>
  BY <1>1, SameOps DEF Sim!ClockNegedge
<1>4. NegedgeQueues(h)
  BY <1>2, <1>3 DEF NegedgeQueues, Lk!TakeRequests
<1>5. NegedgeBursts(h)
  BY <1>1, SameOps DEF Sim!ClockNegedge, Sim!Popped, NegedgeBursts
<1>6. NegedgeControl(h)
  BY <1>1, <1>2 DEF Sim!ClockNegedge, Host!TakeResponses, NegedgeControl
<1> QED BY <1>4, <1>5, <1>6

(* What a rising edge changes in a wrapper: it takes the acks its port has handed
   over. *)
LEMMA PosedgeDoes ==
  ASSUME NEW h \in Hosts, SimPosedge(h)
  PROVE  PosedgeQueues(h) /\ UNCHANGED burstVars /\ UNCHANGED controlVars
<1>1. Sim!ClockPosedge(h) /\ Lk!Edge(h) /\ UNCHANGED <<hostVars, switchVars, memVars>>
  BY DEF SimPosedge
<1>2. PosedgeQueues(h)
  BY <1>1 DEF PosedgeQueues, Sim!ClockPosedge, Sim!requests, Lk!Edge
<1> QED BY <1>1, <1>2 DEF Sim!ClockPosedge, Sim!bursts, Sim!global, burstVars, controlVars

(* What an upstream port changes when the controller takes a request from it. *)
LEMMA ForwardDoes ==
  ASSUME NEW h \in Hosts, LinkForward(h), TypeInv
  PROVE  /\ UNCHANGED <<simVars, hostVars, memVars>>
         /\ UNCHANGED <<bw_r, bw_w, paced_r, paced_w, c_rack, c_wack>>
         /\ \/ /\ fw_r[h] # <<>>
               /\ fw_r' = [fw_r EXCEPT ![h] = Tail(fw_r[h])]
               /\ c_r' = Append(c_r, Head(fw_r[h]))
               /\ r_trans_id' = [r_trans_id EXCEPT ![Head(fw_r[h]).addr] = h]
               /\ UNCHANGED <<fw_w, c_w, w_trans_id>>
            \/ /\ fw_w[h] # <<>>
               /\ fw_w' = [fw_w EXCEPT ![h] = Tail(fw_w[h])]
               /\ c_w' = Append(c_w, Head(fw_w[h]))
               /\ w_trans_id' = [w_trans_id EXCEPT ![Head(fw_w[h]).addr] = h]
               /\ UNCHANGED <<fw_r, c_r, r_trans_id>>
<1>1. fw_r[h] \in Seq(Payload) /\ fw_w[h] \in Seq(Payload)
      /\ DOMAIN fw_r = Hosts /\ DOMAIN fw_w = Hosts
      /\ fw_r = [g \in Hosts |-> fw_r[g]] /\ fw_w = [g \in Hosts |-> fw_w[g]]
  BY DEF TypeInv, LinkTyped
<1>2. /\ SubSeq(fw_r[h], 1, Len(fw_r[h])) = fw_r[h]
      /\ SubSeq(fw_w[h], 1, Len(fw_w[h])) = fw_w[h]
      /\ fw_r[h] # <<>> => SubSeq(fw_r[h], 2, Len(fw_r[h])) = Tail(fw_r[h])
      /\ fw_w[h] # <<>> => SubSeq(fw_w[h], 2, Len(fw_w[h])) = Tail(fw_w[h])
  BY <1>1, QueueHelpers
<1>3. /\ 1 <= Len(fw_r[h]) => fw_r[h] # <<>>
      /\ 1 <= Len(fw_w[h]) => fw_w[h] # <<>>
  BY <1>1, SeqFacts
<1>4. UNCHANGED <<hostVars, simVars, memVars>>
  BY DEF LinkForward
<1>5. CASE Lk!SendRequests(h, 1, 0) /\ Sw!TakeRead(h, Head(fw_r[h]))
  <2>1. fw_r[h] # <<>>
    BY <1>3, <1>5 DEF Lk!SendRequests
  <2>2. fw_r' = [fw_r EXCEPT ![h] = SubSeq(fw_r[h], 2, Len(fw_r[h]))]
    BY <1>5 DEF Lk!SendRequests
  <2>3. fw_w' = [fw_w EXCEPT ![h] = SubSeq(fw_w[h], 1, Len(fw_w[h]))]
    BY <1>5 DEF Lk!SendRequests
  <2>4. fw_w' = fw_w
    BY <1>1, <1>2, <2>3
  <2>5. UNCHANGED <<bw_r, bw_w, paced_r, paced_w>>
    BY <1>5 DEF Lk!SendRequests
  <2> QED BY <1>2, <1>4, <1>5, <2>1, <2>2, <2>4, <2>5 DEF Sw!TakeRead
<1>6. CASE Lk!SendRequests(h, 0, 1) /\ Sw!TakeWrite(h, Head(fw_w[h]))
  <2>1. fw_w[h] # <<>>
    BY <1>3, <1>6 DEF Lk!SendRequests
  <2>2. fw_w' = [fw_w EXCEPT ![h] = SubSeq(fw_w[h], 2, Len(fw_w[h]))]
    BY <1>6 DEF Lk!SendRequests
  <2>3. fw_r' = [fw_r EXCEPT ![h] = SubSeq(fw_r[h], 1, Len(fw_r[h]))]
    BY <1>6 DEF Lk!SendRequests
  <2>4. fw_r' = fw_r
    BY <1>1, <1>2, <2>3
  <2>5. UNCHANGED <<bw_r, bw_w, paced_r, paced_w>>
    BY <1>6 DEF Lk!SendRequests
  <2> QED BY <1>2, <1>4, <1>6, <2>1, <2>2, <2>4, <2>5 DEF Sw!TakeWrite
<1> QED BY <1>5, <1>6 DEF LinkForward

(* What the controller changes when it sends a request to the memory. *)
LEMMA SwitchForwardDoes ==
  ASSUME SwitchForward
  PROVE  /\ UNCHANGED <<simVars, hostVars, linkVars>>
         /\ UNCHANGED <<c_rack, c_wack, r_trans_id, w_trans_id, mem_request, dram,
                        m_rack, m_wack, m_outstanding, active_dram>>
         /\ \/ /\ c_r # <<>>
               /\ c_r' = Tail(c_r) /\ m_r' = Append(m_r, Head(c_r))
               /\ UNCHANGED <<c_w, m_w, mem_data>>
            \/ /\ c_w # <<>>
               /\ c_w' = Tail(c_w) /\ m_w' = Append(m_w, Head(c_w))
               /\ mem_data' = [mem_data EXCEPT ![Head(c_w).addr] = Head(c_w).data]
               /\ UNCHANGED <<c_r, m_r>>
<1>1. UNCHANGED <<hostVars, simVars, linkVars>>
  BY DEF SwitchForward
<1>2. CASE Sw!SendRead /\ Mem!TakeRead(Head(c_r))
  BY <1>1, <1>2 DEF Sw!SendRead, Mem!TakeRead
<1>3. CASE Sw!SendWrite /\ Mem!TakeWrite(Head(c_w))
  BY <1>1, <1>3 DEF Sw!SendWrite, Mem!TakeWrite
<1> QED BY <1>2, <1>3 DEF SwitchForward

(* What a rising edge changes in the memory wrapper. *)
LEMMA MemPosedgeDoes ==
  ASSUME MemPosedge
  PROVE  /\ UNCHANGED <<simVars, hostVars, linkVars, switchVars>>
         /\ mem_request' = Moved(Moved(mem_request, m_r), m_w)
         /\ m_r' = Rest(m_r) /\ m_w' = Rest(m_w)
         /\ UNCHANGED <<dram, m_rack, m_wack, m_outstanding, mem_data, active_dram>>
BY SameOps DEF MemPosedge, Mem!ClockPosedge

(* What a turn of the DRAM thread changes: at most one command completes. *)
LEMMA SimulateDramDoes ==
  ASSUME SimulateDram
  PROVE  /\ UNCHANGED <<simVars, hostVars, linkVars, switchVars, m_r, m_w, mem_data>>
         /\ \E done :
              /\ done = {} \/ \E p \in dram : done = {p}
              /\ m_rack' = m_rack \o Mem!Acks(done, "R")
              /\ m_wack' = m_wack \o Mem!Acks(done, "W")
              /\ dram' = (dram \ done) \cup Items(mem_request)
         /\ mem_request' = <<>>
         /\ m_outstanding' = m_outstanding + Len(mem_request)
         /\ active_dram = 1 /\ active_dram' = IF DramEnds THEN 0 ELSE 1
<1>1. PICK done \in Mem!Completed : Mem!SimulateDram(done)
  BY DEF SimulateDram
<1>2. UNCHANGED <<simVars, hostVars, linkVars, switchVars>>
  BY DEF SimulateDram
<1>3. done = {} \/ \E p \in dram : done = {p}
  BY <1>1 DEF Mem!Completed
<1> QED BY <1>1, <1>2, <1>3 DEF Mem!SimulateDram, Items, DramEnds

(* The completed command, as at most one ack of its kind. *)
LEMMA AcksAre ==
  /\ \A c : Mem!Acks({}, c) = <<>>
  /\ \A p, c : Mem!Acks({p}, c) = IF p.cmd = c THEN <<p>> ELSE <<>>
<1>1. \A c : Mem!Acks({}, c) = <<>>
  BY DEF Mem!Acks
<1>2. ASSUME NEW p, NEW c
      PROVE  Mem!Acks({p}, c) = IF p.cmd = c THEN <<p>> ELSE <<>>
  <2>1. (CHOOSE q \in {p} : TRUE) = p
    OBVIOUS
  <2> QED BY <2>1 DEF Mem!Acks
<1> QED BY <1>1, <1>2

(* What a falling edge changes in the memory wrapper: an ack of each kind leaves.
   *)
LEMMA MemNegedgeDoes ==
  ASSUME MemNegedge
  PROVE  /\ UNCHANGED <<simVars, hostVars, linkVars>>
         /\ m_rack' = Rest(m_rack) /\ m_wack' = Rest(m_wack)
         /\ c_rack' = c_rack \o Front(m_rack) /\ c_wack' = c_wack \o Front(m_wack)
         /\ m_outstanding' = m_outstanding - Len(Front(m_rack)) - Len(Front(m_wack))
         /\ UNCHANGED <<c_r, c_w, r_trans_id, w_trans_id, m_r, m_w, mem_request,
                        dram, mem_data, active_dram>>
<1>1. Mem!ClockNegedge /\ Sw!TakeAcks(Front(m_rack), Front(m_wack))
      /\ UNCHANGED <<hostVars, simVars, linkVars>>
  BY DEF MemNegedge
<1>2. m_outstanding' = m_outstanding - Len(Front(m_rack)) - Len(Front(m_wack))
  BY <1>1, SameOps DEF Mem!ClockNegedge
<1>3. m_rack' = Rest(m_rack) /\ m_wack' = Rest(m_wack)
  BY <1>1, SameOps DEF Mem!ClockNegedge
<1> QED BY <1>1, <1>2, <1>3 DEF Mem!ClockNegedge, Sw!TakeAcks

(* What the controller changes when it hands an ack to the port its table names.
   *)
LEMMA SwitchBackwardDoes ==
  ASSUME SwitchBackward, TypeInv
  PROVE  /\ UNCHANGED <<simVars, hostVars, memVars>>
         /\ UNCHANGED <<fw_r, fw_w, paced_r, paced_w, c_r, c_w, r_trans_id, w_trans_id>>
         /\ \/ /\ c_rack # <<>> /\ c_rack' = Tail(c_rack)
               /\ bw_r' = [bw_r EXCEPT ![r_trans_id[Head(c_rack).addr]] =
                             Append(bw_r[r_trans_id[Head(c_rack).addr]], Head(c_rack))]
               /\ UNCHANGED <<bw_w, c_wack>>
            \/ /\ c_wack # <<>> /\ c_wack' = Tail(c_wack)
               /\ bw_w' = [bw_w EXCEPT ![w_trans_id[Head(c_wack).addr]] =
                             Append(bw_w[w_trans_id[Head(c_wack).addr]], Head(c_wack))]
               /\ UNCHANGED <<bw_r, c_rack>>
<1>1. UNCHANGED <<hostVars, simVars, memVars>>
  BY DEF SwitchBackward
<1>2. CASE Sw!SendRack /\ Lk!TakeRack(Sw!RackPort, Head(c_rack))
  BY <1>1, <1>2 DEF Sw!SendRack, Lk!TakeRack, Sw!RackPort
<1>3. CASE Sw!SendWacks(1) /\ Lk!TakeWack(Sw!WackPort, Head(c_wack))
  <2>1. c_wack \in Seq(Payload)
    BY DEF TypeInv, SwitchTyped
  <2>2. c_wack # <<>>
    BY <1>3, <2>1, SeqFacts DEF Sw!SendWacks
  <2>3. SubSeq(c_wack, 2, Len(c_wack)) = Tail(c_wack)
    BY <2>1, <2>2, QueueHelpers
  <2>4. c_wack' = SubSeq(c_wack, 2, Len(c_wack))
    BY <1>3 DEF Sw!SendWacks
  <2>5. c_wack' = Tail(c_wack)
    BY <2>3, <2>4
  <2> QED BY <1>1, <1>3, <2>2, <2>5 DEF Sw!SendWacks, Lk!TakeWack, Sw!WackPort
<1> QED BY <1>2, <1>3 DEF SwitchBackward

(* What an upstream port changes when it hands an ack to its wrapper. *)
LEMMA BackwardDoes ==
  ASSUME NEW h \in Hosts, LinkBackward(h)
  PROVE  /\ UNCHANGED <<hostVars, switchVars, memVars>>
         /\ UNCHANGED burstVars /\ UNCHANGED controlVars
         /\ UNCHANGED <<r_queue, w_queue, rack_queue, wack_queue, fw_r, fw_w>>
         /\ \/ /\ bw_r[h] # <<>> /\ paced_r[h]
               /\ bw_r' = [bw_r EXCEPT ![h] = Tail(bw_r[h])]
               /\ paced_r' = [paced_r EXCEPT ![h] = FALSE]
               /\ rack_incoming' = [rack_incoming EXCEPT ![h] = Head(bw_r[h])]
               /\ UNCHANGED <<bw_w, paced_w, wack_incoming>>
            \/ /\ bw_w[h] # <<>> /\ paced_w[h]
               /\ bw_w' = [bw_w EXCEPT ![h] = Tail(bw_w[h])]
               /\ paced_w' = [paced_w EXCEPT ![h] = FALSE]
               /\ wack_incoming' = [wack_incoming EXCEPT ![h] = Head(bw_w[h])]
               /\ UNCHANGED <<bw_r, paced_r, rack_incoming>>
<1>1. UNCHANGED <<hostVars, switchVars, memVars>>
  BY DEF LinkBackward
<1>2. CASE Lk!SendRack(h) /\ Sim!TakeRack(h, Head(bw_r[h]))
  BY <1>1, <1>2 DEF Lk!SendRack, Sim!TakeRack, Sim!requests, Sim!bursts, Sim!global,
                    burstVars, controlVars
<1>3. CASE Lk!SendWack(h) /\ Sim!TakeWack(h, Head(bw_w[h]))
  BY <1>1, <1>3 DEF Lk!SendWack, Sim!TakeWack, Sim!requests, Sim!bursts, Sim!global,
                    burstVars, controlVars
<1> QED BY <1>2, <1>3 DEF LinkBackward

(* The steps of the system, grouped by what they do to the payloads. *)
LEMMA NextCases ==
  ASSUME [Next]_vars
  PROVE  \/ UNCHANGED vars
         \/ \E h \in Hosts : \/ Silent(h) \/ ReadCut(h) \/ WriteCut(h)
                             \/ SimPosedge(h) \/ SimNegedge(h)
                             \/ LinkForward(h) \/ LinkBackward(h)
         \/ SwitchForward \/ MemPosedge \/ SimulateDram \/ MemNegedge
         \/ SwitchBackward
<1> DEFINE Thread(h) == \/ Sim!Spin(h) \/ Sim!CheckSignal(h) \/ Sim!FreeSignal(h)
                        \/ Sim!HandleTerminate(h) \/ Sim!LeaveCore(h) \/ Sim!Stop(h)
           Same == UNCHANGED <<r_queue, w_queue, rack_queue, wack_queue,
                               rack_incoming, wack_incoming>> /\ UNCHANGED burstVars
<1>1. ASSUME NEW h \in Hosts, Thread(h)
      PROVE  Same
  <2>1. CASE Sim!Spin(h)
    BY <2>1 DEF Sim!Spin, Sim!requests, Sim!acks, Sim!bursts, burstVars
  <2>2. CASE Sim!CheckSignal(h)
    BY <2>2 DEF Sim!CheckSignal, Sim!requests, Sim!acks, Sim!bursts, burstVars
  <2>3. CASE Sim!FreeSignal(h)
    BY <2>3 DEF Sim!FreeSignal, Sim!requests, Sim!acks, Sim!bursts, burstVars
  <2>4. CASE Sim!HandleTerminate(h)
    BY <2>4 DEF Sim!HandleTerminate, Sim!requests, Sim!acks, Sim!bursts, burstVars
  <2>5. CASE Sim!LeaveCore(h)
    BY <2>5 DEF Sim!LeaveCore, Sim!requests, Sim!acks, Sim!bursts, burstVars
  <2>6. CASE Sim!Stop(h)
    BY <2>6 DEF Sim!Stop, Sim!requests, Sim!acks, Sim!bursts, burstVars
  <2> QED BY <1>1, <2>1, <2>2, <2>3, <2>4, <2>5, <2>6
<1>2. ASSUME NEW h \in Hosts, WrapperAlone(h)
      PROVE  Silent(h) \/ ReadCut(h) \/ WriteCut(h)
  <2>1. UNCHANGED <<hostVars, linkVars, switchVars, memVars>>
        /\ (Thread(h) \/ Sim!HandleRead(h) \/ Sim!HandleWrite(h))
    BY <1>2 DEF WrapperAlone
  <2>2. CASE Thread(h)
    BY <1>1, <2>1, <2>2 DEF Silent, ThreadAlone, payloadVars
  <2> QED BY <2>1, <2>2 DEF ReadCut, WriteCut
<1>3. ASSUME NEW h \in Hosts, HostStep(h) \/ Receive(h)
      PROVE  Silent(h)
  <2>1. CASE Send(h)
    BY <2>1 DEF Send, Silent, simVars, payloadVars, burstVars
  <2>2. CASE GetResponse(h)
    BY <2>2 DEF GetResponse, Silent, simVars, payloadVars, burstVars
  <2>3. CASE Receive(h)
    BY <2>3 DEF Receive, Sim!Receive, Sim!requests, Sim!acks, Sim!bursts,
                Silent, payloadVars, burstVars
  <2> QED BY <1>3, <2>1, <2>2, <2>3 DEF HostStep
<1>4. Finished => UNCHANGED vars
  BY DEF Finished
<1> QED BY <1>2, <1>3, <1>4 DEF Next, KernelStep

(* A step keeps the hosts' traces and packet buffers typed. *)
LEMMA HostTypedStep == TypeInv /\ [Next]_vars => HostTyped'
<1> SUFFICES ASSUME TypeInv, [Next]_vars
             PROVE  HostTyped'
  OBVIOUS
<1> USE DEF HostTyped
<1>0. HostTyped /\ ControlTyped /\ BurstsTyped /\ MemTyped /\ QueuesTyped
  BY DEF TypeInv
<1>1. ASSUME UNCHANGED hostVars PROVE HostTyped'
  BY <1>0, <1>1 DEF hostVars
<1>2. ASSUME NEW h \in Hosts, Silent(h) PROVE HostTyped'
  <2>1. CASE Send(h)
    <3>1. Head(trace[h]) \in Packet /\ Tail(trace[h]) \in Seq(Packet)
          /\ Append(toSim[h], Head(trace[h])) \in Seq(Packet)
      <4>1. trace[h] \in Seq(Packet) /\ trace[h] # <<>> /\ toSim[h] \in Seq(Packet)
        BY <1>0, <2>1 DEF Send, Host!Send
      <4> QED BY <4>1, TailFacts, AppendFacts
    <3>2. {p \in {Head(trace[h])} : p.type = "R"} \in SUBSET Packet
      BY <3>1
    <3> QED BY <1>0, <2>1, <3>1, <3>2 DEF Send, Host!Send
  <2>2. CASE GetResponse(h)
    <3>1. Tail(toHost[h]) \in Seq(Seq(Cells))
      BY <1>0, <2>2, TailFacts DEF GetResponse, Host!GetResponse
    <3> QED BY <1>0, <2>2, <3>1 DEF GetResponse, Host!GetResponse
  <2>3. CASE Receive(h)
    <3>1. Tail(toSim[h]) \in Seq(Packet)
      BY <1>0, <2>3, TailFacts DEF Receive, Host!GiveRequest
    <3> QED BY <1>0, <2>3, <3>1 DEF Receive, Host!GiveRequest
  <2>4. CASE ThreadAlone(h)
    BY <1>1, <2>4 DEF ThreadAlone
  <2> QED BY <1>2, <2>1, <2>2, <2>3, <2>4 DEF Silent
<1>3. ASSUME NEW h \in Hosts, SimNegedge(h) PROVE HostTyped'
  <2>1. Sim!Gathered(h) \in Seq(Cells)
    <3>1. packet_data[h] \in Seq(Cells) /\ rack_queue[h] \in Seq(Payload)
      BY <1>0 DEF BurstsTyped, QueuesTyped
    <3>2. rack_queue[h] # <<>> => mem_data[Head(rack_queue[h]).addr] \in Cells
      <4>1. rack_queue[h] # <<>> => Head(rack_queue[h]) \in Payload
        BY <3>1, TailFacts
      <4> QED BY <1>0, <4>1 DEF MemTyped, Payload
    <3> QED BY <3>1, <3>2, AppendFacts DEF Sim!Gathered
  <2>2. Response(h) \in Seq(Seq(Cells))
    BY <2>1, EmptySeq DEF Response
  <2>3. toHost[h] \o Response(h) \in Seq(Seq(Cells))
    BY <1>0, <2>2, ConcatFacts
  <2>4. NegedgeControl(h)
    BY <1>3, NegedgeDoes
  <2> QED BY <1>0, <2>3, <2>4 DEF NegedgeControl
<1>4. UNCHANGED vars => UNCHANGED hostVars
  BY DEF vars
<1>5. \A h \in Hosts :
        /\ ReadCut(h) \/ WriteCut(h) => UNCHANGED hostVars
        /\ SimPosedge(h) \/ LinkForward(h) \/ LinkBackward(h) => UNCHANGED hostVars
  BY DEF ReadCut, WriteCut, SimPosedge, LinkForward, LinkBackward
<1>6. SwitchForward \/ MemPosedge \/ SimulateDram \/ MemNegedge \/ SwitchBackward
        => UNCHANGED hostVars
  BY DEF SwitchForward, MemPosedge, SimulateDram, MemNegedge, SwitchBackward
<1> QED BY <1>1, <1>2, <1>3, <1>4, <1>5, <1>6, NextCases

(* A step keeps the threads' control state typed. *)
LEMMA ControlTypedStep == TypeInv /\ [Next]_vars => ControlTyped'
<1> SUFFICES ASSUME TypeInv, [Next]_vars
             PROVE  ControlTyped'
  OBVIOUS
<1> USE DEF ControlTyped
<1>0. HostTyped /\ ControlTyped
  BY DEF TypeInv
<1>1. ASSUME UNCHANGED <<pc, pkt, req_done, sync, active_cores, spinner, stopped>>
      PROVE  ControlTyped'
  BY <1>0, <1>1
<1>2. ASSUME NEW h \in Hosts, Silent(h) PROVE ControlTyped'
  <2>1. CASE Send(h)
    BY <1>1, <2>1 DEF Send, simVars
  <2>2. CASE GetResponse(h)
    BY <1>1, <2>2 DEF GetResponse, simVars
  <2>3. CASE Receive(h)
    <3>1. Head(toSim[h]) \in Packet
      BY <1>0, <2>3, TailFacts DEF HostTyped, Receive, Host!GiveRequest
    <3> DEFINE p == Head(toSim[h])
    <3>2. /\ pc' = [pc EXCEPT ![h] = Sim!Handler(p)]
          /\ pkt' = [pkt EXCEPT ![h] = p] /\ spinner' = NoHost
          /\ UNCHANGED <<req_done, sync, active_cores, stopped>>
      BY <2>3 DEF Receive, Sim!Receive
    <3>3. /\ Sim!Handler(p) \in {"sync", "write", "terminate"}
          /\ Sim!Handler(p) = "sync" => p.type = "R"
          /\ Sim!Handler(p) = "write" => p.type = "W"
          /\ Sim!Handler(p) = "terminate" => p.type = "T"
      BY <3>1 DEF Sim!Handler, Packet
    <3>4. p \in Packet
      BY <3>1
    <3> HIDE DEF p
    <3>5. \A g \in Hosts : /\ pc'[g] = IF g = h THEN Sim!Handler(p) ELSE pc[g]
                           /\ pkt'[g] = IF g = h THEN p ELSE pkt[g]
      BY <1>0, <3>2
    <3>6. \A g \in Hosts : /\ pc'[g] \in {"sync", "free", "read"} => pkt'[g].type = "R"
                           /\ pc'[g] = "write" => pkt'[g].type = "W"
                           /\ pc'[g] = "terminate" => pkt'[g].type = "T"
      BY <1>0, <3>3, <3>5
    <3>7. pc' \in [Hosts -> {"first", "poll", "sync", "free", "read", "write",
                            "terminate", "exiting", "exited"}]
      BY <1>0, <3>2, <3>3
    <3>8. pkt' \in [Hosts -> Packet]
      BY <1>0, <3>2, <3>4
    <3> QED BY <1>0, <3>2, <3>6, <3>7, <3>8
  <2>4. CASE Sim!Spin(h)
    BY <1>0, <2>4 DEF Sim!Spin
  <2>5. CASE Sim!CheckSignal(h)
    BY <1>0, <2>5 DEF Sim!CheckSignal, Sim!Step, Sim!global
  <2>6. CASE Sim!FreeSignal(h)
    BY <1>0, <2>6 DEF Sim!FreeSignal, Sim!Step
  <2>7. CASE Sim!HandleTerminate(h)
    BY <1>0, <2>7 DEF Sim!HandleTerminate, Sim!Step, Sim!global
  <2>8. CASE Sim!LeaveCore(h)
    BY <1>0, <2>8 DEF Sim!LeaveCore, Sim!Step
  <2>9. CASE Sim!Stop(h)
    BY <1>0, <2>9 DEF Sim!Stop
  <2> QED BY <1>2, <2>1, <2>2, <2>3, <2>4, <2>5, <2>6, <2>7, <2>8, <2>9
          DEF Silent, ThreadAlone
<1>3. ASSUME NEW h \in Hosts, ReadCut(h) PROVE ControlTyped'
  BY <1>0, <1>3, HandleReadDoes DEF ReadCut
<1>4. ASSUME NEW h \in Hosts, WriteCut(h) PROVE ControlTyped'
  <2>1. /\ pc' = [pc EXCEPT ![h] = "poll"] /\ req_done' = [req_done EXCEPT ![h] = FALSE]
        /\ UNCHANGED <<pkt, sync, active_cores, spinner, stopped>>
    BY <1>4, HandleWriteDoes DEF WriteCut
  <2> QED BY <1>0, <2>1
<1>5. ASSUME NEW h \in Hosts, SimNegedge(h) PROVE ControlTyped'
  <2>1. NegedgeControl(h)
    BY <1>5, NegedgeDoes
  <2>2. Sim!ReadComplete(h) \in BOOLEAN
    BY DEF Sim!ReadComplete
  <2>3. sync' \in [PktAddrs -> BOOLEAN]
    BY <1>0, <2>1 DEF NegedgeControl
  <2>4. req_done' \in [Hosts -> BOOLEAN]
    BY <1>0, <2>1, <2>2 DEF NegedgeControl
  <2> QED BY <1>0, <2>1, <2>3, <2>4 DEF NegedgeControl
<1>6. ASSUME NEW h \in Hosts, SimPosedge(h) \/ LinkForward(h) \/ LinkBackward(h)
      PROVE  ControlTyped'
  <2>1. SimPosedge(h) \/ LinkBackward(h) => UNCHANGED controlVars
    BY PosedgeDoes, BackwardDoes
  <2>2. LinkForward(h) => UNCHANGED simVars
    BY DEF LinkForward
  <2> QED BY <1>1, <1>6, <2>1, <2>2 DEF controlVars, simVars
<1>7. UNCHANGED vars \/ SwitchForward \/ MemPosedge \/ SimulateDram \/ MemNegedge
        \/ SwitchBackward => UNCHANGED simVars
  BY DEF vars, SwitchForward, MemPosedge, SimulateDram, MemNegedge, SwitchBackward
<1>8. UNCHANGED simVars => ControlTyped'
  BY <1>1 DEF simVars
<1> QED BY <1>2, <1>3, <1>4, <1>5, <1>6, <1>7, <1>8, NextCases

(* A step keeps the bursts and the synchronisation flags typed. *)
LEMMA BurstsTypedStep == TypeInv /\ [Next]_vars => BurstsTyped'
<1> SUFFICES ASSUME TypeInv, [Next]_vars
             PROVE  BurstsTyped'
  OBVIOUS
<1> USE DEF BurstsTyped
<1>0. BurstsTyped /\ QueuesTyped /\ MemTyped
  BY DEF TypeInv
<1>1. ASSUME UNCHANGED burstVars PROVE BurstsTyped'
  BY <1>0, <1>1 DEF burstVars
<1>2. ASSUME NEW h \in Hosts, ReadCut(h) \/ WriteCut(h) PROVE BurstsTyped'
  <2>1. CASE ReadCut(h)
    BY <1>0, <2>1, HandleReadDoes DEF ReadCut
  <2>2. CASE WriteCut(h)
    BY <1>0, <2>2, HandleWriteDoes DEF WriteCut
  <2> QED BY <1>2, <2>1, <2>2
<1>3. ASSUME NEW h \in Hosts, SimNegedge(h) PROVE BurstsTyped'
  <2>1. NegedgeBursts(h)
    BY <1>3, NegedgeDoes
  <2>2. /\ r_queue[h] \in Seq(Payload) /\ w_queue[h] \in Seq(Payload)
        /\ rack_queue[h] \in Seq(Payload) /\ wack_queue[h] \in Seq(Payload)
        /\ packet_data[h] \in Seq(Cells) /\ wack_num[h] \in Slices
        /\ outstanding[h] \in Int
    BY <1>0 DEF QueuesTyped
  <2>3. \A q \in Seq(Payload) : Len(Front(q)) = IF q = <<>> THEN 0 ELSE 1
    BY QueueHelpers
  <2>4. packet_data' \in [Hosts -> Seq(Cells)]
    <3>1. rack_queue[h] # <<>> => mem_data[Head(rack_queue[h]).addr] \in Cells
      <4>1. rack_queue[h] # <<>> => Head(rack_queue[h]) \in Payload
        BY <2>2, TailFacts
      <4> QED BY <1>0, <4>1 DEF MemTyped, Payload
    <3>2. Sim!Gathered(h) \in Seq(Cells) /\ <<>> \in Seq(Cells)
      BY <2>2, <3>1, AppendFacts, EmptySeq DEF Sim!Gathered
    <3> QED BY <1>0, <2>1, <3>2 DEF NegedgeBursts
  <2>5. wack_num' \in [Hosts -> Slices]
    <3>1. PayloadNum \in Nat \ {0}
      BY TlmAssumption
    <3>2. Sim!WriteComplete(h) <=> wack_queue[h] # <<>> /\ wack_num[h] + 1 = PayloadNum
      BY DEF Sim!WriteComplete
    <3> DEFINE n == IF Sim!WriteComplete(h) THEN 0
                      ELSE wack_num[h] + Len(Front(wack_queue[h]))
    <3>3. wack_num[h] \in 0 .. PayloadNum - 1
      BY <2>2 DEF Slices
    <3>4. Len(Front(wack_queue[h])) = IF wack_queue[h] = <<>> THEN 0 ELSE 1
      BY <2>2, <2>3
    <3>5. n \in 0 .. PayloadNum - 1
      BY <3>1, <3>2, <3>3, <3>4
    <3>6. wack_num' = [wack_num EXCEPT ![h] = n]
      BY <2>1 DEF NegedgeBursts
    <3> HIDE DEF n
    <3> QED BY <1>0, <3>5, <3>6 DEF Slices
  <2>6. Sim!NewlyOutstanding(h) \in Int
    <3>1. Sim!NewlyOutstanding(h) = Len(Front(r_queue[h])) + Len(Front(w_queue[h]))
             - Len(Front(rack_queue[h])) - Len(Front(wack_queue[h]))
      BY SameOps DEF Sim!NewlyOutstanding, Sim!Popped
    <3> QED BY <2>2, <2>3, <3>1
  <2>7. outstanding' \in [Hosts -> Int]
    BY <1>0, <2>1, <2>2, <2>6 DEF NegedgeBursts
  <2>8. sync_queue' = [g \in Hosts |-> sync_queue'[g]]
    BY <1>0, <2>1 DEF NegedgeBursts
  <2> QED BY <2>4, <2>5, <2>7, <2>8
<1>4. ASSUME NEW h \in Hosts,
             Silent(h) \/ SimPosedge(h) \/ LinkForward(h) \/ LinkBackward(h)
      PROVE  UNCHANGED burstVars
  <2>1. SimPosedge(h) \/ LinkBackward(h) => UNCHANGED burstVars
    BY PosedgeDoes, BackwardDoes
  <2>2. LinkForward(h) => UNCHANGED simVars
    BY DEF LinkForward
  <2>3. Silent(h) => UNCHANGED burstVars
    BY DEF Silent
  <2> QED BY <1>4, <2>1, <2>2, <2>3 DEF burstVars, simVars
<1>5. UNCHANGED vars \/ SwitchForward \/ MemPosedge \/ SimulateDram \/ MemNegedge
        \/ SwitchBackward => UNCHANGED simVars
  BY DEF vars, SwitchForward, MemPosedge, SimulateDram, MemNegedge, SwitchBackward
<1>6. UNCHANGED simVars => UNCHANGED burstVars
  BY DEF simVars, burstVars
<1> QED BY <1>1, <1>2, <1>3, <1>4, <1>5, <1>6, NextCases

(* The one ack a port has handed over, as a queue. *)
LEMMA SlotFacts ==
  ASSUME NEW s \in Payload \cup {NoPayload}
  PROVE  /\ Sim!Slot(s) \in Seq(Payload)
         /\ s = NoPayload => Sim!Slot(s) = <<>>
         /\ s # NoPayload => Sim!Slot(s) = <<s>> /\ s \in Payload
         /\ Items(Sim!Slot(s)) = OnSlot(s)
<1>1. CASE s = NoPayload
  BY <1>1, EmptySeq DEF Sim!Slot, Items, OnSlot
<1>2. CASE s # NoPayload
  BY <1>2 DEF Sim!Slot, Items, OnSlot
<1> QED BY <1>1, <1>2

(* A step keeps the wrappers' and the ports' queues typed. *)
LEMMA QueuesTypedStep == TypeInv /\ [Next]_vars => QueuesTyped' /\ LinkTyped'
<1> SUFFICES ASSUME TypeInv, [Next]_vars
             PROVE  QueuesTyped' /\ LinkTyped'
  OBVIOUS
<1> USE DEF QueuesTyped, LinkTyped
<1>0. QueuesTyped /\ LinkTyped /\ ControlTyped /\ SwitchTyped
  BY DEF TypeInv
<1>1. ASSUME UNCHANGED <<r_queue, w_queue, rack_queue, wack_queue, rack_incoming,
                         wack_incoming>>
      PROVE  QueuesTyped'
  BY <1>0, <1>1
<1>2. ASSUME UNCHANGED linkVars PROVE LinkTyped'
  BY <1>0, <1>2 DEF linkVars
<1>3. ASSUME UNCHANGED simVars PROVE QueuesTyped'
  BY <1>1, <1>3 DEF simVars
<1>4. ASSUME NEW h \in Hosts, Silent(h) PROVE QueuesTyped' /\ LinkTyped'
  BY <1>1, <1>2, <1>4 DEF Silent, payloadVars
<1>5. ASSUME NEW h \in Hosts, ReadCut(h) PROVE QueuesTyped' /\ LinkTyped'
  <2>1. r_queue[h] \o ReadPayloads(h, pkt[h]) \in Seq(Payload)
    <3>1. pkt[h] \in Packet /\ pkt[h].type = "R"
      BY <1>0, <1>5, HandleReadDoes DEF ControlTyped, ReadCut
    <3>2. ReadPayloads(h, pkt[h]) \in Seq(Payload) /\ r_queue[h] \in Seq(Payload)
      BY <1>0, <3>1, CutTyped
    <3> QED BY <3>2, ConcatFacts
  <2>2. LinkTyped'
    BY <1>2, <1>5 DEF ReadCut
  <2>3. QueuesTyped'
    BY <1>0, <1>5, <2>1, HandleReadDoes DEF ReadCut
  <2> QED BY <2>2, <2>3
<1>6. ASSUME NEW h \in Hosts, WriteCut(h) PROVE QueuesTyped' /\ LinkTyped'
  <2>1. w_queue[h] \o WritePayloads(h, pkt[h]) \in Seq(Payload)
    <3>1. pkt[h] \in Packet /\ pkt[h].type = "W"
      BY <1>0, <1>6, HandleWriteDoes DEF ControlTyped, WriteCut
    <3>2. WritePayloads(h, pkt[h]) \in Seq(Payload) /\ w_queue[h] \in Seq(Payload)
      BY <1>0, <3>1, CutTyped
    <3> QED BY <3>2, ConcatFacts
  <2>2. LinkTyped'
    BY <1>2, <1>6 DEF WriteCut
  <2>3. QueuesTyped'
    BY <1>0, <1>6, <2>1, HandleWriteDoes DEF WriteCut
  <2> QED BY <2>2, <2>3
<1>7. ASSUME NEW h \in Hosts, SimPosedge(h) PROVE QueuesTyped' /\ LinkTyped'
  <2>1. PosedgeQueues(h)
    BY <1>7, PosedgeDoes
  <2>2. /\ rack_queue[h] \o Sim!Slot(rack_incoming[h]) \in Seq(Payload)
        /\ wack_queue[h] \o Sim!Slot(wack_incoming[h]) \in Seq(Payload)
    BY <1>0, SlotFacts, ConcatFacts
  <2> QED BY <1>0, <2>1, <2>2 DEF PosedgeQueues
<1>8. ASSUME NEW h \in Hosts, SimNegedge(h) PROVE QueuesTyped' /\ LinkTyped'
  <2>1. NegedgeQueues(h)
    BY <1>8, NegedgeDoes
  <2>2. /\ Rest(r_queue[h]) \in Seq(Payload) /\ Rest(w_queue[h]) \in Seq(Payload)
        /\ Rest(rack_queue[h]) \in Seq(Payload) /\ Rest(wack_queue[h]) \in Seq(Payload)
        /\ Front(r_queue[h]) \in Seq(Payload) /\ Front(w_queue[h]) \in Seq(Payload)
    <3>1. \A q \in Seq(Payload) : Rest(q) \in Seq(Payload) /\ Front(q) \in Seq(Payload)
      BY QueueHelpers
    <3> QED BY <1>0, <3>1
  <2>3. /\ fw_r[h] \o Front(r_queue[h]) \in Seq(Payload)
        /\ fw_w[h] \o Front(w_queue[h]) \in Seq(Payload)
    BY <1>0, <2>2, ConcatFacts
  <2>4. QueuesTyped'
    BY <1>0, <2>1, <2>2 DEF NegedgeQueues
  <2>5. LinkTyped'
    BY <1>0, <2>1, <2>3 DEF NegedgeQueues
  <2> QED BY <2>4, <2>5
<1>9. ASSUME NEW h \in Hosts, LinkForward(h) PROVE QueuesTyped' /\ LinkTyped'
  <2>1. UNCHANGED simVars
    BY <1>9, ForwardDoes
  <2>2. /\ fw_r[h] # <<>> => Tail(fw_r[h]) \in Seq(Payload)
        /\ fw_w[h] # <<>> => Tail(fw_w[h]) \in Seq(Payload)
    BY <1>0, TailFacts
  <2>3. LinkTyped'
    BY <1>0, <1>9, <2>2, ForwardDoes
  <2> QED BY <1>3, <2>1, <2>3
<1>10. ASSUME NEW h \in Hosts, LinkBackward(h) PROVE QueuesTyped' /\ LinkTyped'
  <2>1. /\ bw_r[h] # <<>> => Tail(bw_r[h]) \in Seq(Payload) /\ Head(bw_r[h]) \in Payload
        /\ bw_w[h] # <<>> => Tail(bw_w[h]) \in Seq(Payload) /\ Head(bw_w[h]) \in Payload
    BY <1>0, TailFacts
  <2>2. UNCHANGED <<r_queue, w_queue, rack_queue, wack_queue, fw_r, fw_w>>
    BY <1>10, BackwardDoes
  <2>3. CASE /\ bw_r[h] # <<>>
             /\ bw_r' = [bw_r EXCEPT ![h] = Tail(bw_r[h])]
             /\ paced_r' = [paced_r EXCEPT ![h] = FALSE]
             /\ rack_incoming' = [rack_incoming EXCEPT ![h] = Head(bw_r[h])]
             /\ UNCHANGED <<bw_w, paced_w, wack_incoming>>
    BY <1>0, <2>1, <2>2, <2>3
  <2>4. CASE /\ bw_w[h] # <<>>
             /\ bw_w' = [bw_w EXCEPT ![h] = Tail(bw_w[h])]
             /\ paced_w' = [paced_w EXCEPT ![h] = FALSE]
             /\ wack_incoming' = [wack_incoming EXCEPT ![h] = Head(bw_w[h])]
             /\ UNCHANGED <<bw_r, paced_r, rack_incoming>>
    BY <1>0, <2>1, <2>2, <2>4
  <2> QED BY <1>10, <2>3, <2>4, BackwardDoes
<1>11. SwitchForward \/ MemPosedge \/ SimulateDram \/ MemNegedge
         => UNCHANGED linkVars /\ UNCHANGED simVars
  BY DEF SwitchForward, MemPosedge, SimulateDram, MemNegedge
<1>12. ASSUME SwitchBackward PROVE QueuesTyped' /\ LinkTyped'
  <2>1. UNCHANGED simVars
    BY <1>12 DEF SwitchBackward
  <2>2. /\ \A h \in Hosts : c_rack # <<>> => Append(bw_r[h], Head(c_rack)) \in Seq(Payload)
        /\ \A h \in Hosts : c_wack # <<>> => Append(bw_w[h], Head(c_wack)) \in Seq(Payload)
    <3>1. /\ c_rack # <<>> => Head(c_rack) \in Payload
          /\ c_wack # <<>> => Head(c_wack) \in Payload
      BY <1>0, TailFacts DEF SwitchTyped
    <3> QED BY <1>0, <3>1, AppendFacts
  <2>3. \A a : /\ c_rack # <<>> => [bw_r EXCEPT ![a] = Append(bw_r[a], Head(c_rack))]
                                     \in [Hosts -> Seq(Payload)]
               /\ c_wack # <<>> => [bw_w EXCEPT ![a] = Append(bw_w[a], Head(c_wack))]
                                     \in [Hosts -> Seq(Payload)]
    BY <1>0, <2>2
  <2>4. bw_r' \in [Hosts -> Seq(Payload)] /\ bw_w' \in [Hosts -> Seq(Payload)]
    <3>1. CASE /\ c_rack # <<>> /\ UNCHANGED bw_w
               /\ bw_r' = [bw_r EXCEPT ![r_trans_id[Head(c_rack).addr]] =
                             Append(bw_r[r_trans_id[Head(c_rack).addr]], Head(c_rack))]
      BY <1>0, <2>3, <3>1
    <3>2. CASE /\ c_wack # <<>> /\ UNCHANGED bw_r
               /\ bw_w' = [bw_w EXCEPT ![w_trans_id[Head(c_wack).addr]] =
                             Append(bw_w[w_trans_id[Head(c_wack).addr]], Head(c_wack))]
      BY <1>0, <2>3, <3>2
    <3> QED BY <1>12, <3>1, <3>2, SwitchBackwardDoes
  <2>5. UNCHANGED <<fw_r, fw_w, paced_r, paced_w>>
    BY <1>12, SwitchBackwardDoes
  <2>6. LinkTyped'
    BY <1>0, <2>4, <2>5
  <2> QED BY <1>3, <2>1, <2>6
<1>13. UNCHANGED vars => UNCHANGED linkVars /\ UNCHANGED simVars
  BY DEF vars
<1> QED BY <1>2, <1>3, <1>4, <1>5, <1>6, <1>7, <1>8, <1>9, <1>10, <1>11, <1>12,
           <1>13, NextCases

(* A step keeps the controller and the memory wrapper typed. *)
LEMMA MemoryTypedStep == TypeInv /\ [Next]_vars => SwitchTyped' /\ MemTyped'
<1> SUFFICES ASSUME TypeInv, [Next]_vars
             PROVE  SwitchTyped' /\ MemTyped'
  OBVIOUS
<1> USE DEF SwitchTyped, MemTyped
<1>0. SwitchTyped /\ MemTyped /\ LinkTyped
  BY DEF TypeInv
<1>1. ASSUME UNCHANGED switchVars PROVE SwitchTyped'
  BY <1>0, <1>1 DEF switchVars
<1>2. ASSUME UNCHANGED memVars PROVE MemTyped'
  BY <1>0, <1>2 DEF memVars
<1>3. \A q \in Seq(Payload) :
        /\ Rest(q) \in Seq(Payload) /\ Front(q) \in Seq(Payload) /\ Len(Front(q)) \in Int
        /\ q # <<>> => Head(q) \in Payload /\ Tail(q) \in Seq(Payload)
        /\ Len(q) \in Int
        /\ \A x \in Payload : Append(q, x) \in Seq(Payload)
        /\ \A r \in Seq(Payload) : q \o r \in Seq(Payload) /\ Moved(q, r) \in Seq(Payload)
  <2>1. ASSUME NEW q \in Seq(Payload)
        PROVE  /\ Rest(q) \in Seq(Payload) /\ Front(q) \in Seq(Payload)
               /\ Len(Front(q)) \in Int
               /\ q # <<>> => Head(q) \in Payload /\ Tail(q) \in Seq(Payload)
               /\ Len(q) \in Int
    BY QueueHelpers, SeqFacts
  <2>2. ASSUME NEW q \in Seq(Payload), NEW r \in Seq(Payload)
        PROVE  q \o r \in Seq(Payload) /\ Moved(q, r) \in Seq(Payload)
    BY QueueHelpers, ConcatFacts
  <2>3. ASSUME NEW q \in Seq(Payload), NEW x \in Payload
        PROVE  Append(q, x) \in Seq(Payload)
    BY AppendFacts
  <2> QED BY <2>1, <2>2, <2>3
<1>4. \A p \in Payload : p.addr \in Addrs /\ p.data \in Cells
  BY DEF Payload
<1>5. ASSUME NEW h \in Hosts, LinkForward(h) PROVE SwitchTyped' /\ MemTyped'
  <2>1. UNCHANGED memVars
    BY <1>5 DEF LinkForward
  <2>2. fw_r[h] \in Seq(Payload) /\ fw_w[h] \in Seq(Payload)
    BY <1>0 DEF LinkTyped
  <2>3. UNCHANGED <<c_rack, c_wack>>
    BY <1>5, ForwardDoes
  <2>4. /\ fw_r[h] # <<>> => Append(c_r, Head(fw_r[h])) \in Seq(Payload)
        /\ fw_w[h] # <<>> => Append(c_w, Head(fw_w[h])) \in Seq(Payload)
    BY <1>0, <1>3, <2>2
  <2>5. \A a : /\ [r_trans_id EXCEPT ![a] = h] \in [Addrs -> Hosts \cup {NoHost}]
               /\ [w_trans_id EXCEPT ![a] = h] \in [Addrs -> Hosts \cup {NoHost}]
    BY <1>0
  <2>6. CASE /\ fw_r[h] # <<>> /\ c_r' = Append(c_r, Head(fw_r[h]))
             /\ r_trans_id' = [r_trans_id EXCEPT ![Head(fw_r[h]).addr] = h]
             /\ UNCHANGED <<c_w, w_trans_id>>
    <3>1. r_trans_id' \in [Addrs -> Hosts \cup {NoHost}]
          /\ w_trans_id' \in [Addrs -> Hosts \cup {NoHost}]
      BY <1>0, <2>5, <2>6
    <3>2. c_r' \in Seq(Payload) /\ c_w' \in Seq(Payload)
      BY <1>0, <2>4, <2>6
    <3>3. c_rack' \in Seq(Payload) /\ c_wack' \in Seq(Payload)
      BY <1>0, <2>3
    <3> QED BY <1>2, <2>1, <3>1, <3>2, <3>3
  <2>7. CASE /\ fw_w[h] # <<>> /\ c_w' = Append(c_w, Head(fw_w[h]))
             /\ w_trans_id' = [w_trans_id EXCEPT ![Head(fw_w[h]).addr] = h]
             /\ UNCHANGED <<c_r, r_trans_id>>
    <3>1. r_trans_id' \in [Addrs -> Hosts \cup {NoHost}]
          /\ w_trans_id' \in [Addrs -> Hosts \cup {NoHost}]
      BY <1>0, <2>5, <2>7
    <3>2. c_r' \in Seq(Payload) /\ c_w' \in Seq(Payload)
      BY <1>0, <2>4, <2>7
    <3>3. c_rack' \in Seq(Payload) /\ c_wack' \in Seq(Payload)
      BY <1>0, <2>3
    <3> QED BY <1>2, <2>1, <3>1, <3>2, <3>3
  <2>8. SwitchTyped'
    BY <1>5, <2>6, <2>7, ForwardDoes
  <2> QED BY <1>2, <2>1, <2>8
<1>6. ASSUME SwitchForward PROVE SwitchTyped' /\ MemTyped'
  <2>1. c_r # <<>> => Head(c_r) \in Payload /\ Tail(c_r) \in Seq(Payload)
    BY <1>0, <1>3
  <2>2. c_w # <<>> => /\ Head(c_w) \in Payload /\ Tail(c_w) \in Seq(Payload)
                      /\ Head(c_w).data \in Cells
    BY <1>0, <1>3, <1>4
  <2>3. SwitchTyped'
    BY <1>0, <1>6, <2>1, <2>2, SwitchForwardDoes
  <2>4. /\ c_r # <<>> => Append(m_r, Head(c_r)) \in Seq(Payload)
        /\ c_w # <<>> => Append(m_w, Head(c_w)) \in Seq(Payload)
    BY <1>0, <1>3, <2>1, <2>2
  <2>5. c_w # <<>> => [mem_data EXCEPT ![Head(c_w).addr] = Head(c_w).data]
                        \in [Addrs -> Cells]
    BY <1>0, <2>2
  <2>6. m_r' \in Seq(Payload) /\ m_w' \in Seq(Payload) /\ mem_data' \in [Addrs -> Cells]
    BY <1>0, <1>6, <2>4, <2>5, SwitchForwardDoes
  <2>7. UNCHANGED <<mem_request, dram, m_rack, m_wack, m_outstanding, active_dram>>
    BY <1>6, SwitchForwardDoes
  <2>8. MemTyped'
    BY <1>0, <2>6, <2>7
  <2> QED BY <2>3, <2>8
<1>7. ASSUME MemPosedge PROVE SwitchTyped' /\ MemTyped'
  <2>1. Moved(Moved(mem_request, m_r), m_w) \in Seq(Payload)
        /\ Rest(m_r) \in Seq(Payload) /\ Rest(m_w) \in Seq(Payload)
    BY <1>0, <1>3
  <2>2. MemTyped'
    BY <1>0, <1>7, <2>1, MemPosedgeDoes
  <2> QED BY <1>1, <1>7, <2>2, MemPosedgeDoes
<1>8. ASSUME SimulateDram PROVE SwitchTyped' /\ MemTyped'
  <2>1. PICK done : /\ done = {} \/ \E p \in dram : done = {p}
                    /\ m_rack' = m_rack \o Mem!Acks(done, "R")
                    /\ m_wack' = m_wack \o Mem!Acks(done, "W")
                    /\ dram' = (dram \ done) \cup Items(mem_request)
    BY <1>8, SimulateDramDoes
  <2>2. \A c : Mem!Acks(done, c) \in Seq(Payload)
    <3>1. \A p \in dram : <<p>> \in Seq(Payload)
      BY <1>0
    <3>2. <<>> \in Seq(Payload)
      BY EmptySeq
    <3> QED BY <2>1, <3>1, <3>2, AcksAre
  <2>3. m_rack' \in Seq(Payload) /\ m_wack' \in Seq(Payload)
    BY <1>0, <1>3, <2>1, <2>2
  <2>4. dram' \subseteq Payload
    BY <1>0, <2>1, SeqFacts
  <2>5. /\ UNCHANGED <<switchVars, m_r, m_w, mem_data>> /\ mem_request' = <<>>
        /\ m_outstanding' = m_outstanding + Len(mem_request)
        /\ active_dram' \in {0, 1}
    BY <1>8, SimulateDramDoes
  <2>6. m_outstanding' \in Int /\ mem_request' \in Seq(Payload)
    BY <1>0, <1>3, <2>5, EmptySeq
  <2> QED BY <1>0, <1>1, <2>3, <2>4, <2>5, <2>6
<1>9. ASSUME MemNegedge PROVE SwitchTyped' /\ MemTyped'
  <2>1. SwitchTyped'
    <3>1. c_rack \o Front(m_rack) \in Seq(Payload)
          /\ c_wack \o Front(m_wack) \in Seq(Payload)
      BY <1>0, <1>3
    <3>2. UNCHANGED <<c_r, c_w, r_trans_id, w_trans_id>>
      BY <1>9, MemNegedgeDoes
    <3>3. c_rack' \in Seq(Payload) /\ c_wack' \in Seq(Payload)
      BY <1>9, <3>1, MemNegedgeDoes
    <3> QED BY <1>0, <3>2, <3>3
  <2>2. m_outstanding' \in Int
    <3>1. Len(Front(m_rack)) \in Int /\ Len(Front(m_wack)) \in Int
          /\ m_outstanding \in Int
      BY <1>0, <1>3
    <3>2. m_outstanding' = m_outstanding - Len(Front(m_rack)) - Len(Front(m_wack))
      BY <1>9, MemNegedgeDoes
    <3> HIDE DEF SwitchTyped, MemTyped
    <3> QED BY <3>1, <3>2
  <2>3. m_rack' \in Seq(Payload) /\ m_wack' \in Seq(Payload)
    <3>1. Rest(m_rack) \in Seq(Payload) /\ Rest(m_wack) \in Seq(Payload)
      BY <1>0, <1>3
    <3> QED BY <1>9, <3>1, MemNegedgeDoes
  <2>4. UNCHANGED <<m_r, m_w, mem_request, dram, mem_data, active_dram>>
    BY <1>9, MemNegedgeDoes
  <2>5. MemTyped'
    BY <1>0, <2>2, <2>3, <2>4
  <2> QED BY <2>1, <2>5
<1>10. ASSUME SwitchBackward PROVE SwitchTyped' /\ MemTyped'
  <2>1. UNCHANGED memVars
    BY <1>10 DEF SwitchBackward
  <2>2. SwitchTyped'
    BY <1>0, <1>3, <1>10, SwitchBackwardDoes
  <2> QED BY <1>2, <2>1, <2>2
<1>11. ASSUME NEW h \in Hosts,
              \/ Silent(h) \/ ReadCut(h) \/ WriteCut(h)
              \/ SimPosedge(h) \/ SimNegedge(h) \/ LinkBackward(h)
       PROVE  UNCHANGED switchVars /\ UNCHANGED memVars
  <2>1. Silent(h) => UNCHANGED switchVars /\ UNCHANGED memVars
    BY DEF Silent, payloadVars
  <2>2. ReadCut(h) \/ WriteCut(h) => UNCHANGED switchVars /\ UNCHANGED memVars
    BY DEF ReadCut, WriteCut
  <2>3. SimPosedge(h) \/ SimNegedge(h) \/ LinkBackward(h)
          => UNCHANGED switchVars /\ UNCHANGED memVars
    BY DEF SimPosedge, SimNegedge, LinkBackward
  <2> QED BY <1>11, <2>1, <2>2, <2>3
<1>12. UNCHANGED vars => UNCHANGED switchVars /\ UNCHANGED memVars
  BY DEF vars
<1> QED BY <1>1, <1>2, <1>5, <1>6, <1>7, <1>8, <1>9, <1>10, <1>11, <1>12, NextCases

(* The initial states are typed. *)
LEMMA TypeInvInit == Init => TypeInv
<1> SUFFICES ASSUME Init PROVE TypeInv
  OBVIOUS
<1>1. HostTyped
  <2>1. Programs \subseteq [Hosts -> Seq(Packet)]
    BY HostAssumption
  <2>2. Host!Init
    BY DEF Init
  <2>3. <<>> \in Seq(Packet) /\ <<>> \in Seq(Seq(Cells))
    BY EmptySeq
  <2> QED BY <2>1, <2>2, <2>3 DEF Host!Init, HostTyped
<1>2. Sim!Init
  BY DEF Init
<1>3. IsFiniteSet(Hosts) => Cardinality(Hosts) \in Nat
  BY FS_CardinalityType
<1>4. ControlTyped
  <2>1. [type |-> "T"] \in Packet
    BY DEF Packet
  <2>2. Cardinality(Hosts) \in Int
    BY <1>3, TlmAssumption
  <2>3. /\ pc = [h \in Hosts |-> "first"] /\ pkt = [h \in Hosts |-> [type |-> "T"]]
        /\ req_done = [h \in Hosts |-> FALSE] /\ sync = [a \in PktAddrs |-> FALSE]
        /\ active_cores = Cardinality(Hosts) /\ spinner = NoHost /\ stopped = FALSE
    <3>1. Sim!Cardinality(Hosts) = Cardinality(Hosts)
      BY Zenon DEF Sim!Cardinality, Cardinality
    <3> QED BY <1>2, <3>1 DEF Sim!Init
  <2>4. \A h \in Hosts : pc[h] = "first"
    BY <2>3
  <2> QED BY <2>1, <2>2, <2>3, <2>4 DEF ControlTyped
<1>5. BurstsTyped
  <2>1. 0 \in Slices
    BY TlmAssumption DEF Slices
  <2>2. <<>> \in Seq(Cells)
    BY EmptySeq
  <2> QED BY <1>2, <2>1, <2>2 DEF Sim!Init, BurstsTyped
<1>6. <<>> \in Seq(Payload)
  BY EmptySeq
<1>7. QueuesTyped
  BY <1>2, <1>6 DEF Sim!Init, QueuesTyped
<1>8. LinkTyped
  BY <1>6 DEF Init, Lk!Init, LinkTyped
<1>9. SwitchTyped
  BY <1>6, SameOps DEF Init, Sw!Init, SwitchTyped
<1>10. MemTyped
  BY <1>6, SameOps DEF Init, Mem!Init, MemTyped, Cells
<1> QED BY <1>1, <1>4, <1>5, <1>7, <1>8, <1>9, <1>10 DEF TypeInv

(* Every step keeps the types. *)
LEMMA TypeInvStep == TypeInv /\ [Next]_vars => TypeInv'
BY HostTypedStep, ControlTypedStep, BurstsTypedStep, QueuesTypedStep, MemoryTypedStep
   DEF TypeInv

(* Every reachable state is typed. *)
LEMMA TypeInvHolds == Spec => []TypeInv
BY TypeInvInit, TypeInvStep, PTL DEF Spec

-----------------------------------------------------------------------------
(* What a step does to the queues *)

(* Each place of the path reads the queue it is named for, before and after a
   step. *)
LEMMA AtPlaces == PlacesRead /\ PlacesRead'
<1>1. \A h \in Hosts, n \in HostPlaces :
         <<n, h>> \in Places /\ <<n, h>>[1] = n /\ <<n, h>>[2] = h
  BY DEF Places
<1>2. \A n \in SharedPlaces : <<n, NoHost>> \in Places /\ <<n, NoHost>>[1] = n
  BY DEF Places
<1>3. DOMAIN Queues = Places /\ DOMAIN Queues' = Places
  BY DEF Queues
<1>4. ASSUME NEW h \in Hosts
      PROVE  /\ Queues[<<"r_queue", h>>] = r_queue[h]
             /\ Queues[<<"w_queue", h>>] = w_queue[h]
             /\ Queues[<<"fw_r", h>>] = fw_r[h]
             /\ Queues[<<"fw_w", h>>] = fw_w[h]
             /\ Queues[<<"bw_r", h>>] = bw_r[h]
             /\ Queues[<<"bw_w", h>>] = bw_w[h]
             /\ Queues[<<"rack_incoming", h>>] = Sim!Slot(rack_incoming[h])
             /\ Queues[<<"wack_incoming", h>>] = Sim!Slot(wack_incoming[h])
             /\ Queues[<<"rack_queue", h>>] = rack_queue[h]
             /\ Queues[<<"wack_queue", h>>] = wack_queue[h]
             /\ Queues'[<<"r_queue", h>>] = r_queue'[h]
             /\ Queues'[<<"w_queue", h>>] = w_queue'[h]
             /\ Queues'[<<"fw_r", h>>] = fw_r'[h]
             /\ Queues'[<<"fw_w", h>>] = fw_w'[h]
             /\ Queues'[<<"bw_r", h>>] = bw_r'[h]
             /\ Queues'[<<"bw_w", h>>] = bw_w'[h]
             /\ Queues'[<<"rack_incoming", h>>] = Sim!Slot(rack_incoming'[h])
             /\ Queues'[<<"wack_incoming", h>>] = Sim!Slot(wack_incoming'[h])
             /\ Queues'[<<"rack_queue", h>>] = rack_queue'[h]
             /\ Queues'[<<"wack_queue", h>>] = wack_queue'[h]
  <2> USE DEF HostPlaces
  <2>1. Queues[<<"r_queue", h>>] = r_queue[h]
    BY <1>1 DEF Queues, QueueAt
  <2>2. Queues'[<<"r_queue", h>>] = r_queue'[h]
    BY <1>1 DEF Queues, QueueAt
  <2>3. Queues[<<"w_queue", h>>] = w_queue[h]
    BY <1>1 DEF Queues, QueueAt
  <2>4. Queues'[<<"w_queue", h>>] = w_queue'[h]
    BY <1>1 DEF Queues, QueueAt
  <2>5. Queues[<<"fw_r", h>>] = fw_r[h]
    BY <1>1 DEF Queues, QueueAt
  <2>6. Queues'[<<"fw_r", h>>] = fw_r'[h]
    BY <1>1 DEF Queues, QueueAt
  <2>7. Queues[<<"fw_w", h>>] = fw_w[h]
    BY <1>1 DEF Queues, QueueAt
  <2>8. Queues'[<<"fw_w", h>>] = fw_w'[h]
    BY <1>1 DEF Queues, QueueAt
  <2>9. Queues[<<"bw_r", h>>] = bw_r[h]
    BY <1>1 DEF Queues, QueueAt
  <2>10. Queues'[<<"bw_r", h>>] = bw_r'[h]
    BY <1>1 DEF Queues, QueueAt
  <2>11. Queues[<<"bw_w", h>>] = bw_w[h]
    BY <1>1 DEF Queues, QueueAt
  <2>12. Queues'[<<"bw_w", h>>] = bw_w'[h]
    BY <1>1 DEF Queues, QueueAt
  <2>13. Queues[<<"rack_incoming", h>>] = Sim!Slot(rack_incoming[h])
    BY <1>1 DEF Queues, QueueAt
  <2>14. Queues'[<<"rack_incoming", h>>] = Sim!Slot(rack_incoming'[h])
    BY <1>1 DEF Queues, QueueAt
  <2>15. Queues[<<"wack_incoming", h>>] = Sim!Slot(wack_incoming[h])
    BY <1>1 DEF Queues, QueueAt
  <2>16. Queues'[<<"wack_incoming", h>>] = Sim!Slot(wack_incoming'[h])
    BY <1>1 DEF Queues, QueueAt
  <2>17. Queues[<<"rack_queue", h>>] = rack_queue[h]
    BY <1>1 DEF Queues, QueueAt
  <2>18. Queues'[<<"rack_queue", h>>] = rack_queue'[h]
    BY <1>1 DEF Queues, QueueAt
  <2>19. Queues[<<"wack_queue", h>>] = wack_queue[h]
    BY <1>1 DEF Queues, QueueAt
  <2>20. Queues'[<<"wack_queue", h>>] = wack_queue'[h]
    BY <1>1 DEF Queues, QueueAt
  <2> QED BY <2>1, <2>2, <2>3, <2>4, <2>5, <2>6, <2>7, <2>8, <2>9, <2>10,
             <2>11, <2>12, <2>13, <2>14, <2>15, <2>16, <2>17, <2>18, <2>19, <2>20
<1> USE DEF SharedPlaces, NoOf
<1>5. Queues[NoOf("c_r")] = c_r
  BY <1>2 DEF Queues, QueueAt
<1>6. Queues'[NoOf("c_r")] = c_r'
  BY <1>2 DEF Queues, QueueAt
<1>7. Queues[NoOf("c_w")] = c_w
  BY <1>2 DEF Queues, QueueAt
<1>8. Queues'[NoOf("c_w")] = c_w'
  BY <1>2 DEF Queues, QueueAt
<1>9. Queues[NoOf("m_r")] = m_r
  BY <1>2 DEF Queues, QueueAt
<1>10. Queues'[NoOf("m_r")] = m_r'
  BY <1>2 DEF Queues, QueueAt
<1>11. Queues[NoOf("m_w")] = m_w
  BY <1>2 DEF Queues, QueueAt
<1>12. Queues'[NoOf("m_w")] = m_w'
  BY <1>2 DEF Queues, QueueAt
<1>13. Queues[NoOf("mem_request")] = mem_request
  BY <1>2 DEF Queues, QueueAt
<1>14. Queues'[NoOf("mem_request")] = mem_request'
  BY <1>2 DEF Queues, QueueAt
<1>15. Queues[NoOf("m_rack")] = m_rack
  BY <1>2 DEF Queues, QueueAt
<1>16. Queues'[NoOf("m_rack")] = m_rack'
  BY <1>2 DEF Queues, QueueAt
<1>17. Queues[NoOf("m_wack")] = m_wack
  BY <1>2 DEF Queues, QueueAt
<1>18. Queues'[NoOf("m_wack")] = m_wack'
  BY <1>2 DEF Queues, QueueAt
<1>19. Queues[NoOf("c_rack")] = c_rack
  BY <1>2 DEF Queues, QueueAt
<1>20. Queues'[NoOf("c_rack")] = c_rack'
  BY <1>2 DEF Queues, QueueAt
<1>21. Queues[NoOf("c_wack")] = c_wack
  BY <1>2 DEF Queues, QueueAt
<1>22. Queues'[NoOf("c_wack")] = c_wack'
  BY <1>2 DEF Queues, QueueAt
<1>23. PlacesRead
  BY <1>3, <1>4, <1>5, <1>6, <1>7, <1>8, <1>9, <1>10, <1>11, <1>12,
     <1>13, <1>14, <1>15, <1>16, <1>17, <1>18, <1>19, <1>20, <1>21, <1>22 DEF PlacesRead
<1>24. PlacesRead'
  BY <1>3, <1>4, <1>5, <1>6, <1>7, <1>8, <1>9, <1>10, <1>11, <1>12,
     <1>13, <1>14, <1>15, <1>16, <1>17, <1>18, <1>19, <1>20, <1>21, <1>22 DEF PlacesRead
<1> QED BY <1>23, <1>24

(* There are no others. *)
LEMMA EveryPlace ==
  ASSUME NEW l \in Places
  PROVE  \/ \E h \in Hosts :
              \/ l = <<"r_queue", h>>
              \/ l = <<"w_queue", h>>
              \/ l = <<"fw_r", h>>
              \/ l = <<"fw_w", h>>
              \/ l = <<"bw_r", h>>
              \/ l = <<"bw_w", h>>
              \/ l = <<"rack_incoming", h>>
              \/ l = <<"wack_incoming", h>>
              \/ l = <<"rack_queue", h>>
              \/ l = <<"wack_queue", h>>
         \/ l = NoOf("c_r")
         \/ l = NoOf("c_w")
         \/ l = NoOf("m_r")
         \/ l = NoOf("m_w")
         \/ l = NoOf("mem_request")
         \/ l = NoOf("m_rack")
         \/ l = NoOf("m_wack")
         \/ l = NoOf("c_rack")
         \/ l = NoOf("c_wack")
<1>1. CASE l \in HostPlaces \X Hosts
  BY <1>1 DEF HostPlaces
<1>2. CASE l \in SharedPlaces \X {NoHost}
  BY <1>2 DEF SharedPlaces, NoOf
<1> QED BY <1>1, <1>2 DEF Places

(* Two families with one domain are equal if they agree at each place. *)
LEMMA SameQueues ==
  ASSUME NEW G, G = [l \in Places |-> G[l]], \A l \in Places : Queues'[l] = G[l]
  PROVE  Queues' = G
<1>1. Queues' = [l \in Places |-> Queues'[l]]
  BY DEF Queues
<1> QED BY <1>1

(* A pop at one place pushed at another, place by place. *)
LEMMA ShiftAt ==
  ASSUME NEW F, IsFamily(F), NEW l \in Places, NEW k \in Places, l # k
  PROVE  /\ IsFamily(Shift(F, l, k))
         /\ Shift(F, l, k)[l] = Rest(F[l]) /\ Shift(F, l, k)[k] = Moved(F[k], F[l])
         /\ \A m \in Places : m # l /\ m # k => Shift(F, l, k)[m] = F[m]
<1>1. DOMAIN F = Places
  BY DEF IsFamily
<1> QED BY <1>1 DEF Shift, IsFamily

(* A pop at one place, place by place. *)
LEMMA DroppedAt ==
  ASSUME NEW F, IsFamily(F), NEW l \in Places
  PROVE  /\ IsFamily(Dropped(F, l)) /\ Dropped(F, l)[l] = Rest(F[l])
         /\ \A m \in Places : m # l => Dropped(F, l)[m] = F[m]
<1>1. DOMAIN F = Places
  BY DEF IsFamily
<1> QED BY <1>1 DEF Dropped, IsFamily

(* Emptying one place, place by place. *)
LEMMA EmptiedAt ==
  ASSUME NEW F, IsFamily(F), NEW l \in Places
  PROVE  /\ IsFamily(Emptied(F, l)) /\ Emptied(F, l)[l] = <<>>
         /\ \A m \in Places : m # l => Emptied(F, l)[m] = F[m]
<1>1. DOMAIN F = Places
  BY DEF IsFamily
<1> QED BY <1>1 DEF Emptied, IsFamily

(* A push at one place, place by place. *)
LEMMA ExtendedAt ==
  ASSUME NEW F, IsFamily(F), NEW l \in Places, NEW s
  PROVE  /\ IsFamily(Extended(F, l, s)) /\ Extended(F, l, s)[l] = F[l] \o s
         /\ \A m \in Places : m # l => Extended(F, l, s)[m] = F[m]
<1>1. DOMAIN F = Places
  BY DEF IsFamily
<1> QED BY <1>1 DEF Extended, IsFamily

(* The queues are a family over the places, before and after a step. *)
LEMMA QueuesFamily == IsFamily(Queues) /\ IsFamily(Queues')
<1>1. Queues = [l \in Places |-> Queues[l]]
  BY DEF Queues
<1>2. Queues' = [l \in Places |-> Queues'[l]]
  BY DEF Queues
<1> QED BY <1>1, <1>2 DEF IsFamily

(* The steps, from what they do at each place. *)
LEMMA BecomesExtended ==
  ASSUME NEW l \in Places, NEW s, Queues'[l] = Queues[l] \o s,
         \A m \in Places : m # l => Queues'[m] = Queues[m]
  PROVE  Queues' = Extended(Queues, l, s)
<1> DEFINE G == Extended(Queues, l, s)
<1>1. /\ IsFamily(G) /\ G[l] = Queues[l] \o s
      /\ \A m \in Places : m # l => G[m] = Queues[m]
  BY QueuesFamily, ExtendedAt
<1> HIDE DEF G
<1>2. \A m \in Places : Queues'[m] = G[m]
  BY <1>1
<1>3. Queues' = G
  BY <1>1, <1>2, SameQueues DEF IsFamily
<1> QED BY <1>3 DEF G

(* A step that moves one payload from a queue to another, as a shift of the
   family. *)
LEMMA BecomesShift ==
  ASSUME NEW l \in Places, NEW k \in Places, l # k,
         Queues'[l] = Rest(Queues[l]), Queues'[k] = Moved(Queues[k], Queues[l]),
         \A m \in Places : m # l /\ m # k => Queues'[m] = Queues[m]
  PROVE  Queues' = Shift(Queues, l, k)
<1> DEFINE G == Shift(Queues, l, k)
<1>1. /\ IsFamily(G) /\ G[l] = Rest(Queues[l]) /\ G[k] = Moved(Queues[k], Queues[l])
      /\ \A m \in Places : m # l /\ m # k => G[m] = Queues[m]
  BY QueuesFamily, ShiftAt
<1> HIDE DEF G
<1>2. \A m \in Places : Queues'[m] = G[m]
  BY <1>1
<1>3. Queues' = G
  BY <1>1, <1>2, SameQueues DEF IsFamily
<1> QED BY <1>3 DEF G

(* Two moves that do not meet, or meet at the end of one queue. *)
LEMMA BecomesShifts ==
  ASSUME NEW l \in Places, NEW k \in Places, NEW m \in Places, NEW n \in Places,
         l # k, m # n, l # m, l # n, m # k,
         Queues'[l] = Rest(Queues[l]), Queues'[m] = Rest(Queues[m]),
         k # n => /\ Queues'[k] = Moved(Queues[k], Queues[l])
                  /\ Queues'[n] = Moved(Queues[n], Queues[m]),
         k = n => Queues'[k] = Moved(Moved(Queues[k], Queues[l]), Queues[m]),
         \A x \in Places : x \notin {l, k, m, n} => Queues'[x] = Queues[x]
  PROVE  Queues' = Shift(Shift(Queues, l, k), m, n)
<1> DEFINE F == Shift(Queues, l, k)
           G == Shift(F, m, n)
<1>1. /\ IsFamily(F) /\ F[l] = Rest(Queues[l]) /\ F[k] = Moved(Queues[k], Queues[l])
      /\ \A x \in Places : x # l /\ x # k => F[x] = Queues[x]
  BY QueuesFamily, ShiftAt
<1> HIDE DEF F
<1>2. /\ IsFamily(G) /\ G[m] = Rest(F[m]) /\ G[n] = Moved(F[n], F[m])
      /\ \A x \in Places : x # m /\ x # n => G[x] = F[x]
  BY <1>1, ShiftAt
<1> HIDE DEF G
<1>3. ASSUME NEW x \in Places PROVE Queues'[x] = G[x]
  <2>1. CASE x = l
    BY <1>1, <1>2, <2>1
  <2>2. CASE x = m
    BY <1>1, <1>2, <2>2
  <2>3. CASE x = k /\ k # n
    BY <1>1, <1>2, <2>3
  <2>4. CASE x = n /\ k # n
    BY <1>1, <1>2, <2>4
  <2>5. CASE x = n /\ k = n
    BY <1>1, <1>2, <2>5
  <2>6. CASE x \notin {l, k, m, n}
    BY <1>1, <1>2, <2>6
  <2> QED BY <2>1, <2>2, <2>3, <2>4, <2>5, <2>6
<1>4. Queues' = G
  BY <1>2, <1>3, SameQueues DEF IsFamily
<1> QED BY <1>4 DEF F, G

(* The places that a step does not name keep their queues. *)
LEMMA OthersKept ==
  ASSUME NEW N, NEW h, OnlyAt(N, h), NEW l \in Places,
         \A n \in N : l # IF n \in HostPlaces THEN <<n, h>> ELSE NoOf(n)
  PROVE  Queues'[l] = Queues[l]
<1> USE DEF HostPlaces
<1>1. PlacesRead /\ PlacesRead'
  BY AtPlaces
<1>2. ASSUME NEW g \in Hosts, l = <<"r_queue", g>>
      PROVE  Queues'[l] = Queues[l]
  <2>1. r_queue'[g] = r_queue[g]
    BY <1>2 DEF OnlyAt
  <2> QED BY <1>1, <1>2, <2>1 DEF PlacesRead
<1>3. ASSUME NEW g \in Hosts, l = <<"w_queue", g>>
      PROVE  Queues'[l] = Queues[l]
  <2>1. w_queue'[g] = w_queue[g]
    BY <1>3 DEF OnlyAt
  <2> QED BY <1>1, <1>3, <2>1 DEF PlacesRead
<1>4. ASSUME NEW g \in Hosts, l = <<"fw_r", g>>
      PROVE  Queues'[l] = Queues[l]
  <2>1. fw_r'[g] = fw_r[g]
    BY <1>4 DEF OnlyAt
  <2> QED BY <1>1, <1>4, <2>1 DEF PlacesRead
<1>5. ASSUME NEW g \in Hosts, l = <<"fw_w", g>>
      PROVE  Queues'[l] = Queues[l]
  <2>1. fw_w'[g] = fw_w[g]
    BY <1>5 DEF OnlyAt
  <2> QED BY <1>1, <1>5, <2>1 DEF PlacesRead
<1>6. ASSUME NEW g \in Hosts, l = <<"bw_r", g>>
      PROVE  Queues'[l] = Queues[l]
  <2>1. bw_r'[g] = bw_r[g]
    BY <1>6 DEF OnlyAt
  <2> QED BY <1>1, <1>6, <2>1 DEF PlacesRead
<1>7. ASSUME NEW g \in Hosts, l = <<"bw_w", g>>
      PROVE  Queues'[l] = Queues[l]
  <2>1. bw_w'[g] = bw_w[g]
    BY <1>7 DEF OnlyAt
  <2> QED BY <1>1, <1>7, <2>1 DEF PlacesRead
<1>8. ASSUME NEW g \in Hosts, l = <<"rack_incoming", g>>
      PROVE  Queues'[l] = Queues[l]
  <2>1. rack_incoming'[g] = rack_incoming[g]
    BY <1>8 DEF OnlyAt
  <2>2. Queues[l] = Sim!Slot(rack_incoming[g])
    BY <1>1, <1>8 DEF PlacesRead
  <2>3. Queues'[l] = Sim!Slot(rack_incoming'[g])
    BY <1>1, <1>8 DEF PlacesRead
  <2> QED BY <2>1, <2>2, <2>3
<1>9. ASSUME NEW g \in Hosts, l = <<"wack_incoming", g>>
      PROVE  Queues'[l] = Queues[l]
  <2>1. wack_incoming'[g] = wack_incoming[g]
    BY <1>9 DEF OnlyAt
  <2>2. Queues[l] = Sim!Slot(wack_incoming[g])
    BY <1>1, <1>9 DEF PlacesRead
  <2>3. Queues'[l] = Sim!Slot(wack_incoming'[g])
    BY <1>1, <1>9 DEF PlacesRead
  <2> QED BY <2>1, <2>2, <2>3
<1>10. ASSUME NEW g \in Hosts, l = <<"rack_queue", g>>
      PROVE  Queues'[l] = Queues[l]
  <2>1. rack_queue'[g] = rack_queue[g]
    BY <1>10 DEF OnlyAt
  <2> QED BY <1>1, <1>10, <2>1 DEF PlacesRead
<1>11. ASSUME NEW g \in Hosts, l = <<"wack_queue", g>>
      PROVE  Queues'[l] = Queues[l]
  <2>1. wack_queue'[g] = wack_queue[g]
    BY <1>11 DEF OnlyAt
  <2> QED BY <1>1, <1>11, <2>1 DEF PlacesRead
<1>12. ASSUME l = NoOf("c_r")
      PROVE  Queues'[l] = Queues[l]
  <2>1. c_r' = c_r
    BY <1>12 DEF OnlyAt
  <2> QED BY <1>1, <1>12, <2>1 DEF PlacesRead
<1>13. ASSUME l = NoOf("c_w")
      PROVE  Queues'[l] = Queues[l]
  <2>1. c_w' = c_w
    BY <1>13 DEF OnlyAt
  <2> QED BY <1>1, <1>13, <2>1 DEF PlacesRead
<1>14. ASSUME l = NoOf("m_r")
      PROVE  Queues'[l] = Queues[l]
  <2>1. m_r' = m_r
    BY <1>14 DEF OnlyAt
  <2> QED BY <1>1, <1>14, <2>1 DEF PlacesRead
<1>15. ASSUME l = NoOf("m_w")
      PROVE  Queues'[l] = Queues[l]
  <2>1. m_w' = m_w
    BY <1>15 DEF OnlyAt
  <2> QED BY <1>1, <1>15, <2>1 DEF PlacesRead
<1>16. ASSUME l = NoOf("mem_request")
      PROVE  Queues'[l] = Queues[l]
  <2>1. mem_request' = mem_request
    BY <1>16 DEF OnlyAt
  <2> QED BY <1>1, <1>16, <2>1 DEF PlacesRead
<1>17. ASSUME l = NoOf("m_rack")
      PROVE  Queues'[l] = Queues[l]
  <2>1. m_rack' = m_rack
    BY <1>17 DEF OnlyAt
  <2> QED BY <1>1, <1>17, <2>1 DEF PlacesRead
<1>18. ASSUME l = NoOf("m_wack")
      PROVE  Queues'[l] = Queues[l]
  <2>1. m_wack' = m_wack
    BY <1>18 DEF OnlyAt
  <2> QED BY <1>1, <1>18, <2>1 DEF PlacesRead
<1>19. ASSUME l = NoOf("c_rack")
      PROVE  Queues'[l] = Queues[l]
  <2>1. c_rack' = c_rack
    BY <1>19 DEF OnlyAt
  <2> QED BY <1>1, <1>19, <2>1 DEF PlacesRead
<1>20. ASSUME l = NoOf("c_wack")
      PROVE  Queues'[l] = Queues[l]
  <2>1. c_wack' = c_wack
    BY <1>20 DEF OnlyAt
  <2> QED BY <1>1, <1>20, <2>1 DEF PlacesRead
<1> QED BY <1>2, <1>3, <1>4, <1>5, <1>6, <1>7, <1>8, <1>9, <1>10, <1>11,
           <1>12, <1>13, <1>14, <1>15, <1>16, <1>17, <1>18, <1>19, <1>20, EveryPlace

(* A read packet cut into payloads extends its wrapper's read queue and no other.
   *)
LEMMA ReadCutQueues ==
  ASSUME NEW h \in Hosts, ReadCut(h), TypeInv
  PROVE  Queues' = Extended(Queues, <<"r_queue", h>>, ReadPayloads(h, pkt[h]))
<1>1. UNCHANGED <<w_queue, rack_queue, wack_queue, rack_incoming, wack_incoming,
                  linkVars, switchVars, memVars>>
      /\ r_queue' = [r_queue EXCEPT ![h] = r_queue[h] \o ReadPayloads(h, pkt[h])]
  BY HandleReadDoes DEF ReadCut
<1>2. OnlyAt({"r_queue"}, h)
  BY <1>1 DEF OnlyAt, linkVars, switchVars, memVars
<1>3. <<"r_queue", h>> \in Places /\ h \in DOMAIN r_queue
  BY DEF Places, HostPlaces, TypeInv, QueuesTyped
<1>4. Queues'[<<"r_queue", h>>] = Queues[<<"r_queue", h>>] \o ReadPayloads(h, pkt[h])
  BY <1>1, <1>3, AtPlaces DEF PlacesRead
<1>5. \A l \in Places : l # <<"r_queue", h>> => Queues'[l] = Queues[l]
  BY <1>2, OthersKept DEF HostPlaces
<1> QED BY <1>3, <1>4, <1>5, BecomesExtended

(* A write packet cut into payloads extends its wrapper's write queue and no
   other. *)
LEMMA WriteCutQueues ==
  ASSUME NEW h \in Hosts, WriteCut(h), TypeInv
  PROVE  Queues' = Extended(Queues, <<"w_queue", h>>, WritePayloads(h, pkt[h]))
<1>1. UNCHANGED <<r_queue, rack_queue, wack_queue, rack_incoming, wack_incoming,
                  linkVars, switchVars, memVars>>
      /\ w_queue' = [w_queue EXCEPT ![h] = w_queue[h] \o WritePayloads(h, pkt[h])]
  BY HandleWriteDoes DEF WriteCut
<1>2. OnlyAt({"w_queue"}, h)
  BY <1>1 DEF OnlyAt, linkVars, switchVars, memVars
<1>3. <<"w_queue", h>> \in Places /\ h \in DOMAIN w_queue
  BY DEF Places, HostPlaces, TypeInv, QueuesTyped
<1>4. Queues'[<<"w_queue", h>>] = Queues[<<"w_queue", h>>] \o WritePayloads(h, pkt[h])
  BY <1>1, <1>3, AtPlaces DEF PlacesRead
<1>5. \A l \in Places : l # <<"w_queue", h>> => Queues'[l] = Queues[l]
  BY <1>2, OthersKept DEF HostPlaces
<1> QED BY <1>3, <1>4, <1>5, BecomesExtended

(* The wrapper's clock edges. *)
LEMMA SlotMoves ==
  ASSUME NEW s \in Payload \cup {NoPayload}, NEW q \in Seq(Payload)
  PROVE  q \o Sim!Slot(s) = Moved(q, Sim!Slot(s)) /\ Rest(Sim!Slot(s)) = <<>>
<1>1. CASE s = NoPayload
  BY <1>1, SlotFacts, ConcatEmptySeq DEF Rest, Moved
<1>2. CASE s # NoPayload
  <2>1. Sim!Slot(s) = <<s>> /\ s \in Payload
    BY <1>2, SlotFacts
  <2>2. q \o <<s>> = Append(q, s)
    BY <2>1, AppendIsConcat
  <2>3. <<s>> # <<>> /\ Head(<<s>>) = s /\ Tail(<<s>>) = <<>>
    OBVIOUS
  <2> QED BY <2>1, <2>2, <2>3 DEF Rest, Moved
<1> QED BY <1>1, <1>2

(* A rising edge moves the acks handed over into the wrapper's ack queues. *)
LEMMA PosedgeShifts ==
  ASSUME NEW h \in Hosts, SimPosedge(h), TypeInv
  PROVE  Queues' = Shift(Shift(Queues, <<"rack_incoming", h>>, <<"rack_queue", h>>),
                         <<"wack_incoming", h>>, <<"wack_queue", h>>)
<1> DEFINE l == <<"rack_incoming", h>>
           k == <<"rack_queue", h>>
           m == <<"wack_incoming", h>>
           n == <<"wack_queue", h>>
<1>1. PosedgeQueues(h)
  BY PosedgeDoes
<1>2. OnlyAt({"rack_incoming", "rack_queue", "wack_incoming", "wack_queue"}, h)
  BY <1>1 DEF OnlyAt, PosedgeQueues, switchVars, memVars
<1>3. \A x \in Places : x \notin {l, k, m, n} => Queues'[x] = Queues[x]
  BY <1>2, OthersKept DEF HostPlaces
<1>4. l \in Places /\ k \in Places /\ m \in Places /\ n \in Places
  BY DEF Places, HostPlaces
<1>5. l # k /\ m # n /\ l # m /\ l # n /\ m # k /\ k # n
  OBVIOUS
<1>6. /\ h \in DOMAIN rack_queue /\ h \in DOMAIN wack_queue
      /\ h \in DOMAIN rack_incoming /\ h \in DOMAIN wack_incoming
      /\ rack_queue[h] \in Seq(Payload) /\ wack_queue[h] \in Seq(Payload)
      /\ rack_incoming[h] \in Payload \cup {NoPayload}
      /\ wack_incoming[h] \in Payload \cup {NoPayload}
  BY DEF TypeInv, QueuesTyped
<1>7. /\ rack_queue'[h] = rack_queue[h] \o Sim!Slot(rack_incoming[h])
      /\ wack_queue'[h] = wack_queue[h] \o Sim!Slot(wack_incoming[h])
      /\ Sim!Slot(rack_incoming'[h]) = <<>> /\ Sim!Slot(wack_incoming'[h]) = <<>>
  BY <1>1, <1>6 DEF PosedgeQueues, Sim!Slot
<1>8. /\ Queues[l] = Sim!Slot(rack_incoming[h]) /\ Queues[k] = rack_queue[h]
      /\ Queues[m] = Sim!Slot(wack_incoming[h]) /\ Queues[n] = wack_queue[h]
  BY AtPlaces DEF PlacesRead
<1>9. /\ Queues'[l] = Sim!Slot(rack_incoming'[h]) /\ Queues'[k] = rack_queue'[h]
      /\ Queues'[m] = Sim!Slot(wack_incoming'[h]) /\ Queues'[n] = wack_queue'[h]
  BY AtPlaces DEF PlacesRead
<1>10. /\ Queues'[l] = Rest(Queues[l]) /\ Queues'[k] = Moved(Queues[k], Queues[l])
       /\ Queues'[m] = Rest(Queues[m]) /\ Queues'[n] = Moved(Queues[n], Queues[m])
  BY <1>6, <1>7, <1>8, <1>9, SlotMoves
<1> HIDE DEF l, k, m, n
<1>11. Queues' = Shift(Shift(Queues, l, k), m, n)
  BY <1>3, <1>4, <1>5, <1>10, BecomesShifts
<1> QED BY <1>11 DEF l, k, m, n

(* A falling edge moves a request of each kind to the port and consumes an ack of
   each kind. *)
LEMMA NegedgeShifts ==
  ASSUME NEW h \in Hosts, SimNegedge(h), TypeInv
  PROVE  Queues' = Dropped(Dropped(
                     Shift(Shift(Queues, <<"r_queue", h>>, <<"fw_r", h>>),
                           <<"w_queue", h>>, <<"fw_w", h>>),
                     <<"rack_queue", h>>), <<"wack_queue", h>>)
<1> DEFINE l == <<"r_queue", h>>
           k == <<"fw_r", h>>
           m == <<"w_queue", h>>
           n == <<"fw_w", h>>
           r == <<"rack_queue", h>>
           w == <<"wack_queue", h>>
           F == Shift(Queues, l, k)
           G == Shift(F, m, n)
           H == Dropped(G, r)
           I == Dropped(H, w)
<1>1. NegedgeQueues(h)
  BY NegedgeDoes
<1>2. OnlyAt({"r_queue", "w_queue", "fw_r", "fw_w", "rack_queue", "wack_queue"}, h)
  BY <1>1 DEF OnlyAt, NegedgeQueues, switchVars, memVars
<1>3. \A x \in Places : x \notin {l, k, m, n, r, w} => Queues'[x] = Queues[x]
  BY <1>2, OthersKept DEF HostPlaces
<1>4. l \in Places /\ k \in Places /\ m \in Places /\ n \in Places
      /\ r \in Places /\ w \in Places
  BY DEF Places, HostPlaces
<1>5. /\ l # k /\ l # m /\ l # n /\ l # r /\ l # w
      /\ k # m /\ k # n /\ k # r /\ k # w
      /\ m # n /\ m # r /\ m # w /\ n # r /\ n # w /\ r # w
  OBVIOUS
<1>6. /\ r_queue[h] \in Seq(Payload) /\ w_queue[h] \in Seq(Payload)
      /\ rack_queue[h] \in Seq(Payload) /\ wack_queue[h] \in Seq(Payload)
      /\ fw_r[h] \in Seq(Payload) /\ fw_w[h] \in Seq(Payload)
  BY DEF TypeInv, QueuesTyped, LinkTyped
<1>7. /\ h \in DOMAIN r_queue /\ h \in DOMAIN w_queue
      /\ h \in DOMAIN rack_queue /\ h \in DOMAIN wack_queue
      /\ h \in DOMAIN fw_r /\ h \in DOMAIN fw_w
  BY DEF TypeInv, QueuesTyped, LinkTyped
<1>8. /\ fw_r[h] \o Front(r_queue[h]) = Moved(fw_r[h], r_queue[h])
      /\ fw_w[h] \o Front(w_queue[h]) = Moved(fw_w[h], w_queue[h])
  <2>1. \A q, d \in Seq(Payload) : Moved(d, q) = d \o Front(q)
    BY QueueHelpers
  <2> QED BY <1>6, <2>1
<1>9. /\ r_queue'[h] = Rest(r_queue[h]) /\ fw_r'[h] = Moved(fw_r[h], r_queue[h])
      /\ w_queue'[h] = Rest(w_queue[h]) /\ fw_w'[h] = Moved(fw_w[h], w_queue[h])
      /\ rack_queue'[h] = Rest(rack_queue[h]) /\ wack_queue'[h] = Rest(wack_queue[h])
  BY <1>1, <1>7, <1>8 DEF NegedgeQueues
<1>10. /\ Queues[l] = r_queue[h] /\ Queues[k] = fw_r[h]
       /\ Queues[m] = w_queue[h] /\ Queues[n] = fw_w[h]
       /\ Queues[r] = rack_queue[h] /\ Queues[w] = wack_queue[h]
  BY AtPlaces DEF PlacesRead
<1>11. /\ Queues'[l] = r_queue'[h] /\ Queues'[k] = fw_r'[h]
       /\ Queues'[m] = w_queue'[h] /\ Queues'[n] = fw_w'[h]
       /\ Queues'[r] = rack_queue'[h] /\ Queues'[w] = wack_queue'[h]
  BY AtPlaces DEF PlacesRead
<1>12. /\ Queues'[l] = Rest(Queues[l]) /\ Queues'[k] = Moved(Queues[k], Queues[l])
       /\ Queues'[m] = Rest(Queues[m]) /\ Queues'[n] = Moved(Queues[n], Queues[m])
       /\ Queues'[r] = Rest(Queues[r]) /\ Queues'[w] = Rest(Queues[w])
  BY <1>9, <1>10, <1>11
<1> HIDE DEF l, k, m, n, r, w
<1>13. /\ IsFamily(F) /\ F[l] = Rest(Queues[l]) /\ F[k] = Moved(Queues[k], Queues[l])
       /\ \A x \in Places : x # l /\ x # k => F[x] = Queues[x]
  BY <1>4, <1>5, QueuesFamily, ShiftAt
<1> HIDE DEF F
<1>14. /\ IsFamily(G) /\ G[m] = Rest(F[m]) /\ G[n] = Moved(F[n], F[m])
       /\ \A x \in Places : x # m /\ x # n => G[x] = F[x]
  BY <1>4, <1>5, <1>13, ShiftAt
<1> HIDE DEF G
<1>15. /\ IsFamily(H) /\ H[r] = Rest(G[r])
       /\ \A x \in Places : x # r => H[x] = G[x]
  BY <1>4, <1>14, DroppedAt
<1> HIDE DEF H
<1>16. /\ IsFamily(I) /\ I[w] = Rest(H[w])
       /\ \A x \in Places : x # w => I[x] = H[x]
  BY <1>4, <1>15, DroppedAt
<1> HIDE DEF I
<1>17. ASSUME NEW x \in Places PROVE Queues'[x] = I[x]
  <2>1. CASE x = l
    BY <1>4, <1>5, <1>12, <1>13, <1>14, <1>15, <1>16, <2>1
  <2>2. CASE x = k
    BY <1>4, <1>5, <1>12, <1>13, <1>14, <1>15, <1>16, <2>2
  <2>3. CASE x = m
    BY <1>4, <1>5, <1>12, <1>13, <1>14, <1>15, <1>16, <2>3
  <2>4. CASE x = n
    BY <1>4, <1>5, <1>12, <1>13, <1>14, <1>15, <1>16, <2>4
  <2>5. CASE x = r
    BY <1>4, <1>5, <1>12, <1>13, <1>14, <1>15, <1>16, <2>5
  <2>6. CASE x = w
    BY <1>4, <1>5, <1>12, <1>13, <1>14, <1>15, <1>16, <2>6
  <2>7. CASE x \notin {l, k, m, n, r, w}
    BY <1>3, <1>13, <1>14, <1>15, <1>16, <2>7
  <2> QED BY <2>1, <2>2, <2>3, <2>4, <2>5, <2>6, <2>7
<1>18. Queues' = I
  BY <1>16, <1>17, SameQueues DEF IsFamily
<1> QED BY <1>18 DEF F, G, H, I, l, k, m, n, r, w

(* The ports, the controller and the memory move one request or ack. *)
LEMMA ForwardShifts ==
  ASSUME NEW h \in Hosts, LinkForward(h), TypeInv
  PROVE  \/ /\ fw_r[h] # <<>>
            /\ Queues' = Shift(Queues, <<"fw_r", h>>, NoOf("c_r"))
            /\ r_trans_id' = [r_trans_id EXCEPT ![Head(fw_r[h]).addr] = h]
            /\ w_trans_id' = w_trans_id
         \/ /\ fw_w[h] # <<>>
            /\ Queues' = Shift(Queues, <<"fw_w", h>>, NoOf("c_w"))
            /\ w_trans_id' = [w_trans_id EXCEPT ![Head(fw_w[h]).addr] = h]
            /\ r_trans_id' = r_trans_id
<1>1. /\ UNCHANGED <<simVars, hostVars, memVars>>
      /\ UNCHANGED <<bw_r, bw_w, paced_r, paced_w, c_rack, c_wack>>
  BY ForwardDoes
<1>2. h \in DOMAIN fw_r /\ h \in DOMAIN fw_w
  BY DEF TypeInv, LinkTyped
<1>3. /\ <<"fw_r", h>> \in Places /\ NoOf("c_r") \in Places
      /\ <<"fw_w", h>> \in Places /\ NoOf("c_w") \in Places
      /\ <<"fw_r", h>> # NoOf("c_r") /\ <<"fw_w", h>> # NoOf("c_w")
  BY DEF Places, HostPlaces, SharedPlaces, NoOf
<1>4. ASSUME fw_r[h] # <<>>, fw_r' = [fw_r EXCEPT ![h] = Tail(fw_r[h])],
             c_r' = Append(c_r, Head(fw_r[h])), UNCHANGED <<fw_w, c_w>>
      PROVE  Queues' = Shift(Queues, <<"fw_r", h>>, NoOf("c_r"))
  <2>1. OnlyAt({"fw_r", "c_r"}, h)
    BY <1>1, <1>4 DEF OnlyAt, simVars, memVars
  <2>2. \A x \in Places : x # <<"fw_r", h>> /\ x # NoOf("c_r") => Queues'[x] = Queues[x]
    BY <2>1, OthersKept DEF HostPlaces
  <2>3. Queues'[<<"fw_r", h>>] = Rest(Queues[<<"fw_r", h>>])
    BY <1>2, <1>4, AtPlaces DEF PlacesRead, Rest
  <2>4. Queues'[NoOf("c_r")] = Moved(Queues[NoOf("c_r")], Queues[<<"fw_r", h>>])
    BY <1>4, AtPlaces DEF PlacesRead, Moved
  <2> QED BY <1>3, <2>2, <2>3, <2>4, BecomesShift
<1>5. ASSUME fw_w[h] # <<>>, fw_w' = [fw_w EXCEPT ![h] = Tail(fw_w[h])],
             c_w' = Append(c_w, Head(fw_w[h])), UNCHANGED <<fw_r, c_r>>
      PROVE  Queues' = Shift(Queues, <<"fw_w", h>>, NoOf("c_w"))
  <2>1. OnlyAt({"fw_w", "c_w"}, h)
    BY <1>1, <1>5 DEF OnlyAt, simVars, memVars
  <2>2. \A x \in Places : x # <<"fw_w", h>> /\ x # NoOf("c_w") => Queues'[x] = Queues[x]
    BY <2>1, OthersKept DEF HostPlaces
  <2>3. Queues'[<<"fw_w", h>>] = Rest(Queues[<<"fw_w", h>>])
    BY <1>2, <1>5, AtPlaces DEF PlacesRead, Rest
  <2>4. Queues'[NoOf("c_w")] = Moved(Queues[NoOf("c_w")], Queues[<<"fw_w", h>>])
    BY <1>5, AtPlaces DEF PlacesRead, Moved
  <2> QED BY <1>3, <2>2, <2>3, <2>4, BecomesShift
<1> QED BY <1>4, <1>5, ForwardDoes

(* The controller moves a request to the memory; a write is stored on the way. *)
LEMMA SwitchForwardShifts ==
  ASSUME SwitchForward, TypeInv
  PROVE  \/ /\ c_r # <<>> /\ mem_data' = mem_data
            /\ Queues' = Shift(Queues, NoOf("c_r"), NoOf("m_r"))
         \/ /\ c_w # <<>>
            /\ mem_data' = [mem_data EXCEPT ![Head(c_w).addr] = Head(c_w).data]
            /\ Queues' = Shift(Queues, NoOf("c_w"), NoOf("m_w"))
<1>1. /\ UNCHANGED <<simVars, hostVars, linkVars>>
      /\ UNCHANGED <<c_rack, c_wack, mem_request, m_rack, m_wack>>
  BY SwitchForwardDoes
<1>2. /\ NoOf("m_r") \in Places /\ NoOf("c_r") \in Places
      /\ NoOf("m_w") \in Places /\ NoOf("c_w") \in Places
      /\ NoOf("m_r") # NoOf("c_r") /\ NoOf("m_w") # NoOf("c_w")
  BY DEF Places, SharedPlaces, NoOf
<1>3. ASSUME c_r # <<>>, c_r' = Tail(c_r), m_r' = Append(m_r, Head(c_r)),
             UNCHANGED <<c_w, m_w>>
      PROVE  Queues' = Shift(Queues, NoOf("c_r"), NoOf("m_r"))
  <2>1. OnlyAt({"c_r", "m_r"}, NoHost)
    BY <1>1, <1>3 DEF OnlyAt, simVars, linkVars
  <2>2. \A x \in Places : x # NoOf("c_r") /\ x # NoOf("m_r") => Queues'[x] = Queues[x]
    BY <2>1, OthersKept DEF HostPlaces
  <2>3. Queues'[NoOf("c_r")] = Rest(Queues[NoOf("c_r")])
    BY <1>3, AtPlaces DEF PlacesRead, Rest
  <2>4. Queues'[NoOf("m_r")] = Moved(Queues[NoOf("m_r")], Queues[NoOf("c_r")])
    BY <1>3, AtPlaces DEF PlacesRead, Moved
  <2> QED BY <1>2, <2>2, <2>3, <2>4, BecomesShift
<1>4. ASSUME c_w # <<>>, c_w' = Tail(c_w), m_w' = Append(m_w, Head(c_w)),
             UNCHANGED <<c_r, m_r>>
      PROVE  Queues' = Shift(Queues, NoOf("c_w"), NoOf("m_w"))
  <2>1. OnlyAt({"c_w", "m_w"}, NoHost)
    BY <1>1, <1>4 DEF OnlyAt, simVars, linkVars
  <2>2. \A x \in Places : x # NoOf("c_w") /\ x # NoOf("m_w") => Queues'[x] = Queues[x]
    BY <2>1, OthersKept DEF HostPlaces
  <2>3. Queues'[NoOf("c_w")] = Rest(Queues[NoOf("c_w")])
    BY <1>4, AtPlaces DEF PlacesRead, Rest
  <2>4. Queues'[NoOf("m_w")] = Moved(Queues[NoOf("m_w")], Queues[NoOf("c_w")])
    BY <1>4, AtPlaces DEF PlacesRead, Moved
  <2> QED BY <1>2, <2>2, <2>3, <2>4, BecomesShift
<1> QED BY <1>3, <1>4, SwitchForwardDoes

(* A rising edge of the memory moves its two request queues into one. *)
LEMMA MemPosedgeShifts ==
  ASSUME MemPosedge, TypeInv
  PROVE  Queues' = Shift(Shift(Queues, NoOf("m_r"), NoOf("mem_request")),
                         NoOf("m_w"), NoOf("mem_request"))
<1> DEFINE l == NoOf("m_r")
           k == NoOf("mem_request")
           m == NoOf("m_w")
<1>1. /\ UNCHANGED <<simVars, hostVars, linkVars, switchVars>>
      /\ mem_request' = Moved(Moved(mem_request, m_r), m_w)
      /\ m_r' = Rest(m_r) /\ m_w' = Rest(m_w)
      /\ UNCHANGED <<m_rack, m_wack>>
  BY MemPosedgeDoes
<1>2. OnlyAt({"m_r", "m_w", "mem_request"}, NoHost)
  BY <1>1 DEF OnlyAt, simVars, linkVars, switchVars
<1>3. \A x \in Places : x \notin {l, k, m} => Queues'[x] = Queues[x]
  BY <1>2, OthersKept DEF HostPlaces
<1>4. l \in Places /\ k \in Places /\ m \in Places
  BY DEF Places, SharedPlaces, NoOf
<1>5. l # k /\ m # k /\ l # m
  BY DEF NoOf
<1>6. /\ Queues[l] = m_r /\ Queues[k] = mem_request /\ Queues[m] = m_w
      /\ Queues'[l] = m_r' /\ Queues'[k] = mem_request' /\ Queues'[m] = m_w'
  BY AtPlaces DEF PlacesRead
<1>7. /\ Queues'[l] = Rest(Queues[l]) /\ Queues'[m] = Rest(Queues[m])
      /\ Queues'[k] = Moved(Moved(Queues[k], Queues[l]), Queues[m])
  BY <1>1, <1>6
<1> HIDE DEF l, k, m
<1>8. Queues' = Shift(Shift(Queues, l, k), m, k)
  BY <1>3, <1>4, <1>5, <1>7, BecomesShifts
<1> QED BY <1>8 DEF l, k, m

(* A falling edge of the memory moves an ack of each kind to the controller. *)
LEMMA MemNegedgeShifts ==
  ASSUME MemNegedge, TypeInv
  PROVE  Queues' = Shift(Shift(Queues, NoOf("m_rack"), NoOf("c_rack")),
                         NoOf("m_wack"), NoOf("c_wack"))
<1> DEFINE l == NoOf("m_rack")
           k == NoOf("c_rack")
           m == NoOf("m_wack")
           n == NoOf("c_wack")
<1>1. /\ UNCHANGED <<simVars, hostVars, linkVars>>
      /\ m_rack' = Rest(m_rack) /\ m_wack' = Rest(m_wack)
      /\ c_rack' = c_rack \o Front(m_rack) /\ c_wack' = c_wack \o Front(m_wack)
      /\ UNCHANGED <<c_r, c_w, m_r, m_w, mem_request>>
  BY MemNegedgeDoes
<1>2. OnlyAt({"m_rack", "m_wack", "c_rack", "c_wack"}, NoHost)
  BY <1>1 DEF OnlyAt, simVars, linkVars
<1>3. \A x \in Places : x \notin {l, k, m, n} => Queues'[x] = Queues[x]
  BY <1>2, OthersKept DEF HostPlaces
<1>4. l \in Places /\ k \in Places /\ m \in Places /\ n \in Places
  BY DEF Places, SharedPlaces, NoOf
<1>5. l # k /\ m # n /\ l # m /\ l # n /\ m # k /\ k # n
  BY DEF NoOf
<1>6. /\ Queues[l] = m_rack /\ Queues[k] = c_rack
      /\ Queues[m] = m_wack /\ Queues[n] = c_wack
      /\ Queues'[l] = m_rack' /\ Queues'[k] = c_rack'
      /\ Queues'[m] = m_wack' /\ Queues'[n] = c_wack'
  BY AtPlaces DEF PlacesRead
<1>7. c_rack' = Moved(c_rack, m_rack) /\ c_wack' = Moved(c_wack, m_wack)
  <2>1. \A q, d \in Seq(Payload) : Moved(d, q) = d \o Front(q)
    BY QueueHelpers
  <2> QED BY <1>1, <2>1 DEF TypeInv, SwitchTyped, MemTyped
<1>8. /\ Queues'[l] = Rest(Queues[l]) /\ Queues'[m] = Rest(Queues[m])
      /\ Queues'[k] = Moved(Queues[k], Queues[l])
      /\ Queues'[n] = Moved(Queues[n], Queues[m])
  BY <1>1, <1>6, <1>7
<1> HIDE DEF l, k, m, n
<1>9. Queues' = Shift(Shift(Queues, l, k), m, n)
  BY <1>3, <1>4, <1>5, <1>8, BecomesShifts
<1> QED BY <1>9 DEF l, k, m, n

(* The DRAM takes what waits for it, and gives at most one request back. *)
LEMMA DramExtends ==
  ASSUME SimulateDram, TypeInv
  PROVE  \E done :
           /\ done = {} \/ \E p \in dram : done = {p}
           /\ dram' = (dram \ done) \cup Items(mem_request)
           /\ Queues' = Extended(Extended(Emptied(Queues, NoOf("mem_request")),
                                          NoOf("m_rack"), Mem!Acks(done, "R")),
                                 NoOf("m_wack"), Mem!Acks(done, "W"))
<1> DEFINE e == NoOf("mem_request")
           r == NoOf("m_rack")
           w == NoOf("m_wack")
<1>1. UNCHANGED <<simVars, hostVars, linkVars, switchVars, m_r, m_w>>
      /\ mem_request' = <<>>
  BY SimulateDramDoes
<1>2. PICK done : /\ done = {} \/ \E p \in dram : done = {p}
                  /\ m_rack' = m_rack \o Mem!Acks(done, "R")
                  /\ m_wack' = m_wack \o Mem!Acks(done, "W")
                  /\ dram' = (dram \ done) \cup Items(mem_request)
  BY SimulateDramDoes
<1> DEFINE rs == Mem!Acks(done, "R")
           ws == Mem!Acks(done, "W")
           F == Emptied(Queues, e)
           G == Extended(F, r, rs)
           H == Extended(G, w, ws)
<1>3. OnlyAt({"mem_request", "m_rack", "m_wack"}, NoHost)
  BY <1>1 DEF OnlyAt, simVars, linkVars, switchVars
<1>4. \A x \in Places : x \notin {e, r, w} => Queues'[x] = Queues[x]
  BY <1>3, OthersKept DEF HostPlaces
<1>5. e \in Places /\ r \in Places /\ w \in Places
  BY DEF Places, SharedPlaces, NoOf
<1>6. e # r /\ e # w /\ r # w
  BY DEF NoOf
<1>7. /\ Queues[e] = mem_request /\ Queues[r] = m_rack /\ Queues[w] = m_wack
      /\ Queues'[e] = mem_request' /\ Queues'[r] = m_rack' /\ Queues'[w] = m_wack'
  BY AtPlaces DEF PlacesRead
<1>8. /\ Queues'[e] = <<>> /\ Queues'[r] = Queues[r] \o rs
      /\ Queues'[w] = Queues[w] \o ws
  BY <1>1, <1>2, <1>7
<1> HIDE DEF e, r, w, rs, ws
<1>9. /\ IsFamily(F) /\ F[e] = <<>>
      /\ \A x \in Places : x # e => F[x] = Queues[x]
  BY <1>5, QueuesFamily, EmptiedAt
<1> HIDE DEF F
<1>10. /\ IsFamily(G) /\ G[r] = F[r] \o rs
       /\ \A x \in Places : x # r => G[x] = F[x]
  <2>1. IsFamily(F) /\ r \in Places
    BY <1>5, <1>9
  <2>2. \A s : /\ IsFamily(Extended(F, r, s)) /\ Extended(F, r, s)[r] = F[r] \o s
              /\ \A x \in Places : x # r => Extended(F, r, s)[x] = F[x]
    BY <2>1, ExtendedAt
  <2> QED BY <2>2
<1> HIDE DEF G
<1>11. /\ IsFamily(H) /\ H[w] = G[w] \o ws
       /\ \A x \in Places : x # w => H[x] = G[x]
  <2>1. IsFamily(G) /\ w \in Places
    BY <1>5, <1>10
  <2>2. \A s : /\ IsFamily(Extended(G, w, s)) /\ Extended(G, w, s)[w] = G[w] \o s
              /\ \A x \in Places : x # w => Extended(G, w, s)[x] = G[x]
    BY <2>1, ExtendedAt
  <2> QED BY <2>2
<1> HIDE DEF H
<1>12. ASSUME NEW x \in Places PROVE Queues'[x] = H[x]
  <2>1. CASE x = e
    BY <1>5, <1>6, <1>8, <1>9, <1>10, <1>11, <2>1
  <2>2. CASE x = r
    BY <1>5, <1>6, <1>8, <1>9, <1>10, <1>11, <2>2
  <2>3. CASE x = w
    BY <1>5, <1>6, <1>8, <1>9, <1>10, <1>11, <2>3
  <2>4. CASE x \notin {e, r, w}
    BY <1>4, <1>9, <1>10, <1>11, <2>4
  <2> QED BY <2>1, <2>2, <2>3, <2>4
<1>13. Queues' = H
  BY <1>11, <1>12, SameQueues DEF IsFamily
<1> QED BY <1>2, <1>13 DEF F, G, H, e, r, w, rs, ws

(* An ack goes to the port that its address was seen from, if there is one. *)
LEMMA SwitchBackwardShifts ==
  ASSUME SwitchBackward, TypeInv,
         c_rack # <<>> => r_trans_id[Head(c_rack).addr] \in Hosts,
         c_wack # <<>> => w_trans_id[Head(c_wack).addr] \in Hosts
  PROVE  \/ /\ c_rack # <<>>
            /\ Queues' = Shift(Queues, NoOf("c_rack"),
                               <<"bw_r", r_trans_id[Head(c_rack).addr]>>)
         \/ /\ c_wack # <<>>
            /\ Queues' = Shift(Queues, NoOf("c_wack"),
                               <<"bw_w", w_trans_id[Head(c_wack).addr]>>)
<1>1. /\ UNCHANGED <<simVars, hostVars, memVars>>
      /\ UNCHANGED <<fw_r, fw_w, c_r, c_w>>
  BY SwitchBackwardDoes
<1>2. DOMAIN bw_r = Hosts /\ DOMAIN bw_w = Hosts
  BY DEF TypeInv, LinkTyped
<1>3. /\ NoOf("c_rack") \in Places /\ NoOf("c_wack") \in Places
      /\ \A h \in Hosts : /\ <<"bw_r", h>> \in Places /\ <<"bw_w", h>> \in Places
                          /\ <<"bw_r", h>> # NoOf("c_rack")
                          /\ <<"bw_w", h>> # NoOf("c_wack")
  BY DEF Places, HostPlaces, SharedPlaces, NoOf
<1>4. ASSUME NEW h \in Hosts, c_rack # <<>>, c_rack' = Tail(c_rack),
             bw_r' = [bw_r EXCEPT ![h] = Append(bw_r[h], Head(c_rack))],
             UNCHANGED <<bw_w, c_wack>>
      PROVE  Queues' = Shift(Queues, NoOf("c_rack"), <<"bw_r", h>>)
  <2>1. OnlyAt({"c_rack", "bw_r"}, h)
    BY <1>1, <1>4 DEF OnlyAt, simVars, memVars
  <2>2. \A x \in Places : x # NoOf("c_rack") /\ x # <<"bw_r", h>> => Queues'[x] = Queues[x]
    BY <2>1, OthersKept DEF HostPlaces
  <2>3. Queues'[NoOf("c_rack")] = Rest(Queues[NoOf("c_rack")])
    BY <1>4, AtPlaces DEF PlacesRead, Rest
  <2>4. Queues'[<<"bw_r", h>>] = Moved(Queues[<<"bw_r", h>>], Queues[NoOf("c_rack")])
    <3>1. /\ Queues[<<"bw_r", h>>] = bw_r[h] /\ Queues'[<<"bw_r", h>>] = bw_r'[h]
          /\ Queues[NoOf("c_rack")] = c_rack
      BY AtPlaces DEF PlacesRead
    <3>2. bw_r'[h] = Append(bw_r[h], Head(c_rack))
      BY <1>2, <1>4
    <3> QED BY <1>4, <3>1, <3>2 DEF Moved
  <2> QED BY <1>3, <2>2, <2>3, <2>4, BecomesShift
<1>5. ASSUME NEW h \in Hosts, c_wack # <<>>, c_wack' = Tail(c_wack),
             bw_w' = [bw_w EXCEPT ![h] = Append(bw_w[h], Head(c_wack))],
             UNCHANGED <<bw_r, c_rack>>
      PROVE  Queues' = Shift(Queues, NoOf("c_wack"), <<"bw_w", h>>)
  <2>1. OnlyAt({"c_wack", "bw_w"}, h)
    BY <1>1, <1>5 DEF OnlyAt, simVars, memVars
  <2>2. \A x \in Places : x # NoOf("c_wack") /\ x # <<"bw_w", h>> => Queues'[x] = Queues[x]
    BY <2>1, OthersKept DEF HostPlaces
  <2>3. Queues'[NoOf("c_wack")] = Rest(Queues[NoOf("c_wack")])
    BY <1>5, AtPlaces DEF PlacesRead, Rest
  <2>4. Queues'[<<"bw_w", h>>] = Moved(Queues[<<"bw_w", h>>], Queues[NoOf("c_wack")])
    <3>1. /\ Queues[<<"bw_w", h>>] = bw_w[h] /\ Queues'[<<"bw_w", h>>] = bw_w'[h]
          /\ Queues[NoOf("c_wack")] = c_wack
      BY AtPlaces DEF PlacesRead
    <3>2. bw_w'[h] = Append(bw_w[h], Head(c_wack))
      BY <1>2, <1>5
    <3> QED BY <1>5, <3>1, <3>2 DEF Moved
  <2> QED BY <1>3, <2>2, <2>3, <2>4, BecomesShift
<1> QED BY <1>4, <1>5, SwitchBackwardDoes

(* The slot of a wrapper is free when an ack is handed to it. *)
LEMMA BackwardShifts ==
  ASSUME NEW h \in Hosts, LinkBackward(h), TypeInv,
         paced_r[h] => rack_incoming[h] = NoPayload,
         paced_w[h] => wack_incoming[h] = NoPayload
  PROVE  \/ Queues' = Shift(Queues, <<"bw_r", h>>, <<"rack_incoming", h>>)
         \/ Queues' = Shift(Queues, <<"bw_w", h>>, <<"wack_incoming", h>>)
<1>1. UNCHANGED <<switchVars, memVars, r_queue, w_queue, rack_queue, wack_queue,
                  fw_r, fw_w>>
  BY BackwardDoes
<1>2. /\ h \in DOMAIN bw_r /\ h \in DOMAIN bw_w
      /\ h \in DOMAIN rack_incoming /\ h \in DOMAIN wack_incoming
      /\ bw_r[h] \in Seq(Payload) /\ bw_w[h] \in Seq(Payload)
  BY DEF TypeInv, LinkTyped, QueuesTyped
<1>3. /\ <<"bw_r", h>> \in Places /\ <<"rack_incoming", h>> \in Places
      /\ <<"bw_w", h>> \in Places /\ <<"wack_incoming", h>> \in Places
      /\ <<"bw_r", h>> # <<"rack_incoming", h>>
      /\ <<"bw_w", h>> # <<"wack_incoming", h>>
  BY DEF Places, HostPlaces
<1>4. \A p \in Payload : Sim!Slot(p) = Append(Sim!Slot(NoPayload), p)
  <2> TAKE p \in Payload
  <2>1. Sim!Slot(p) = <<p>> /\ Sim!Slot(NoPayload) = <<>>
    BY SlotFacts, NullAssumption
  <2> QED BY <2>1
<1>5. ASSUME bw_r[h] # <<>>, paced_r[h], bw_r' = [bw_r EXCEPT ![h] = Tail(bw_r[h])],
             rack_incoming' = [rack_incoming EXCEPT ![h] = Head(bw_r[h])],
             UNCHANGED <<bw_w, wack_incoming>>
      PROVE  Queues' = Shift(Queues, <<"bw_r", h>>, <<"rack_incoming", h>>)
  <2>1. OnlyAt({"bw_r", "rack_incoming"}, h)
    BY <1>1, <1>5 DEF OnlyAt, switchVars, memVars
  <2>2. \A x \in Places : x # <<"bw_r", h>> /\ x # <<"rack_incoming", h>>
          => Queues'[x] = Queues[x]
    BY <2>1, OthersKept DEF HostPlaces
  <2>3. Queues'[<<"bw_r", h>>] = Rest(Queues[<<"bw_r", h>>])
    BY <1>2, <1>5, AtPlaces DEF PlacesRead, Rest
  <2>4. Head(bw_r[h]) \in Payload
    BY <1>2, <1>5, TailFacts
  <2>5. Sim!Slot(rack_incoming'[h]) = Append(Sim!Slot(rack_incoming[h]), Head(bw_r[h]))
    BY <1>2, <1>4, <1>5, <2>4
  <2>6. Queues'[<<"rack_incoming", h>>]
          = Moved(Queues[<<"rack_incoming", h>>], Queues[<<"bw_r", h>>])
    <3>1. /\ Queues[<<"rack_incoming", h>>] = Sim!Slot(rack_incoming[h])
          /\ Queues[<<"bw_r", h>>] = bw_r[h]
      BY AtPlaces DEF PlacesRead
    <3>2. Queues'[<<"rack_incoming", h>>] = Sim!Slot(rack_incoming'[h])
      BY AtPlaces DEF PlacesRead
    <3> QED BY <1>5, <2>5, <3>1, <3>2 DEF Moved
  <2> QED BY <1>3, <2>2, <2>3, <2>6, BecomesShift
<1>6. ASSUME bw_w[h] # <<>>, paced_w[h], bw_w' = [bw_w EXCEPT ![h] = Tail(bw_w[h])],
             wack_incoming' = [wack_incoming EXCEPT ![h] = Head(bw_w[h])],
             UNCHANGED <<bw_r, rack_incoming>>
      PROVE  Queues' = Shift(Queues, <<"bw_w", h>>, <<"wack_incoming", h>>)
  <2>1. OnlyAt({"bw_w", "wack_incoming"}, h)
    BY <1>1, <1>6 DEF OnlyAt, switchVars, memVars
  <2>2. \A x \in Places : x # <<"bw_w", h>> /\ x # <<"wack_incoming", h>>
          => Queues'[x] = Queues[x]
    BY <2>1, OthersKept DEF HostPlaces
  <2>3. Queues'[<<"bw_w", h>>] = Rest(Queues[<<"bw_w", h>>])
    BY <1>2, <1>6, AtPlaces DEF PlacesRead, Rest
  <2>4. Head(bw_w[h]) \in Payload
    BY <1>2, <1>6, TailFacts
  <2>5. Sim!Slot(wack_incoming'[h]) = Append(Sim!Slot(wack_incoming[h]), Head(bw_w[h]))
    BY <1>2, <1>4, <1>6, <2>4
  <2>6. Queues'[<<"wack_incoming", h>>]
          = Moved(Queues[<<"wack_incoming", h>>], Queues[<<"bw_w", h>>])
    <3>1. /\ Queues[<<"wack_incoming", h>>] = Sim!Slot(wack_incoming[h])
          /\ Queues[<<"bw_w", h>>] = bw_w[h]
      BY AtPlaces DEF PlacesRead
    <3>2. Queues'[<<"wack_incoming", h>>] = Sim!Slot(wack_incoming'[h])
      BY AtPlaces DEF PlacesRead
    <3> QED BY <1>6, <2>5, <3>1, <3>2 DEF Moved
  <2> QED BY <1>3, <2>2, <2>3, <2>6, BecomesShift
<1> QED BY <1>5, <1>6, BackwardDoes

(* A step that leaves the payload variables leaves every queue. *)
LEMMA SilentQueues ==
  ASSUME UNCHANGED payloadVars
  PROVE  Queues' = Queues /\ dram' = dram /\ UNCHANGED <<r_trans_id, w_trans_id>>
<1>1. OnlyAt({}, NoHost)
  BY DEF OnlyAt, payloadVars, linkVars, switchVars, memVars
<1>2. \A l \in Places : Queues'[l] = Queues[l]
  BY <1>1, OthersKept
<1>3. Queues' = Queues
  BY <1>2, QueuesFamily, SameQueues DEF IsFamily
<1> QED BY <1>3 DEF payloadVars, memVars, switchVars

-----------------------------------------------------------------------------
(* What a step does to the packets of a host that are still to come *)

(* The packets a host still has to put through its wrapper, in order. *)
LEMMA ToComeTyped ==
  ASSUME NEW h \in Hosts, TypeInv
  PROVE  /\ ToCome(h) \in Seq(Packet) /\ InHand(h) \in Seq(Packet)
         /\ ToCome(h) = InHand(h) \o (toSim[h] \o trace[h])
         /\ toSim[h] \in Seq(Packet) /\ trace[h] \in Seq(Packet)
         /\ pc[h] \in HoldsPacket => ToCome(h) # <<>> /\ Head(ToCome(h)) = pkt[h]
<1>1. InHand(h) \in Seq(Packet) /\ toSim[h] \in Seq(Packet) /\ trace[h] \in Seq(Packet)
  <2>1. pkt[h] \in Packet
    BY DEF TypeInv, ControlTyped
  <2>2. <<pkt[h]>> \in Seq(Packet) /\ <<>> \in Seq(Packet)
    BY <2>1, EmptySeq
  <2> QED BY <2>2 DEF TypeInv, HostTyped, InHand
<1>2. toSim[h] \o trace[h] \in Seq(Packet)
  BY <1>1, ConcatFacts
<1>3. InHand(h) \o (toSim[h] \o trace[h]) \in Seq(Packet)
  BY <1>1, <1>2, ConcatFacts
<1>4. ToCome(h) = InHand(h) \o (toSim[h] \o trace[h])
  <2>1. \A a, b, c \in Seq(Packet) : (a \o b) \o c = a \o (b \o c)
    BY ConcatAssociative
  <2> QED BY <1>1, <2>1 DEF ToCome
<1>5. ASSUME pc[h] \in HoldsPacket
      PROVE  ToCome(h) # <<>> /\ Head(ToCome(h)) = pkt[h]
  <2>1. InHand(h) = <<pkt[h]>> /\ Len(<<pkt[h]>>) = 1
    BY <1>5 DEF InHand, HoldsPacket
  <2>2. Len(ToCome(h)) = 1 + Len(toSim[h] \o trace[h]) /\ ToCome(h)[1] = pkt[h]
    <3>1. 1 \in 1 .. Len(InHand(h)) /\ InHand(h)[1] = pkt[h]
      BY <2>1
    <3> QED BY <1>1, <1>2, <1>4, <2>1, <3>1, ConcatFacts
  <2>3. Len(toSim[h] \o trace[h]) \in Nat
    BY <1>2, SeqFacts
  <2>4. Len(ToCome(h)) # 0
    <3>1. \A n \in Nat : 1 + n # 0
      OBVIOUS
    <3> QED BY <2>2, <2>3, <3>1
  <2>5. ToCome(h) # <<>>
    BY <1>3, <1>4, <2>4, SeqFacts
  <2>6. Head(ToCome(h)) = ToCome(h)[1]
    BY <1>3, <1>4, <2>5, TailFacts
  <2> QED BY <2>2, <2>5, <2>6
<1> QED BY <1>1, <1>3, <1>4, <1>5

(* After the step as well. *)
LEMMA ToComeNext ==
  ASSUME NEW h \in Hosts, TypeInv'
  PROVE  ToCome(h)' = InHand(h)' \o (toSim'[h] \o trace'[h])
<1>1. pkt'[h] \in Packet /\ toSim'[h] \in Seq(Packet) /\ trace'[h] \in Seq(Packet)
  BY DEF TypeInv, HostTyped, ControlTyped
<1>2. <<pkt'[h]>> \in Seq(Packet) /\ <<>> \in Seq(Packet)
  BY <1>1, EmptySeq
<1>3. InHand(h)' \in Seq(Packet)
  BY <1>2 DEF InHand
<1>4. \A a, b, c \in Seq(Packet) : (a \o b) \o c = a \o (b \o c)
  BY ConcatAssociative
<1> QED BY <1>1, <1>3, <1>4 DEF ToCome

(* A ring passes packets on in their order. *)
LEMMA MovedThrough ==
  ASSUME NEW S, NEW q \in Seq(S), NEW r \in Seq(S), r # <<>>
  PROVE  Append(q, Head(r)) \o Tail(r) = q \o r
<1>1. Head(r) \in S /\ Tail(r) \in Seq(S) /\ <<Head(r)>> \in Seq(S)
  BY TailFacts
<1>2. Append(q, Head(r)) = q \o <<Head(r)>>
  BY <1>1, AppendIsConcat
<1>3. (q \o <<Head(r)>>) \o Tail(r) = q \o (<<Head(r)>> \o Tail(r))
  BY <1>1, ConcatAssociative
<1>4. <<Head(r)>> \o Tail(r) = r
  <2> DEFINE s == <<Head(r)>> \o Tail(r)
  <2>1. /\ Len(Tail(r)) = Len(r) - 1 /\ Len(r) \in Nat \ {0} /\ Head(r) = r[1]
        /\ \A i \in 1 .. Len(r) - 1 : Tail(r)[i] = r[i + 1]
    BY TailFacts
  <2>2. Len(<<Head(r)>>) = 1 /\ <<Head(r)>>[1] = Head(r)
    OBVIOUS
  <2>3. /\ s \in Seq(S) /\ Len(s) = 1 + Len(Tail(r))
        /\ \A i \in 1 .. 1 : s[i] = <<Head(r)>>[i]
        /\ \A i \in 1 .. Len(Tail(r)) : s[1 + i] = Tail(r)[i]
    BY <1>1, <2>2, ConcatFacts
  <2> HIDE DEF s
  <2>4. Len(s) = Len(r)
    BY <2>1, <2>3
  <2>5. ASSUME NEW i \in 1 .. Len(r) PROVE s[i] = r[i]
    <3>1. CASE i = 1
      BY <2>1, <2>2, <2>3, <3>1
    <3>2. CASE i # 1
      <4>1. i - 1 \in 1 .. Len(r) - 1 /\ 1 + (i - 1) = i /\ (i - 1) + 1 = i
        BY <2>1, <3>2
      <4> QED BY <2>1, <2>3, <4>1
    <3> QED BY <3>1, <3>2
  <2>6. s = r
    BY <2>3, <2>4, <2>5, SeqEqual
  <2> QED BY <2>6 DEF s
<1> QED BY <1>2, <1>3, <1>4

(* That sequence loses its head when a packet is handled, and changes in no other
   step. *)
LEMMA ToComeStep ==
  ASSUME NEW h \in Hosts, TypeInv, TypeInv', [Next]_vars
  PROVE  ToCome(h)' = IF Takes(h) THEN Tail(ToCome(h)) ELSE ToCome(h)
<1> DEFINE same == UNCHANGED <<trace, toSim, pc, pkt>>
<1>0. DOMAIN pc = Hosts /\ DOMAIN pkt = Hosts /\ DOMAIN trace = Hosts /\ DOMAIN toSim = Hosts
  BY DEF TypeInv, HostTyped, ControlTyped
<1>1. ASSUME pc'[h] = pc[h], pkt'[h] = pkt[h], trace'[h] = trace[h], toSim'[h] = toSim[h]
      PROVE  ToCome(h)' = ToCome(h) /\ ~Takes(h)
  BY <1>1 DEF ToCome, InHand, Takes
<1>2. ASSUME pc[h] \in HoldsPacket, pc'[h] \notin HoldsPacket,
             trace'[h] = trace[h], toSim'[h] = toSim[h]
      PROVE  ToCome(h)' = Tail(ToCome(h))
  <2>1. InHand(h) = <<pkt[h]>> /\ InHand(h)' = <<>>
    BY <1>2 DEF InHand, HoldsPacket
  <2> DEFINE rest == toSim[h] \o trace[h]
  <2>2. rest \in Seq(Packet) /\ ToCome(h) = <<pkt[h]>> \o rest /\ pkt[h] \in Packet
    <3>1. toSim[h] \in Seq(Packet) /\ trace[h] \in Seq(Packet) /\ pkt[h] \in Packet
      BY ToComeTyped DEF TypeInv, ControlTyped
    <3> QED BY <2>1, <3>1, ConcatFacts, ToComeTyped
  <2>3. ToCome(h)' = <<>> \o rest
    <3>1. ToCome(h)' = InHand(h)' \o (toSim'[h] \o trace'[h])
      BY ToComeNext
    <3> QED BY <1>2, <2>1, <3>1
  <2> HIDE DEF rest
  <2>4. ToCome(h)' = rest
    BY <2>2, <2>3, ConcatEmptySeq
  <2>5. Tail(<<pkt[h]>> \o rest) = rest
    <3> DEFINE s == <<pkt[h]>> \o rest
    <3>1. Len(<<pkt[h]>>) = 1 /\ <<pkt[h]>> \in Seq(Packet)
      BY <2>2
    <3>2. /\ s \in Seq(Packet) /\ Len(s) = 1 + Len(rest)
          /\ \A i \in 1 .. Len(rest) : s[1 + i] = rest[i]
      BY <2>2, <3>1, ConcatFacts
    <3>3. Len(rest) \in Nat
      BY <2>2, SeqFacts
    <3> HIDE DEF s
    <3>4. s # <<>>
      BY <3>2, <3>3, SeqFacts
    <3>5. /\ Tail(s) \in Seq(Packet) /\ Len(Tail(s)) = Len(s) - 1
          /\ \A i \in 1 .. Len(s) - 1 : Tail(s)[i] = s[i + 1]
      BY <3>2, <3>4, TailFacts
    <3>6. Len(Tail(s)) = Len(rest)
      BY <3>2, <3>3, <3>5
    <3>7. \A i \in 1 .. Len(rest) : Tail(s)[i] = rest[i]
      BY <3>2, <3>3, <3>5
    <3>8. Tail(s) = rest
      BY <2>2, <3>5, <3>6, <3>7, SeqEqual
    <3> QED BY <3>8 DEF s
  <2> QED BY <2>2, <2>4, <2>5
<1>3. ASSUME NEW g \in Hosts, Silent(g)
      PROVE  ToCome(h)' = IF Takes(h) THEN Tail(ToCome(h)) ELSE ToCome(h)
  <2>1. CASE Send(g)
    <3>1. Host!Send(g) /\ UNCHANGED <<pc, pkt>>
      BY <2>1 DEF Send, simVars
    <3>2. CASE g # h
      BY <1>0, <1>1, <3>1, <3>2 DEF Host!Send
    <3>3. CASE g = h
      <4>1. /\ trace[h] # <<>> /\ toSim'[h] = Append(toSim[h], Head(trace[h]))
            /\ trace'[h] = Tail(trace[h])
        BY <1>0, <3>1, <3>3 DEF Host!Send
      <4>2. toSim'[h] \o trace'[h] = toSim[h] \o trace[h]
        BY <4>1, ToComeTyped, MovedThrough
      <4>3. InHand(h)' = InHand(h) /\ ~Takes(h)
        BY <3>1 DEF InHand, Takes
      <4>4. /\ ToCome(h) = InHand(h) \o (toSim[h] \o trace[h])
            /\ ToCome(h)' = InHand(h)' \o (toSim'[h] \o trace'[h])
        BY ToComeTyped, ToComeNext
      <4> QED BY <4>2, <4>3, <4>4
    <3> QED BY <3>2, <3>3
  <2>2. CASE GetResponse(g)
    BY <1>1, <2>2 DEF GetResponse, Host!GetResponse, simVars
  <2>3. CASE Receive(g)
    <3>1. Sim!Receive(g) /\ Host!GiveRequest(g)
      BY <2>3 DEF Receive
    <3>2. CASE g # h
      BY <1>0, <1>1, <3>1, <3>2 DEF Sim!Receive, Host!GiveRequest
    <3>3. CASE g = h
      <4>1. /\ pc[h] \in {"first", "poll"} /\ toSim[h] # <<>>
            /\ pkt'[h] = Head(toSim[h]) /\ pc'[h] = Sim!Handler(Head(toSim[h]))
            /\ toSim'[h] = Tail(toSim[h]) /\ trace' = trace
        BY <1>0, <3>1, <3>3 DEF Sim!Receive, Host!GiveRequest
      <4>2. pc'[h] \in HoldsPacket /\ ~Takes(h)
        BY <4>1 DEF Sim!Handler, HoldsPacket, Takes
      <4>3. InHand(h) = <<>> /\ InHand(h)' = <<Head(toSim[h])>>
        BY <4>1, <4>2 DEF InHand, HoldsPacket
      <4>4. /\ toSim[h] \in Seq(Packet) /\ trace[h] \in Seq(Packet)
            /\ ToCome(h) = InHand(h) \o (toSim[h] \o trace[h])
            /\ ToCome(h)' = InHand(h)' \o (toSim'[h] \o trace'[h])
        BY ToComeTyped, ToComeNext
      <4> DEFINE x == Head(toSim[h])
                 t == Tail(toSim[h])
      <4>5. x \in Packet /\ t \in Seq(Packet) /\ <<x>> \in Seq(Packet)
        BY <4>1, <4>4, TailFacts
      <4>6. Append(<<>>, x) \o t = <<>> \o toSim[h] /\ <<>> \o toSim[h] = toSim[h]
        BY <4>1, <4>4, MovedThrough, ConcatEmptySeq, EmptySeq
      <4>7. Append(<<>>, x) = <<x>>
        BY <4>5
      <4>8. <<x>> \o t = toSim[h]
        BY <4>6, <4>7
      <4>9. (<<x>> \o t) \o trace[h] = <<x>> \o (t \o trace[h])
        <5>1. \A a, b, c \in Seq(Packet) : (a \o b) \o c = a \o (b \o c)
          BY ConcatAssociative
        <5> QED BY <4>4, <4>5, <5>1
      <4>10. <<>> \o (toSim[h] \o trace[h]) = toSim[h] \o trace[h]
        <5>1. toSim[h] \o trace[h] \in Seq(Packet)
          BY <4>4, ConcatFacts
        <5> QED BY <5>1, ConcatEmptySeq
      <4> QED BY <4>1, <4>2, <4>3, <4>4, <4>8, <4>9, <4>10
    <3> QED BY <3>2, <3>3
  <2>4. CASE ThreadAlone(g)
    <3>1. UNCHANGED <<trace, toSim>>
      BY <2>4 DEF ThreadAlone, hostVars
    <3>2. CASE Sim!Spin(g)
      BY <1>1, <3>1, <3>2 DEF Sim!Spin
    <3>3. CASE Sim!Stop(g)
      BY <1>1, <3>1, <3>3 DEF Sim!Stop
    <3>4. CASE Sim!CheckSignal(g)
      <4>1. pkt' = pkt /\ pc[g] = "sync" /\ pc' = [pc EXCEPT ![g] = "free"]
        BY <3>4 DEF Sim!CheckSignal, Sim!Step
      <4>2. g = h => InHand(h)' = InHand(h) /\ ~Takes(h)
        BY <1>0, <4>1 DEF InHand, Takes, HoldsPacket
      <4> QED BY <1>0, <1>1, <3>1, <4>1, <4>2 DEF ToCome
    <3>5. CASE Sim!FreeSignal(g)
      <4>1. pkt' = pkt /\ pc[g] = "free" /\ pc' = [pc EXCEPT ![g] = "read"]
        BY <3>5 DEF Sim!FreeSignal, Sim!Step
      <4>2. g = h => InHand(h)' = InHand(h) /\ ~Takes(h)
        BY <1>0, <4>1 DEF InHand, Takes, HoldsPacket
      <4> QED BY <1>0, <1>1, <3>1, <4>1, <4>2 DEF ToCome
    <3>6. CASE Sim!HandleTerminate(g)
      <4>1. pkt' = pkt /\ pc[g] = "terminate" /\ pc' = [pc EXCEPT ![g] = "exiting"]
        BY <3>6 DEF Sim!HandleTerminate, Sim!Step
      <4>2. g = h => Takes(h)
        BY <1>0, <4>1 DEF Takes, HoldsPacket
      <4>3. CASE g = h
        BY <1>2, <3>1, <4>2, <4>3 DEF Takes
      <4>4. CASE g # h
        BY <1>0, <1>1, <3>1, <4>1, <4>4
      <4> QED BY <4>3, <4>4
    <3>7. CASE Sim!LeaveCore(g)
      <4>1. pkt' = pkt /\ pc[g] = "exiting" /\ pc' = [pc EXCEPT ![g] = "exited"]
        BY <3>7 DEF Sim!LeaveCore, Sim!Step
      <4>2. g = h => InHand(h)' = InHand(h) /\ ~Takes(h)
        BY <1>0, <4>1 DEF InHand, Takes, HoldsPacket
      <4> QED BY <1>0, <1>1, <3>1, <4>1, <4>2 DEF ToCome
    <3> QED BY <2>4, <3>2, <3>3, <3>4, <3>5, <3>6, <3>7 DEF ThreadAlone
  <2> QED BY <1>3, <2>1, <2>2, <2>3, <2>4 DEF Silent
<1>4. ASSUME NEW g \in Hosts, ReadCut(g) \/ WriteCut(g)
      PROVE  ToCome(h)' = IF Takes(h) THEN Tail(ToCome(h)) ELSE ToCome(h)
  <2>1. /\ pkt' = pkt /\ pc[g] \in {"read", "write"} /\ pc' = [pc EXCEPT ![g] = "poll"]
        /\ UNCHANGED <<trace, toSim>>
    BY <1>4, HandleReadDoes, HandleWriteDoes DEF ReadCut, WriteCut, hostVars
  <2>2. CASE g = h
    <3>1. Takes(h)
      BY <1>0, <2>1, <2>2 DEF Takes, HoldsPacket
    <3> QED BY <1>2, <2>1, <3>1 DEF Takes
  <2>3. CASE g # h
    BY <1>0, <1>1, <2>1, <2>3
  <2> QED BY <2>2, <2>3
<1>5. same => ToCome(h)' = IF Takes(h) THEN Tail(ToCome(h)) ELSE ToCome(h)
  BY <1>1
<1>6. UNCHANGED vars => same
  BY DEF vars, hostVars, simVars
<1>7. ASSUME NEW g \in Hosts,
             SimPosedge(g) \/ SimNegedge(g) \/ LinkForward(g) \/ LinkBackward(g)
      PROVE  same
  <2>1. SimPosedge(g) => same
    BY PosedgeDoes DEF controlVars, hostVars
  <2>2. SimNegedge(g) => same
    BY NegedgeDoes DEF NegedgeControl
  <2>3. LinkForward(g) => same
    BY DEF LinkForward, hostVars, simVars
  <2>4. LinkBackward(g) => same
    BY BackwardDoes DEF controlVars, hostVars
  <2> QED BY <1>7, <2>1, <2>2, <2>3, <2>4
<1>8. SwitchForward \/ MemPosedge \/ SimulateDram \/ MemNegedge \/ SwitchBackward => same
  BY DEF SwitchForward, MemPosedge, SimulateDram, MemNegedge, SwitchBackward,
         hostVars, simVars
<1> HIDE DEF same
<1> QED BY <1>3, <1>4, <1>5, <1>6, <1>7, <1>8, NextCases

-----------------------------------------------------------------------------
(* Acks go home: what payloads are, and where they may be *)

(* The rest of an end of a program is an end of it, one packet further. *)
LEMMA EndTail ==
  ASSUME NEW q \in Seq(Packet), NEW s, IsEndOf(s, q)
  PROVE  /\ Taken(q, s) \in Nat
         /\ s # <<>> => /\ IsEndOf(Tail(s), q) /\ Taken(q, Tail(s)) = Taken(q, s) + 1
                        /\ Taken(q, s) + 1 \in 1 .. Len(q)
                        /\ q[Taken(q, s) + 1] = Head(s)
<1>1. s \in Seq(Packet) /\ Len(s) <= Len(q) /\ Len(s) \in Nat /\ Len(q) \in Nat
  BY SeqFacts DEF IsEndOf
<1>2. Taken(q, s) \in Nat
  BY <1>1 DEF Taken
<1>3. ASSUME s # <<>>
      PROVE  /\ IsEndOf(Tail(s), q) /\ Taken(q, Tail(s)) = Taken(q, s) + 1
             /\ Taken(q, s) + 1 \in 1 .. Len(q)
             /\ q[Taken(q, s) + 1] = Head(s)
  <2>1. /\ Head(s) = s[1] /\ Tail(s) \in Seq(Packet) /\ Len(s) \in Nat \ {0}
        /\ Len(Tail(s)) = Len(s) - 1 /\ \A i \in 1 .. Len(s) - 1 : Tail(s)[i] = s[i + 1]
    BY <1>1, <1>3, TailFacts
  <2>2. Taken(q, Tail(s)) = Taken(q, s) + 1 /\ Taken(q, s) + 1 \in 1 .. Len(q)
    BY <1>1, <2>1 DEF Taken
  <2>3. 1 \in 1 .. Len(s) /\ \A i \in 1 .. Len(s) : s[i] = q[Taken(q, s) + i]
    BY <2>1 DEF IsEndOf
  <2>4. ASSUME NEW i \in 1 .. Len(Tail(s))
        PROVE  Tail(s)[i] = q[Taken(q, Tail(s)) + i]
    <3>1. i + 1 \in 1 .. Len(s) /\ i \in 1 .. Len(s) - 1
      BY <2>1
    <3>2. Taken(q, s) + (i + 1) = Taken(q, Tail(s)) + i
      BY <1>2, <2>2, <3>1
    <3> QED BY <2>1, <2>3, <3>1, <3>2
  <2>5. Len(Tail(s)) <= Len(q)
    BY <1>1, <2>1
  <2> QED BY <2>1, <2>2, <2>3, <2>4, <2>5 DEF IsEndOf
<1> QED BY <1>2, <1>3

(* At the start nothing of a program is taken. *)
LEMMA EndAtStart ==
  ASSUME NEW q \in Seq(Packet)
  PROVE  IsEndOf(q, q) /\ Taken(q, q) = 0
<1>1. Len(q) \in Nat
  BY SeqFacts
<1>2. Taken(q, q) = 0 /\ \A i \in 1 .. Len(q) : 0 + i = i
  BY <1>1 DEF Taken
<1> QED BY <1>1, <1>2 DEF IsEndOf

(* A step keeps what is to come an end of the program and counts the packet it
   takes. *)
LEMMA EndStep ==
  ASSUME NEW prog \in Programs, TypeInv, TypeInv', [Next]_vars, EndInv(prog)
  PROVE  /\ EndInv(prog)'
         /\ \A h \in Hosts :
              /\ Taken(prog[h], ToCome(h)) \in Nat
              /\ Taken(prog[h], ToCome(h))'
                   = IF Takes(h) THEN Taken(prog[h], ToCome(h)) + 1
                                 ELSE Taken(prog[h], ToCome(h))
              /\ pc[h] \in HoldsPacket =>
                   /\ Taken(prog[h], ToCome(h)) + 1 \in 1 .. Len(prog[h])
                   /\ prog[h][Taken(prog[h], ToCome(h)) + 1] = pkt[h]
<1> SUFFICES ASSUME NEW h \in Hosts
             PROVE  /\ IsEndOf(ToCome(h)', prog[h])
                    /\ Taken(prog[h], ToCome(h)) \in Nat
                    /\ Taken(prog[h], ToCome(h)')
                         = IF Takes(h) THEN Taken(prog[h], ToCome(h)) + 1
                                       ELSE Taken(prog[h], ToCome(h))
                    /\ pc[h] \in HoldsPacket =>
                         /\ Taken(prog[h], ToCome(h)) + 1 \in 1 .. Len(prog[h])
                         /\ prog[h][Taken(prog[h], ToCome(h)) + 1] = pkt[h]
  BY DEF EndInv, IsEndOf, Taken
<1>1. prog[h] \in Seq(Packet) /\ IsEndOf(ToCome(h), prog[h])
  BY HostAssumption DEF EndInv
<1>2. ToCome(h)' = IF Takes(h) THEN Tail(ToCome(h)) ELSE ToCome(h)
  BY ToComeStep
<1>3. pc[h] \in HoldsPacket => ToCome(h) # <<>> /\ Head(ToCome(h)) = pkt[h]
  BY ToComeTyped
<1>4. Takes(h) => pc[h] \in HoldsPacket
  BY DEF Takes
<1> DEFINE s == ToCome(h)
<1>5. /\ Taken(prog[h], s) \in Nat
      /\ s # <<>> => /\ IsEndOf(Tail(s), prog[h])
                     /\ Taken(prog[h], Tail(s)) = Taken(prog[h], s) + 1
                     /\ Taken(prog[h], s) + 1 \in 1 .. Len(prog[h])
                     /\ prog[h][Taken(prog[h], s) + 1] = Head(s)
  BY <1>1, EndTail
<1> QED BY <1>1, <1>2, <1>3, <1>4, <1>5

(* A payload that was cut from a packet of its host stays so. *)
LEMMA KnownStays ==
  ASSUME NEW prog \in Programs, TypeInv, TypeInv', [Next]_vars, EndInv(prog),
         NEW p \in Payload, Known(prog, p)
  PROVE  Known(prog, p)'
<1>1. p.id \in Hosts
  BY DEF Payload
<1> DEFINE t == Taken(prog[p.id], ToCome(p.id))
<1>2. /\ t \in Nat /\ (t' = t \/ t' = t + 1)
  BY <1>1, EndStep
<1>3. PICK i \in 1 .. t : Covers(prog[p.id][i], p)
  BY DEF Known
<1>4. i \in 1 .. t'
  BY <1>2
<1> QED BY <1>3, <1>4 DEF Known

(* A payload known to its host is part of a packet of the host's program. *)
LEMMA KnownCover ==
  ASSUME NEW prog \in Programs, EndInv(prog), NEW p \in Payload, Known(prog, p)
  PROVE  \E q \in Items(prog[p.id]) : Covers(q, p)
<1>1. p.id \in Hosts
  BY DEF Payload
<1>2. /\ prog[p.id] \in Seq(Packet) /\ IsEndOf(ToCome(p.id), prog[p.id])
  BY <1>1, HostAssumption DEF EndInv
<1>3. /\ Len(ToCome(p.id)) \in Nat /\ Len(prog[p.id]) \in Nat
      /\ DOMAIN prog[p.id] = 1 .. Len(prog[p.id])
  BY <1>2, SeqFacts DEF IsEndOf
<1>4. PICK i \in 1 .. Taken(prog[p.id], ToCome(p.id)) : Covers(prog[p.id][i], p)
  BY DEF Known
<1>5. i \in 1 .. Len(prog[p.id])
  BY <1>2, <1>3 DEF Taken, IsEndOf
<1> QED BY <1>3, <1>4, <1>5 DEF Items

(* Two payloads of a kind with one address come from one host when hosts own their
   traffic. *)
LEMMA OneHost ==
  ASSUME OwnTraffic, NEW prog \in Programs, EndInv(prog),
         NEW x \in Payload, NEW y \in Payload, Known(prog, x), Known(prog, y),
         x.cmd = y.cmd, x.addr = y.addr
  PROVE  x.id = y.id
<1>1. PICK q \in Items(prog[x.id]) : Covers(q, x)
  BY KnownCover
<1>2. PICK r \in Items(prog[y.id]) : Covers(r, y)
  BY KnownCover
<1>3. x.id \in Hosts /\ y.id \in Hosts /\ x.cmd # "T"
  BY DEF Payload
<1>4. Overlap(q, r)
  BY <1>1, <1>2, <1>3 DEF Covers, Overlap
<1> QED BY <1>1, <1>2, <1>3, <1>4 DEF OwnTraffic

(* The heads of the queues of a port. *)
LEMMA HeadsFit ==
  ASSUME NEW prog \in Programs, FlowInv(prog), NEW l \in Places, Queues[l] # <<>>
  PROVE  Head(Queues[l]) \in Fits(prog, l)
<1>1. Queues[l] \in Seq(Fits(prog, l))
  BY DEF FlowInv
<1> QED BY <1>1, TailFacts

(* A step records at most one address in the controller's tables, for the host of
   a known payload. *)
LEMMA TablesStep ==
  ASSUME NEW prog \in Programs, TypeInv, [Next]_vars, FlowInv(prog)
  PROVE  \/ UNCHANGED <<r_trans_id, w_trans_id>>
         \/ \E x \in Payload :
              /\ Known(prog, x)
              /\ \/ /\ x.cmd = "R" /\ w_trans_id' = w_trans_id
                    /\ r_trans_id' = [r_trans_id EXCEPT ![x.addr] = x.id]
                 \/ /\ x.cmd = "W" /\ r_trans_id' = r_trans_id
                    /\ w_trans_id' = [w_trans_id EXCEPT ![x.addr] = x.id]
<1> DEFINE same == UNCHANGED <<r_trans_id, w_trans_id>>
<1>1. ASSUME NEW h \in Hosts, LinkForward(h)
      PROVE  \E x \in Payload :
              /\ Known(prog, x)
              /\ \/ /\ x.cmd = "R" /\ w_trans_id' = w_trans_id
                    /\ r_trans_id' = [r_trans_id EXCEPT ![x.addr] = x.id]
                 \/ /\ x.cmd = "W" /\ r_trans_id' = r_trans_id
                    /\ w_trans_id' = [w_trans_id EXCEPT ![x.addr] = x.id]
  <2>1. /\ <<"fw_r", h>> \in Places /\ <<"fw_w", h>> \in Places
        /\ Queues[<<"fw_r", h>>] = fw_r[h] /\ Queues[<<"fw_w", h>>] = fw_w[h]
    BY AtPlaces DEF PlacesRead, Places, HostPlaces
  <2>2. h # NoHost
    BY TlmAssumption
  <2>3. ASSUME fw_r[h] # <<>>
        PROVE  /\ Head(fw_r[h]) \in Payload /\ Known(prog, Head(fw_r[h]))
               /\ Head(fw_r[h]).cmd = "R" /\ Head(fw_r[h]).id = h
    <3>1. Head(fw_r[h]) \in Fits(prog, <<"fw_r", h>>)
      BY <2>1, <2>3, HeadsFit
    <3> QED BY <2>2, <3>1 DEF Fits, ReadPlaces
  <2>4. ASSUME fw_w[h] # <<>>
        PROVE  /\ Head(fw_w[h]) \in Payload /\ Known(prog, Head(fw_w[h]))
               /\ Head(fw_w[h]).cmd = "W" /\ Head(fw_w[h]).id = h
    <3>1. Head(fw_w[h]) \in Fits(prog, <<"fw_w", h>>)
      BY <2>1, <2>4, HeadsFit
    <3> QED BY <2>2, <3>1 DEF Fits, WritePlaces
  <2> QED BY <1>1, <2>3, <2>4, ForwardDoes
<1>2. ASSUME NEW h \in Hosts,
             \/ Silent(h) \/ ReadCut(h) \/ WriteCut(h)
             \/ SimPosedge(h) \/ SimNegedge(h) \/ LinkBackward(h)
      PROVE  same
  <2>1. Silent(h) => same
    BY DEF Silent, payloadVars, switchVars
  <2>2. ReadCut(h) \/ WriteCut(h) => same
    BY DEF ReadCut, WriteCut, switchVars
  <2>3. SimPosedge(h) \/ SimNegedge(h) \/ LinkBackward(h) => same
    BY DEF SimPosedge, SimNegedge, LinkBackward, switchVars
  <2> QED BY <1>2, <2>1, <2>2, <2>3
<1>3. SwitchForward => same
  BY SwitchForwardDoes
<1>4. MemPosedge \/ SimulateDram => same
  BY DEF MemPosedge, SimulateDram, switchVars
<1>5. MemNegedge => same
  BY MemNegedgeDoes
<1>6. SwitchBackward => same
  BY SwitchBackwardDoes
<1>7. UNCHANGED vars => same
  BY DEF vars, switchVars
<1> HIDE DEF same
<1>8. same \/ \E h \in Hosts : LinkForward(h)
  BY <1>2, <1>3, <1>4, <1>5, <1>6, <1>7, NextCases
<1> QED BY <1>1, <1>8 DEF same

(* The table entry of a payload under way keeps naming its host. *)
LEMMA PortStays ==
  ASSUME OwnTraffic, NEW prog \in Programs, TypeInv, [Next]_vars, FlowInv(prog),
         NEW p \in Payload, Known(prog, p), Port(p) = p.id
  PROVE  Port(p)' = p.id
<1>1. EndInv(prog)
  BY DEF FlowInv
<1>2. /\ p.addr \in Addrs /\ DOMAIN r_trans_id = Addrs /\ DOMAIN w_trans_id = Addrs
      /\ p.cmd \in {"R", "W"}
  BY DEF Payload, TypeInv, SwitchTyped
<1>3. Port(p)' = IF p.cmd = "R" THEN r_trans_id'[p.addr] ELSE w_trans_id'[p.addr]
  BY DEF Port
<1>4. CASE UNCHANGED <<r_trans_id, w_trans_id>>
  BY <1>3, <1>4 DEF Port
<1>5. ASSUME NEW x \in Payload, Known(prog, x), x.cmd = "R", w_trans_id' = w_trans_id,
             r_trans_id' = [r_trans_id EXCEPT ![x.addr] = x.id]
      PROVE  Port(p)' = p.id
  <2>1. p.cmd = "R" /\ p.addr = x.addr => p.id = x.id
    BY <1>1, <1>5, OneHost
  <2> QED BY <1>2, <1>3, <1>5, <2>1 DEF Port
<1>6. ASSUME NEW x \in Payload, Known(prog, x), x.cmd = "W", r_trans_id' = r_trans_id,
             w_trans_id' = [w_trans_id EXCEPT ![x.addr] = x.id]
      PROVE  Port(p)' = p.id
  <2>1. p.cmd = "W" /\ p.addr = x.addr => p.id = x.id
    BY <1>1, <1>6, OneHost
  <2> QED BY <1>2, <1>3, <1>6, <2>1 DEF Port
<1> QED BY <1>4, <1>5, <1>6, TablesStep

(* What fits a place goes on to do so. *)
LEMMA FitsGrow ==
  ASSUME OwnTraffic, NEW prog \in Programs, TypeInv, TypeInv', [Next]_vars,
         FlowInv(prog), NEW l
  PROVE  Fits(prog, l) \subseteq Fits(prog, l)'
<1> SUFFICES ASSUME NEW p \in Fits(prog, l)
             PROVE  p \in Fits(prog, l)'
  OBVIOUS
<1>1. /\ p \in Payload /\ Known(prog, p)
      /\ l[1] \in ReadPlaces => p.cmd = "R"
      /\ l[1] \in WritePlaces => p.cmd = "W"
      /\ l[2] # NoHost => p.id = l[2]
      /\ l[1] \notin AbovePlaces => Port(p) = p.id
  BY DEF Fits
<1>2. Known(prog, p)'
  BY <1>1, KnownStays DEF FlowInv
<1>3. l[1] \notin AbovePlaces => Port(p)' = p.id
  BY <1>1, PortStays
<1> QED BY <1>1, <1>2, <1>3 DEF Fits

(* A shift keeps a family fit when the payload it moves fits where it goes. *)
LEMMA ShiftGood ==
  ASSUME NEW A, NEW F, Good(A, F), NEW l \in Places, NEW k \in Places, l # k,
         F[l] # <<>> => Head(F[l]) \in A[k]
  PROVE  /\ Good(A, Shift(F, l, k))
         /\ \A m \in Places : m # l /\ m # k => Shift(F, l, k)[m] = F[m]
BY ShiftTyped DEF Good

(* Two shifts at different places keep a family fit. *)
LEMMA ShiftsGood ==
  ASSUME NEW A, NEW F, Good(A, F), NEW l \in Places, NEW k \in Places, l # k,
         NEW m \in Places, NEW n \in Places, m # n, m # l, m # k,
         F[l] # <<>> => Head(F[l]) \in A[k],
         F[m] # <<>> => Head(F[m]) \in A[n]
  PROVE  /\ Good(A, Shift(Shift(F, l, k), m, n))
         /\ \A x \in Places : x \notin {l, k, m, n} => Shift(Shift(F, l, k), m, n)[x] = F[x]
<1> DEFINE G == Shift(F, l, k)
<1>1. Good(A, G) /\ \A x \in Places : x # l /\ x # k => G[x] = F[x]
  BY ShiftGood
<1> HIDE DEF G
<1>2. G[m] = F[m]
  BY <1>1
<1>3. Good(A, Shift(G, m, n)) /\ \A x \in Places : x # m /\ x # n => Shift(G, m, n)[x] = G[x]
  BY <1>1, <1>2, ShiftGood
<1> QED BY <1>1, <1>3 DEF G

(* A pop keeps a family fit. *)
LEMMA DroppedGood ==
  ASSUME NEW A, NEW F, Good(A, F), NEW l \in Places
  PROVE  Good(A, Dropped(F, l))
BY DroppedTyped DEF Good

(* A push of fit payloads keeps a family fit. *)
LEMMA ExtendedGood ==
  ASSUME NEW A, NEW F, Good(A, F), NEW l \in Places, NEW s \in Seq(A[l])
  PROVE  Good(A, Extended(F, l, s))
<1>1. F[l] \in Seq(A[l])
  BY DEF Good
<1>2. F[l] \o s \in Seq(A[l])
  BY <1>1, ConcatFacts
<1> QED BY <1>2 DEF Extended, Good

(* Emptying a place keeps a family fit. *)
LEMMA EmptiedGood ==
  ASSUME NEW A, NEW F, Good(A, F), NEW l \in Places
  PROVE  Good(A, Emptied(F, l))
BY EmptiedTyped DEF Good

(* A payload that fits a place fits the next place on its path. *)
LEMMA FitsMove ==
  ASSUME NEW prog, NEW l, NEW k, NEW p \in Fits(prog, l),
         k[1] \in ReadPlaces => l[1] \in ReadPlaces,
         k[1] \in WritePlaces => l[1] \in WritePlaces,
         k[2] \in {NoHost, l[2]}, l[1] \notin AbovePlaces \/ k[1] \in AbovePlaces
  PROVE  p \in Fits(prog, k)
BY DEF Fits

(* A payload that the wrapper cuts is known from then on. *)
LEMMA CutKnown ==
  ASSUME NEW prog \in Programs, NEW h \in Hosts, TypeInv, TypeInv', [Next]_vars,
         EndInv(prog), ReadCut(h) \/ WriteCut(h)
  PROVE  /\ ReadCut(h) => \A p \in Items(ReadPayloads(h, pkt[h])) :
                            /\ p \in Payload /\ p.id = h /\ p.cmd = "R"
                            /\ Covers(pkt[h], p) /\ Known(prog, p)'
         /\ WriteCut(h) => \A p \in Items(WritePayloads(h, pkt[h])) :
                            /\ p \in Payload /\ p.id = h /\ p.cmd = "W"
                            /\ Covers(pkt[h], p) /\ Known(prog, p)'
         /\ Takes(h)
<1>1. /\ pc[h] \in {"read", "write"} /\ pc' = [pc EXCEPT ![h] = "poll"]
      /\ ReadCut(h) => pc[h] = "read"
      /\ WriteCut(h) => pc[h] = "write"
  BY HandleReadDoes, HandleWriteDoes DEF ReadCut, WriteCut
<1>2. /\ Takes(h) /\ pc[h] \in HoldsPacket
      /\ ReadCut(h) => pkt[h].type = "R"
      /\ WriteCut(h) => pkt[h].type = "W"
      /\ pkt[h] \in Packet
  BY <1>1 DEF TypeInv, ControlTyped, Takes, HoldsPacket
<1> DEFINE t == Taken(prog[h], ToCome(h))
<1>3. t \in Nat /\ t' = t + 1 /\ prog[h][t + 1] = pkt[h]
  BY <1>2, EndStep
<1>4. \A p \in Payload : p.id = h /\ Covers(pkt[h], p) => Known(prog, p)'
  <2> TAKE p \in Payload
  <2> HAVE p.id = h /\ Covers(pkt[h], p)
  <2>1. t + 1 \in 1 .. t' /\ Covers(prog[h][t + 1], p)
    BY <1>3
  <2> QED BY <2>1 DEF Known
<1>5. PayloadNum \in Nat \ {0} /\ PktAddrs \subseteq Nat
  BY TlmAssumption
<1>6. \A a \in Nat, i \in 1 .. PayloadNum :
        /\ a + i - 1 = a + (i - 1) /\ i - 1 \in Slices /\ (a + i - 1) - a = i - 1
  BY <1>5 DEF Slices
<1>7. ASSUME ReadCut(h), NEW p \in Items(ReadPayloads(h, pkt[h]))
      PROVE  p \in Payload /\ p.id = h /\ p.cmd = "R" /\ Covers(pkt[h], p)
  <2>1. ReadPayloads(h, pkt[h]) \in Seq(Payload)
    BY <1>2, <1>7, CutTyped
  <2>2. p \in Payload
    BY <2>1, SeqFacts
  <2>3. PICK i \in 1 .. PayloadNum : p = ReadPayloads(h, pkt[h])[i]
    BY DEF Items, ReadPayloads
  <2>4. p = [cmd |-> "R", addr |-> pkt[h].addr + i - 1, id |-> h, data |-> NoData]
    BY <2>3 DEF ReadPayloads
  <2>5. pkt[h].addr \in Nat
    BY <1>2, <1>5, <1>7 DEF Packet
  <2>6. p.addr \in PacketAddrs(pkt[h].addr)
    BY <1>6, <2>4, <2>5 DEF PacketAddrs
  <2> QED BY <1>2, <1>7, <2>2, <2>4, <2>6 DEF Covers
<1>8. ASSUME WriteCut(h), NEW p \in Items(WritePayloads(h, pkt[h]))
      PROVE  p \in Payload /\ p.id = h /\ p.cmd = "W" /\ Covers(pkt[h], p)
  <2>1. WritePayloads(h, pkt[h]) \in Seq(Payload)
    BY <1>2, <1>8, CutTyped
  <2>2. p \in Payload
    BY <2>1, SeqFacts
  <2>3. PICK i \in 1 .. PayloadNum : p = WritePayloads(h, pkt[h])[i]
    BY DEF Items, WritePayloads
  <2>4. p = [cmd |-> "W", addr |-> pkt[h].addr + i - 1, id |-> h,
             data |-> <<pkt[h].tag, i - 1>>]
    BY <2>3 DEF WritePayloads
  <2>5. pkt[h].addr \in Nat
    BY <1>2, <1>5, <1>8 DEF Packet
  <2>6. p.addr \in PacketAddrs(pkt[h].addr) /\ p.addr - pkt[h].addr = i - 1
    BY <1>6, <2>4, <2>5 DEF PacketAddrs
  <2>7. p.data = <<pkt[h].tag, p.addr - pkt[h].addr>>
    BY <2>4, <2>6
  <2> QED BY <1>2, <1>8, <2>2, <2>4, <2>6, <2>7 DEF Covers
<1> QED BY <1>2, <1>4, <1>7, <1>8

(* A sequence is over every set that holds its items. *)
LEMMA ItemsInSeq ==
  ASSUME NEW S, NEW R, NEW q \in Seq(S), Items(q) \subseteq R
  PROVE  q \in Seq(R)
<1>1. Len(q) \in Nat /\ DOMAIN q = 1 .. Len(q) /\ q = [i \in 1 .. Len(q) |-> q[i]]
  BY LenProperties
<1>2. \A i \in 1 .. Len(q) : q[i] \in R
  BY <1>1 DEF Items
<1> DEFINE n == Len(q)
<1>3. q = [i \in 1 .. n |-> q[i]] /\ n \in Nat /\ \A i \in 1 .. n : q[i] \in R
  BY <1>1, <1>2
<1> HIDE DEF n
<1>4. q \in [1 .. n -> R]
  BY <1>3
<1> QED BY <1>3, <1>4, SeqDef

(* A step leaves in each place payloads that belong there. *)
LEMMA QueuesFitStep ==
  ASSUME OwnTraffic, NEW prog \in Programs, TypeInv, TypeInv', [Next]_vars,
         FlowInv(prog)
  PROVE  /\ \A l \in Places : Queues'[l] \in Seq(Fits(prog, l)')
         /\ dram' \subseteq Fits(prog, NoOf("mem_request"))'
<1> DEFINE A == [l \in Places |-> Fits(prog, l)']
           M == NoOf("mem_request")
<1>1. \A l : Fits(prog, l) \subseteq Fits(prog, l)'
  BY FitsGrow
<1>2. \A l \in Places : A[l] = Fits(prog, l)'
  OBVIOUS
<1> HIDE DEF A
<1>3. Good(A, Queues)
  <2>1. \A l \in Places : Queues[l] \in Seq(Fits(prog, l))
    BY DEF FlowInv
  <2>2. DOMAIN Queues = Places
    BY AtPlaces DEF PlacesRead
  <2>3. \A l \in Places : Seq(Fits(prog, l)) \subseteq Seq(A[l])
    BY <1>1, <1>2, SeqMonotonic
  <2> QED BY <2>1, <2>2, <2>3 DEF Good
<1>4. dram \subseteq Fits(prog, M)'
  <2>1. dram \subseteq Fits(prog, M)
    BY DEF FlowInv, NoOf
  <2> QED BY <1>1, <2>1
<1>5. ASSUME NEW l \in Places, NEW k \in Places, Queues[l] # <<>>,
             k[1] \in ReadPlaces => l[1] \in ReadPlaces,
             k[1] \in WritePlaces => l[1] \in WritePlaces,
             k[2] \in {NoHost, l[2]}, l[1] \notin AbovePlaces \/ k[1] \in AbovePlaces
      PROVE  Head(Queues[l]) \in A[k]
  <2>1. Head(Queues[l]) \in Fits(prog, l)
    BY <1>5, HeadsFit
  <2>2. Head(Queues[l]) \in Fits(prog, k)
    BY <1>5, <2>1, FitsMove
  <2> QED BY <1>1, <1>2, <2>2
<1> DEFINE Goal == Good(A, Queues') /\ dram' \subseteq Fits(prog, M)'
<1> USE DEF NoOf
<1>6. ASSUME NEW h \in Hosts PROVE {<<n, h>> : n \in HostPlaces} \subseteq Places
  BY DEF Places
<1>7. {NoOf(n) : n \in SharedPlaces} \subseteq Places
  BY DEF Places
<1>8. Queues' = Queues /\ dram' = dram => Goal
  BY <1>3, <1>4
<1>9. ASSUME NEW h \in Hosts, Silent(h) PROVE Goal
  BY <1>8, <1>9, SilentQueues DEF Silent
<1>10. UNCHANGED vars => Goal
  <2>1. UNCHANGED vars => UNCHANGED payloadVars
    BY DEF vars, payloadVars, simVars, linkVars, switchVars, memVars
  <2> QED BY <1>8, <2>1, SilentQueues
<1>11. ASSUME NEW h \in Hosts, ReadCut(h) PROVE Goal
  <2>1. \A p \in Items(ReadPayloads(h, pkt[h])) :
          p \in Payload /\ p.id = h /\ p.cmd = "R" /\ Known(prog, p)'
    BY <1>11, CutKnown DEF FlowInv
  <2>2. <<"r_queue", h>> \in Places
    BY DEF Places, HostPlaces
  <2>3. ReadPayloads(h, pkt[h]) \in Seq(A[<<"r_queue", h>>])
    <3>1. pc[h] = "read"
      BY <1>11, HandleReadDoes DEF ReadCut
    <3>2. ReadPayloads(h, pkt[h]) \in Seq(Payload)
      BY <3>1, CutTyped DEF TypeInv, ControlTyped
    <3>3. Items(ReadPayloads(h, pkt[h])) \subseteq A[<<"r_queue", h>>]
      BY <1>2, <2>1, <2>2 DEF Fits, ReadPlaces, WritePlaces, AbovePlaces
    <3> QED BY <3>2, <3>3, ItemsInSeq
  <2>4. dram' = dram
    BY <1>11 DEF ReadCut, memVars
  <2>5. Queues' = Extended(Queues, <<"r_queue", h>>, ReadPayloads(h, pkt[h]))
    BY <1>11, ReadCutQueues
  <2> QED BY <1>3, <1>4, <2>2, <2>3, <2>4, <2>5, ExtendedGood
<1>12. ASSUME NEW h \in Hosts, WriteCut(h) PROVE Goal
  <2>1. \A p \in Items(WritePayloads(h, pkt[h])) :
          p \in Payload /\ p.id = h /\ p.cmd = "W" /\ Known(prog, p)'
    BY <1>12, CutKnown DEF FlowInv
  <2>2. <<"w_queue", h>> \in Places
    BY DEF Places, HostPlaces
  <2>3. WritePayloads(h, pkt[h]) \in Seq(A[<<"w_queue", h>>])
    <3>1. pc[h] = "write"
      BY <1>12, HandleWriteDoes DEF WriteCut
    <3>2. WritePayloads(h, pkt[h]) \in Seq(Payload)
      BY <3>1, CutTyped DEF TypeInv, ControlTyped
    <3>3. Items(WritePayloads(h, pkt[h])) \subseteq A[<<"w_queue", h>>]
      BY <1>2, <2>1, <2>2 DEF Fits, ReadPlaces, WritePlaces, AbovePlaces
    <3> QED BY <3>2, <3>3, ItemsInSeq
  <2>4. dram' = dram
    BY <1>12 DEF WriteCut, memVars
  <2>5. Queues' = Extended(Queues, <<"w_queue", h>>, WritePayloads(h, pkt[h]))
    BY <1>12, WriteCutQueues
  <2> QED BY <1>3, <1>4, <2>2, <2>3, <2>4, <2>5, ExtendedGood
<1>13. ASSUME NEW h \in Hosts, SimPosedge(h) PROVE Goal
  <2> DEFINE l == <<"rack_incoming", h>>
             k == <<"rack_queue", h>>
             m == <<"wack_incoming", h>>
             n == <<"wack_queue", h>>
  <2>1. Queues' = Shift(Shift(Queues, l, k), m, n)
    BY <1>13, PosedgeShifts
  <2>2. l \in Places /\ k \in Places /\ m \in Places /\ n \in Places
    BY <1>6 DEF HostPlaces
  <2>3. Queues[l] # <<>> => Head(Queues[l]) \in A[k]
    BY <1>5, <2>2 DEF ReadPlaces, WritePlaces, AbovePlaces
  <2>4. Queues[m] # <<>> => Head(Queues[m]) \in A[n]
    BY <1>5, <2>2 DEF ReadPlaces, WritePlaces, AbovePlaces
  <2>5. l # k /\ m # n /\ m # l /\ m # k
    OBVIOUS
  <2>6. dram' = dram
    BY <1>13 DEF SimPosedge, memVars
  <2> HIDE DEF l, k, m, n
  <2> QED BY <1>3, <1>4, <2>1, <2>2, <2>3, <2>4, <2>5, <2>6, ShiftsGood
<1>14. ASSUME NEW h \in Hosts, SimNegedge(h) PROVE Goal
  <2> DEFINE l == <<"r_queue", h>>
             k == <<"fw_r", h>>
             m == <<"w_queue", h>>
             n == <<"fw_w", h>>
             r == <<"rack_queue", h>>
             w == <<"wack_queue", h>>
             F == Shift(Shift(Queues, l, k), m, n)
  <2>1. Queues' = Dropped(Dropped(F, r), w)
    BY <1>14, NegedgeShifts
  <2>2. l \in Places /\ k \in Places /\ m \in Places /\ n \in Places
        /\ r \in Places /\ w \in Places
    BY <1>6 DEF HostPlaces
  <2>3. Queues[l] # <<>> => Head(Queues[l]) \in A[k]
    BY <1>5, <2>2 DEF ReadPlaces, WritePlaces, AbovePlaces
  <2>4. Queues[m] # <<>> => Head(Queues[m]) \in A[n]
    BY <1>5, <2>2 DEF ReadPlaces, WritePlaces, AbovePlaces
  <2>5. l # k /\ m # n /\ m # l /\ m # k
    OBVIOUS
  <2>6. dram' = dram
    BY <1>14 DEF SimNegedge, memVars
  <2> HIDE DEF l, k, m, n, r, w
  <2>7. Good(A, F)
    BY <1>3, <2>2, <2>3, <2>4, <2>5, ShiftsGood
  <2> HIDE DEF F
  <2>8. Good(A, Dropped(F, r))
    BY <2>2, <2>7, DroppedGood
  <2> QED BY <1>4, <2>1, <2>2, <2>6, <2>8, DroppedGood
<1>15. ASSUME NEW h \in Hosts, LinkForward(h) PROVE Goal
  <2>1. /\ <<"fw_r", h>> \in Places /\ <<"fw_w", h>> \in Places
        /\ Queues[<<"fw_r", h>>] = fw_r[h] /\ Queues[<<"fw_w", h>>] = fw_w[h]
    BY <1>6, AtPlaces DEF HostPlaces, PlacesRead
  <2>2. /\ NoOf("c_r") \in Places /\ NoOf("c_w") \in Places
        /\ <<"fw_r", h>> # NoOf("c_r") /\ <<"fw_w", h>> # NoOf("c_w")
    BY <1>7 DEF SharedPlaces
  <2>3. dram' = dram
    BY <1>15 DEF LinkForward, memVars
  <2>4. h # NoHost /\ DOMAIN r_trans_id = Addrs /\ DOMAIN w_trans_id = Addrs
    BY TlmAssumption DEF TypeInv, SwitchTyped
  <2>5. \A p \in Payload : /\ p.addr \in Addrs
                           /\ p.cmd = "R" => Port(p)' = r_trans_id'[p.addr]
                           /\ p.cmd = "W" => Port(p)' = w_trans_id'[p.addr]
    BY DEF Payload, Port
  <2>6. ASSUME fw_r[h] # <<>>, Queues' = Shift(Queues, <<"fw_r", h>>, NoOf("c_r")),
               r_trans_id' = [r_trans_id EXCEPT ![Head(fw_r[h]).addr] = h]
        PROVE  Goal
    <3> PICK x : x = Head(fw_r[h])
      OBVIOUS
    <3>1. x \in Fits(prog, <<"fw_r", h>>) /\ x \in Fits(prog, <<"fw_r", h>>)'
      BY <1>1, <2>1, <2>6, HeadsFit
    <3>a. r_trans_id' = [r_trans_id EXCEPT ![x.addr] = h]
      BY <2>6
    <3>2. x \in Payload /\ x.cmd = "R" /\ x.id = h /\ Known(prog, x)'
      <4>1. x \in Payload /\ Known(prog, x)'
        BY <3>1 DEF Fits
      <4>2. x.cmd = "R"
        BY <3>1 DEF Fits, ReadPlaces
      <4>3. x.id = h
        BY <2>4, <3>1 DEF Fits
      <4> QED BY <4>1, <4>2, <4>3
    <3>3. Port(x)' = h
      BY <2>4, <2>5, <3>a, <3>2
    <3>4. x \in A[NoOf("c_r")]
      <4>1. x \in Fits(prog, NoOf("c_r"))'
        BY <3>2, <3>3 DEF Fits, ReadPlaces, WritePlaces
      <4> QED BY <1>2, <2>2, <4>1
    <3>5. Queues[<<"fw_r", h>>] # <<>> => Head(Queues[<<"fw_r", h>>]) \in A[NoOf("c_r")]
      BY <2>1, <3>4
    <3>6. Good(A, Queues')
      BY <1>3, <2>1, <2>2, <2>6, <3>5, ShiftGood
    <3> QED BY <1>4, <2>3, <3>6
  <2>7. ASSUME fw_w[h] # <<>>, Queues' = Shift(Queues, <<"fw_w", h>>, NoOf("c_w")),
               w_trans_id' = [w_trans_id EXCEPT ![Head(fw_w[h]).addr] = h]
        PROVE  Goal
    <3> PICK x : x = Head(fw_w[h])
      OBVIOUS
    <3>1. x \in Fits(prog, <<"fw_w", h>>) /\ x \in Fits(prog, <<"fw_w", h>>)'
      BY <1>1, <2>1, <2>7, HeadsFit
    <3>a. w_trans_id' = [w_trans_id EXCEPT ![x.addr] = h]
      BY <2>7
    <3>2. x \in Payload /\ x.cmd = "W" /\ x.id = h /\ Known(prog, x)'
      <4>1. x \in Payload /\ Known(prog, x)'
        BY <3>1 DEF Fits
      <4>2. x.cmd = "W"
        BY <3>1 DEF Fits, WritePlaces
      <4>3. x.id = h
        BY <2>4, <3>1 DEF Fits
      <4> QED BY <4>1, <4>2, <4>3
    <3>3. Port(x)' = h
      BY <2>4, <2>5, <3>a, <3>2
    <3>4. x \in A[NoOf("c_w")]
      <4>1. x \in Fits(prog, NoOf("c_w"))'
        BY <3>2, <3>3 DEF Fits, ReadPlaces, WritePlaces
      <4> QED BY <1>2, <2>2, <4>1
    <3>5. Queues[<<"fw_w", h>>] # <<>> => Head(Queues[<<"fw_w", h>>]) \in A[NoOf("c_w")]
      BY <2>1, <3>4
    <3>6. Good(A, Queues')
      BY <1>3, <2>1, <2>2, <2>7, <3>5, ShiftGood
    <3> QED BY <1>4, <2>3, <3>6
  <2> QED BY <1>15, <2>6, <2>7, ForwardShifts
<1>16. ASSUME SwitchForward PROVE Goal
  <2>1. /\ NoOf("c_r") \in Places /\ NoOf("m_r") \in Places
        /\ NoOf("c_w") \in Places /\ NoOf("m_w") \in Places
        /\ NoOf("c_r") # NoOf("m_r") /\ NoOf("c_w") # NoOf("m_w")
    BY <1>7 DEF SharedPlaces
  <2>2. /\ Queues[NoOf("c_r")] # <<>> => Head(Queues[NoOf("c_r")]) \in A[NoOf("m_r")]
        /\ Queues[NoOf("c_w")] # <<>> => Head(Queues[NoOf("c_w")]) \in A[NoOf("m_w")]
    BY <1>5, <2>1 DEF ReadPlaces, WritePlaces, AbovePlaces
  <2>3. dram' = dram
    BY <1>16, SwitchForwardDoes
  <2>4. Queues' = Shift(Queues, NoOf("c_r"), NoOf("m_r")) => Good(A, Queues')
    BY <1>3, <2>1, <2>2, ShiftGood
  <2>5. Queues' = Shift(Queues, NoOf("c_w"), NoOf("m_w")) => Good(A, Queues')
    BY <1>3, <2>1, <2>2, ShiftGood
  <2> QED BY <1>4, <1>16, <2>3, <2>4, <2>5, SwitchForwardShifts
<1>17. ASSUME MemPosedge PROVE Goal
  <2> DEFINE l == NoOf("m_r")
             m == NoOf("m_w")
  <2>1. Queues' = Shift(Shift(Queues, l, M), m, M)
    BY <1>17, MemPosedgeShifts
  <2>2. l \in Places /\ M \in Places /\ m \in Places
    BY <1>7 DEF SharedPlaces
  <2>3. Queues[l] # <<>> => Head(Queues[l]) \in A[M]
    BY <1>5, <2>2 DEF ReadPlaces, WritePlaces, AbovePlaces
  <2>4. Queues[m] # <<>> => Head(Queues[m]) \in A[M]
    BY <1>5, <2>2 DEF ReadPlaces, WritePlaces, AbovePlaces
  <2>5. l # M /\ m # M /\ m # l
    OBVIOUS
  <2>6. dram' = dram
    BY <1>17, MemPosedgeDoes
  <2> HIDE DEF l, M, m
  <2>7. Good(A, Queues')
    BY <1>3, <2>1, <2>2, <2>3, <2>4, <2>5, ShiftsGood
  <2> QED BY <1>4, <2>6, <2>7
<1>18. ASSUME MemNegedge PROVE Goal
  <2> DEFINE l == NoOf("m_rack")
             k == NoOf("c_rack")
             m == NoOf("m_wack")
             n == NoOf("c_wack")
  <2>1. Queues' = Shift(Shift(Queues, l, k), m, n)
    BY <1>18, MemNegedgeShifts
  <2>2. l \in Places /\ k \in Places /\ m \in Places /\ n \in Places
    BY <1>7 DEF SharedPlaces
  <2>3. Queues[l] # <<>> => Head(Queues[l]) \in A[k]
    BY <1>5, <2>2 DEF ReadPlaces, WritePlaces, AbovePlaces
  <2>4. Queues[m] # <<>> => Head(Queues[m]) \in A[n]
    BY <1>5, <2>2 DEF ReadPlaces, WritePlaces, AbovePlaces
  <2>5. l # k /\ m # n /\ m # l /\ m # k
    OBVIOUS
  <2>6. dram' = dram
    BY <1>18, MemNegedgeDoes
  <2> HIDE DEF l, k, m, n
  <2>7. Good(A, Queues')
    BY <1>3, <2>1, <2>2, <2>3, <2>4, <2>5, ShiftsGood
  <2> QED BY <1>4, <2>6, <2>7
<1>19. ASSUME SimulateDram PROVE Goal
  <2> DEFINE r == NoOf("m_rack")
             w == NoOf("m_wack")
  <2>1. PICK done :
           /\ done = {} \/ \E p \in dram : done = {p}
           /\ dram' = (dram \ done) \cup Items(mem_request)
           /\ Queues' = Extended(Extended(Emptied(Queues, M), r, Mem!Acks(done, "R")),
                                 w, Mem!Acks(done, "W"))
    BY <1>19, DramExtends
  <2> DEFINE rs == Mem!Acks(done, "R")
             ws == Mem!Acks(done, "W")
             F == Emptied(Queues, M)
             G == Extended(F, r, rs)
             H == Extended(G, w, ws)
  <2>2. r \in Places /\ w \in Places /\ M \in Places
    BY <1>7 DEF SharedPlaces
  <2>3a. \A p \in dram : p.cmd = "R" => p \in A[r]
    BY <1>2, <1>4, <2>2 DEF Fits, ReadPlaces, WritePlaces, AbovePlaces
  <2>3b. \A p \in dram : p.cmd = "W" => p \in A[w]
    BY <1>2, <1>4, <2>2 DEF Fits, ReadPlaces, WritePlaces, AbovePlaces
  <2>4. rs \in Seq(A[r]) /\ ws \in Seq(A[w])
    <3>1. <<>> \in Seq(A[r]) /\ <<>> \in Seq(A[w])
      BY EmptySeq
    <3>a. \A S : \A p \in S : <<p>> \in Seq(S)
      OBVIOUS
    <3> HIDE DEF r, w
    <3>3. CASE done = {}
      BY <3>1, <3>3, AcksAre
    <3>4. CASE \E p \in dram : done = {p}
      <4>1. PICK p \in dram : done = {p}
        BY <3>4
      <4>2. /\ rs = IF p.cmd = "R" THEN <<p>> ELSE <<>>
            /\ ws = IF p.cmd = "W" THEN <<p>> ELSE <<>>
        BY <4>1, AcksAre
      <4> HIDE DEF rs, ws
      <4>3. p.cmd = "R" => <<p>> \in Seq(A[r])
        BY <2>3a, <3>a
      <4>4. p.cmd = "W" => <<p>> \in Seq(A[w])
        BY <2>3b, <3>a
      <4> QED BY <3>1, <4>2, <4>3, <4>4
    <3> QED BY <2>1, <3>3, <3>4
  <2>5. Items(mem_request) \subseteq Fits(prog, M)'
    <3>1. Queues[M] = mem_request
      BY AtPlaces DEF PlacesRead
    <3>2. mem_request \in Seq(A[M])
      BY <1>3, <2>2, <3>1 DEF Good
    <3>3. Items(mem_request) \subseteq A[M]
      BY <3>2, SeqFacts
    <3> QED BY <1>2, <2>2, <3>3
  <2>6. dram' \subseteq Fits(prog, M)'
    BY <1>4, <2>1, <2>5
  <2>7. Queues' = H
    BY <2>1
  <2> HIDE DEF r, w, rs, ws, M
  <2>8. Good(A, F)
    BY <1>3, <2>2, EmptiedGood
  <2> HIDE DEF F
  <2>9. Good(A, G)
    BY <2>2, <2>4, <2>8, ExtendedGood
  <2> HIDE DEF G
  <2>10. Good(A, H)
    BY <2>2, <2>4, <2>9, ExtendedGood
  <2> QED BY <2>6, <2>7, <2>10
<1>20. ASSUME SwitchBackward PROVE Goal
  <2>1. /\ NoOf("c_rack") \in Places /\ NoOf("c_wack") \in Places
        /\ Queues[NoOf("c_rack")] = c_rack /\ Queues[NoOf("c_wack")] = c_wack
    BY <1>7, AtPlaces DEF SharedPlaces, PlacesRead
  <2>2. c_rack # <<>> => /\ Head(c_rack) \in Fits(prog, NoOf("c_rack"))
                         /\ Head(c_rack).cmd = "R" /\ Head(c_rack).id \in Hosts
                         /\ r_trans_id[Head(c_rack).addr] = Head(c_rack).id
    <3> SUFFICES ASSUME c_rack # <<>>
                 PROVE  /\ Head(c_rack) \in Fits(prog, NoOf("c_rack"))
                        /\ Head(c_rack).cmd = "R" /\ Head(c_rack).id \in Hosts
                        /\ r_trans_id[Head(c_rack).addr] = Head(c_rack).id
      OBVIOUS
    <3>1. Head(c_rack) \in Fits(prog, NoOf("c_rack"))
      BY <2>1, HeadsFit
    <3> QED BY <3>1 DEF Fits, ReadPlaces, AbovePlaces, Port, Payload
  <2>3. c_wack # <<>> => /\ Head(c_wack) \in Fits(prog, NoOf("c_wack"))
                         /\ Head(c_wack).cmd = "W" /\ Head(c_wack).id \in Hosts
                         /\ w_trans_id[Head(c_wack).addr] = Head(c_wack).id
    <3> SUFFICES ASSUME c_wack # <<>>
                 PROVE  /\ Head(c_wack) \in Fits(prog, NoOf("c_wack"))
                        /\ Head(c_wack).cmd = "W" /\ Head(c_wack).id \in Hosts
                        /\ w_trans_id[Head(c_wack).addr] = Head(c_wack).id
      OBVIOUS
    <3>1. Head(c_wack) \in Fits(prog, NoOf("c_wack"))
      BY <2>1, HeadsFit
    <3> QED BY <3>1 DEF Fits, WritePlaces, AbovePlaces, Port, Payload
  <2>4. dram' = dram
    BY <1>20 DEF SwitchBackward, memVars
  <2>5. ASSUME c_rack # <<>>,
               Queues' = Shift(Queues, NoOf("c_rack"), <<"bw_r", r_trans_id[Head(c_rack).addr]>>)
        PROVE  Goal
    <3> PICK h : h = r_trans_id[Head(c_rack).addr]
      OBVIOUS
    <3> DEFINE k == <<"bw_r", h>>
    <3>1. k \in Places /\ k # NoOf("c_rack")
      BY <1>6, <2>2, <2>5 DEF HostPlaces
    <3>2. Head(c_rack) \in Fits(prog, NoOf("c_rack"))'
      BY <1>1, <2>2, <2>5
    <3> PICK x : x = Head(c_rack)
      OBVIOUS
    <3>a. x.id = h /\ h \in Hosts /\ x \in Fits(prog, NoOf("c_rack"))' /\ x.cmd = "R"
      BY <2>2, <2>5, <3>2
    <3>3. x \in Fits(prog, k)'
      BY <3>a DEF Fits, ReadPlaces, WritePlaces, AbovePlaces
    <3> HIDE DEF k
    <3>b. x \in A[k]
      BY <1>2, <3>1, <3>3
    <3>4. Head(Queues[NoOf("c_rack")]) \in A[k]
      BY <2>1, <3>b
    <3>5. Queues' = Shift(Queues, NoOf("c_rack"), k)
      BY <2>5 DEF k
    <3>6. Good(A, Queues')
      BY <1>3, <2>1, <3>1, <3>4, <3>5, ShiftGood
    <3> QED BY <1>4, <2>4, <3>6
  <2>6. ASSUME c_wack # <<>>,
               Queues' = Shift(Queues, NoOf("c_wack"), <<"bw_w", w_trans_id[Head(c_wack).addr]>>)
        PROVE  Goal
    <3> PICK h : h = w_trans_id[Head(c_wack).addr]
      OBVIOUS
    <3> DEFINE k == <<"bw_w", h>>
    <3>1. k \in Places /\ k # NoOf("c_wack")
      BY <1>6, <2>3, <2>6 DEF HostPlaces
    <3>2. Head(c_wack) \in Fits(prog, NoOf("c_wack"))'
      BY <1>1, <2>3, <2>6
    <3> PICK x : x = Head(c_wack)
      OBVIOUS
    <3>a. x.id = h /\ h \in Hosts /\ x \in Fits(prog, NoOf("c_wack"))' /\ x.cmd = "W"
      BY <2>3, <2>6, <3>2
    <3>3. x \in Fits(prog, k)'
      BY <3>a DEF Fits, ReadPlaces, WritePlaces, AbovePlaces
    <3> HIDE DEF k
    <3>b. x \in A[k]
      BY <1>2, <3>1, <3>3
    <3>4. Head(Queues[NoOf("c_wack")]) \in A[k]
      BY <2>1, <3>b
    <3>5. Queues' = Shift(Queues, NoOf("c_wack"), k)
      BY <2>6 DEF k
    <3>6. Good(A, Queues')
      BY <1>3, <2>1, <3>1, <3>4, <3>5, ShiftGood
    <3> QED BY <1>4, <2>4, <3>6
  <2> HIDE DEF Goal
  <2> QED BY <1>20, <2>2, <2>3, <2>5, <2>6, SwitchBackwardShifts
<1>21. ASSUME NEW h \in Hosts, LinkBackward(h) PROVE Goal
  <2>1. /\ <<"bw_r", h>> \in Places /\ <<"rack_incoming", h>> \in Places
        /\ <<"bw_w", h>> \in Places /\ <<"wack_incoming", h>> \in Places
        /\ <<"bw_r", h>> # <<"rack_incoming", h>>
        /\ <<"bw_w", h>> # <<"wack_incoming", h>>
    BY <1>6 DEF HostPlaces
  <2>2. Queues[<<"bw_r", h>>] # <<>> => Head(Queues[<<"bw_r", h>>]) \in A[<<"rack_incoming", h>>]
    BY <1>5, <2>1 DEF ReadPlaces, WritePlaces, AbovePlaces
  <2>3. Queues[<<"bw_w", h>>] # <<>> => Head(Queues[<<"bw_w", h>>]) \in A[<<"wack_incoming", h>>]
    BY <1>5, <2>1 DEF ReadPlaces, WritePlaces, AbovePlaces
  <2>4. dram' = dram
    BY <1>21 DEF LinkBackward, memVars
  <2>5. Queues' = Shift(Queues, <<"bw_r", h>>, <<"rack_incoming", h>>) => Good(A, Queues')
    BY <1>3, <2>1, <2>2, ShiftGood
  <2>6. Queues' = Shift(Queues, <<"bw_w", h>>, <<"wack_incoming", h>>) => Good(A, Queues')
    BY <1>3, <2>1, <2>3, ShiftGood
  <2>7. /\ paced_r[h] => rack_incoming[h] = NoPayload
        /\ paced_w[h] => wack_incoming[h] = NoPayload
    BY DEF FlowInv
  <2> QED BY <1>4, <1>21, <2>4, <2>5, <2>6, <2>7, BackwardShifts
<1> HIDE DEF Goal
<1>22. Goal
  BY <1>9, <1>10, <1>11, <1>12, <1>13, <1>14, <1>15, <1>16, <1>17, <1>18, <1>19,
     <1>20, <1>21, NextCases
<1> QED BY <1>2, <1>22 DEF Goal, Good

(* A step keeps the slot free where a port may hand over an ack. *)
LEMMA PacedStep == TypeInv /\ PacedInv /\ [Next]_vars => PacedInv'
<1> SUFFICES ASSUME TypeInv, PacedInv, [Next]_vars PROVE PacedInv'
  OBVIOUS
<1> DEFINE same == UNCHANGED <<paced_r, paced_w, rack_incoming, wack_incoming>>
<1>0. /\ DOMAIN paced_r = Hosts /\ DOMAIN paced_w = Hosts
      /\ DOMAIN rack_incoming = Hosts /\ DOMAIN wack_incoming = Hosts
  BY DEF TypeInv, QueuesTyped, LinkTyped
<1>1. same => PacedInv'
  BY DEF PacedInv
<1>2. ASSUME NEW h \in Hosts, SimPosedge(h) PROVE PacedInv'
  <2>1. PosedgeQueues(h)
    BY <1>2, PosedgeDoes
  <2> QED BY <1>0, <2>1 DEF PosedgeQueues, PacedInv
<1>3. ASSUME NEW h \in Hosts, LinkBackward(h) PROVE PacedInv'
  <2>1. \/ /\ paced_r' = [paced_r EXCEPT ![h] = FALSE]
           /\ rack_incoming' = [rack_incoming EXCEPT ![h] = Head(bw_r[h])]
           /\ UNCHANGED <<paced_w, wack_incoming>>
        \/ /\ paced_w' = [paced_w EXCEPT ![h] = FALSE]
           /\ wack_incoming' = [wack_incoming EXCEPT ![h] = Head(bw_w[h])]
           /\ UNCHANGED <<paced_r, rack_incoming>>
    BY <1>3, BackwardDoes
  <2> QED BY <1>0, <2>1 DEF PacedInv
<1>4. ASSUME NEW h \in Hosts,
             Silent(h) \/ ReadCut(h) \/ WriteCut(h) \/ SimNegedge(h) \/ LinkForward(h)
      PROVE  same
  <2>1. Silent(h) => same
    BY DEF Silent, payloadVars, linkVars
  <2>2. ReadCut(h) => same
    BY HandleReadDoes DEF ReadCut, linkVars
  <2>3. WriteCut(h) => same
    BY HandleWriteDoes DEF WriteCut, linkVars
  <2>4. SimNegedge(h) => same
    BY NegedgeDoes DEF NegedgeQueues
  <2>5. LinkForward(h) => same
    BY ForwardDoes DEF simVars
  <2> QED BY <1>4, <2>1, <2>2, <2>3, <2>4, <2>5
<1>5. SwitchForward \/ MemPosedge \/ SimulateDram \/ MemNegedge => same
  BY DEF SwitchForward, MemPosedge, SimulateDram, MemNegedge, simVars, linkVars
<1>6. SwitchBackward => same
  BY SwitchBackwardDoes DEF simVars
<1>7. UNCHANGED vars => same
  BY DEF vars, simVars, linkVars
<1> HIDE DEF same
<1> QED BY <1>1, <1>2, <1>3, <1>4, <1>5, <1>6, <1>7, NextCases

(* A step keeps the flow invariant for the programs the hosts started with. *)
LEMMA FlowStep ==
  ASSUME OwnTraffic, NEW prog \in Programs
  PROVE  TypeInv /\ TypeInv' /\ FlowInv(prog) /\ [Next]_vars => FlowInv(prog)'
<1> SUFFICES ASSUME TypeInv, TypeInv', FlowInv(prog), [Next]_vars
             PROVE  FlowInv(prog)'
  OBVIOUS
<1>1. EndInv(prog)'
  BY EndStep DEF FlowInv
<1>2. /\ \A l \in Places : Queues'[l] \in Seq(Fits(prog, l)')
      /\ dram' \subseteq Fits(prog, NoOf("mem_request"))'
  BY QueuesFitStep
<1>3. PacedInv'
  BY PacedStep DEF FlowInv, PacedInv
<1> QED BY <1>1, <1>2, <1>3 DEF FlowInv, PacedInv, NoOf

(* At the start nothing is taken and nothing is under way. *)
LEMMA QueuesAtStart ==
  ASSUME Init
  PROVE  /\ \A l \in Places : Queues[l] = <<>>
         /\ dram = {} /\ trace \in Programs
         /\ \A h \in Hosts : ToCome(h) = trace[h] /\ pc[h] = "first"
<1>1. Host!Init /\ Sim!Init /\ Lk!Init /\ Sw!Init /\ Mem!Init
  BY DEF Init
<1>2. ASSUME NEW l \in Places PROVE Queues[l] = <<>>
  <2>1. PlacesRead
    BY AtPlaces
  <2>2. \A h \in Hosts : Sim!Slot(rack_incoming[h]) = <<>> /\ Sim!Slot(wack_incoming[h]) = <<>>
    BY <1>1 DEF Sim!Init, Sim!Slot
  <2>3. \A h \in Hosts :
          /\ Queues[<<"r_queue", h>>] = <<>> /\ Queues[<<"w_queue", h>>] = <<>>
          /\ Queues[<<"rack_queue", h>>] = <<>> /\ Queues[<<"wack_queue", h>>] = <<>>
          /\ Queues[<<"rack_incoming", h>>] = <<>> /\ Queues[<<"wack_incoming", h>>] = <<>>
    BY <1>1, <2>1, <2>2 DEF PlacesRead, Sim!Init
  <2>4. \A h \in Hosts :
          /\ Queues[<<"fw_r", h>>] = <<>> /\ Queues[<<"fw_w", h>>] = <<>>
          /\ Queues[<<"bw_r", h>>] = <<>> /\ Queues[<<"bw_w", h>>] = <<>>
    BY <1>1, <2>1 DEF PlacesRead, Lk!Init
  <2>5. /\ Queues[NoOf("c_r")] = <<>> /\ Queues[NoOf("c_w")] = <<>>
        /\ Queues[NoOf("c_rack")] = <<>> /\ Queues[NoOf("c_wack")] = <<>>
    BY <1>1, <2>1 DEF PlacesRead, Sw!Init
  <2>6. /\ Queues[NoOf("m_r")] = <<>> /\ Queues[NoOf("m_w")] = <<>>
        /\ Queues[NoOf("mem_request")] = <<>>
        /\ Queues[NoOf("m_rack")] = <<>> /\ Queues[NoOf("m_wack")] = <<>>
    BY <1>1, <2>1 DEF PlacesRead, Mem!Init
  <2> QED BY <2>3, <2>4, <2>5, <2>6, EveryPlace
<1>3. dram = {} /\ trace \in Programs
  BY <1>1 DEF Mem!Init, Host!Init
<1>4. ASSUME NEW h \in Hosts PROVE ToCome(h) = trace[h] /\ pc[h] = "first"
  <2>1. pc[h] = "first" /\ toSim[h] = <<>>
    BY <1>1 DEF Sim!Init, Host!Init
  <2>2. trace[h] \in Seq(Packet)
    BY <1>3, HostAssumption
  <2>3. InHand(h) = <<>>
    BY <2>1 DEF InHand
  <2>4. <<>> \o <<>> = <<>> /\ <<>> \o trace[h] = trace[h]
    BY <2>2, ConcatEmptySeq, EmptySeq
  <2> QED BY <2>1, <2>3, <2>4 DEF ToCome
<1> QED BY <1>2, <1>3, <1>4

(* The flow invariant holds at the start, for the programs the traces hold then.
   *)
LEMMA FlowInit ==
  Init => \E prog \in Programs : FlowInv(prog) /\ \A h \in Hosts : trace[h] = prog[h]
<1> SUFFICES ASSUME Init
             PROVE  \E prog \in Programs : FlowInv(prog) /\ \A h \in Hosts : trace[h] = prog[h]
  OBVIOUS
<1>1. trace \in Programs
  BY QueuesAtStart
<1> PICK prog \in Programs : prog = trace
  BY <1>1
<1>2. EndInv(prog)
  <2> SUFFICES ASSUME NEW h \in Hosts PROVE IsEndOf(ToCome(h), prog[h])
    BY DEF EndInv
  <2>1. prog[h] \in Seq(Packet) /\ ToCome(h) = prog[h]
    BY HostAssumption, QueuesAtStart
  <2> QED BY <2>1, EndAtStart
<1>3. \A l \in Places : Queues[l] \in Seq(Fits(prog, l))
  BY QueuesAtStart, EmptySeq
<1>4. dram \subseteq Fits(prog, <<"mem_request", NoHost>>)
  BY QueuesAtStart
<1>5. \A h \in Hosts : rack_incoming[h] = NoPayload /\ wack_incoming[h] = NoPayload
  BY DEF Init, Sim!Init
<1> QED BY <1>2, <1>3, <1>4, <1>5 DEF FlowInv

(* A step keeps the flow invariant for some programs. *)
LEMMA FlowHoldsStep ==
  ASSUME OwnTraffic
  PROVE  FlowHolds /\ [Next]_vars => FlowHolds'
<1> SUFFICES ASSUME FlowHolds, [Next]_vars PROVE FlowHolds'
  OBVIOUS
<1>1. TypeInv /\ TypeInv'
  BY TypeInvStep DEF FlowHolds
<1>2. PICK prog \in Programs : FlowInv(prog)
  BY DEF FlowHolds
<1>3. FlowInv(prog)'
  BY <1>1, <1>2, FlowStep
<1> QED BY <1>1, <1>3 DEF FlowHolds

(* The flow invariant holds in every reachable state. *)
LEMMA FlowAlways ==
  ASSUME OwnTraffic
  PROVE  Spec => []FlowHolds
<1>1. Init => FlowHolds
  BY TypeInvInit, FlowInit DEF FlowHolds
<1>2. FlowHolds /\ [Next]_vars => FlowHolds'
  BY FlowHoldsStep
<1> QED BY <1>1, <1>2, PTL DEF Spec

(* Every ack that a port, a wrapper or its queues hold is for their host, *)
(* if no payload address is read, and none is written, by two hosts: then *)
(* the tables of the controller (controller.cpp, r_trans_id, w_trans_id)  *)
(* point home from the first request at an address on.                    *)
THEOREM AcksComeHome ==
  ASSUME OwnTraffic
  PROVE  Spec => []RoutedHome
<1>1. FlowHolds => RoutedHome
  <2> SUFFICES ASSUME FlowHolds, NEW h \in Hosts,
                      NEW p \in UNION {Items(bw_r[h]), Items(bw_w[h]),
                                       OnSlot(rack_incoming[h]), OnSlot(wack_incoming[h]),
                                       Items(rack_queue[h]), Items(wack_queue[h])}
               PROVE  p.id = h
    BY DEF RoutedHome
  <2>1. PICK prog \in Programs : FlowInv(prog)
    BY DEF FlowHolds
  <2>2. h # NoHost
    BY TlmAssumption
  <2>3. \A n \in HostPlaces : \A x \in Items(Queues[<<n, h>>]) : x.id = h
    <3> TAKE n \in HostPlaces
    <3>1. Queues[<<n, h>>] \in Seq(Fits(prog, <<n, h>>))
      BY <2>1 DEF FlowInv, Places
    <3>2. Items(Queues[<<n, h>>]) \subseteq Fits(prog, <<n, h>>)
      BY <3>1, SeqFacts
    <3> QED BY <2>2, <3>2 DEF Fits
  <2>4. rack_incoming[h] \in Payload \cup {NoPayload}
        /\ wack_incoming[h] \in Payload \cup {NoPayload}
    BY DEF FlowHolds, TypeInv, QueuesTyped
  <2>5. /\ OnSlot(rack_incoming[h]) = Items(Queues[<<"rack_incoming", h>>])
        /\ OnSlot(wack_incoming[h]) = Items(Queues[<<"wack_incoming", h>>])
    BY <2>4, SlotFacts, AtPlaces DEF PlacesRead
  <2>6. /\ Items(bw_r[h]) = Items(Queues[<<"bw_r", h>>])
        /\ Items(bw_w[h]) = Items(Queues[<<"bw_w", h>>])
        /\ Items(rack_queue[h]) = Items(Queues[<<"rack_queue", h>>])
        /\ Items(wack_queue[h]) = Items(Queues[<<"wack_queue", h>>])
    BY AtPlaces DEF PlacesRead
  <2> QED BY <2>3, <2>5, <2>6 DEF HostPlaces
<1>2. Spec => []FlowHolds
  BY FlowAlways
<1> QED BY <1>1, <1>2, PTL

-----------------------------------------------------------------------------
(* Every open payload is in one place, once *)

(* Hosts whose packets never overlap own their traffic. *)
LEMMA OnceIsOwn == PacketsOnce => OwnTraffic
BY DEF PacketsOnce, OwnTraffic, Items

(* The typed queues, as one family of payload sequences. *)
LEMMA QueuesTogether == TypeInv => Queues \in Family(Places, Payload)
<1> SUFFICES ASSUME TypeInv PROVE Queues \in Family(Places, Payload)
  OBVIOUS
<1>1. ASSUME NEW l \in Places PROVE Queues[l] \in Seq(Payload)
  <2>1. PlacesRead
    BY AtPlaces
  <2>2. \A h \in Hosts : /\ Sim!Slot(rack_incoming[h]) \in Seq(Payload)
                         /\ Sim!Slot(wack_incoming[h]) \in Seq(Payload)
    BY SlotFacts DEF TypeInv, QueuesTyped
  <2>3. QueuesTyped /\ LinkTyped /\ SwitchTyped /\ MemTyped
    BY DEF TypeInv
  <2>a. \A h \in Hosts :
          /\ Queues[<<"r_queue", h>>] \in Seq(Payload) /\ Queues[<<"w_queue", h>>] \in Seq(Payload)
          /\ Queues[<<"rack_queue", h>>] \in Seq(Payload)
          /\ Queues[<<"wack_queue", h>>] \in Seq(Payload)
    <3>1. \A h \in Hosts : /\ r_queue[h] \in Seq(Payload) /\ w_queue[h] \in Seq(Payload)
                           /\ rack_queue[h] \in Seq(Payload) /\ wack_queue[h] \in Seq(Payload)
      BY <2>3 DEF QueuesTyped
    <3>2. \A h \in Hosts :
            /\ Queues[<<"r_queue", h>>] = r_queue[h] /\ Queues[<<"w_queue", h>>] = w_queue[h]
            /\ Queues[<<"rack_queue", h>>] = rack_queue[h]
            /\ Queues[<<"wack_queue", h>>] = wack_queue[h]
      BY <2>1 DEF PlacesRead
    <3> QED BY <3>1, <3>2
  <2>4. \A h \in Hosts :
          /\ Queues[<<"rack_incoming", h>>] \in Seq(Payload)
          /\ Queues[<<"wack_incoming", h>>] \in Seq(Payload)
    BY <2>1, <2>2 DEF PlacesRead
  <2>5. \A h \in Hosts :
          /\ Queues[<<"fw_r", h>>] \in Seq(Payload) /\ Queues[<<"fw_w", h>>] \in Seq(Payload)
          /\ Queues[<<"bw_r", h>>] \in Seq(Payload) /\ Queues[<<"bw_w", h>>] \in Seq(Payload)
    BY <2>1, <2>3 DEF PlacesRead, LinkTyped
  <2>6. /\ Queues[NoOf("c_r")] \in Seq(Payload) /\ Queues[NoOf("c_w")] \in Seq(Payload)
        /\ Queues[NoOf("c_rack")] \in Seq(Payload) /\ Queues[NoOf("c_wack")] \in Seq(Payload)
    BY <2>1, <2>3 DEF PlacesRead, SwitchTyped
  <2>7. /\ Queues[NoOf("m_r")] \in Seq(Payload) /\ Queues[NoOf("m_w")] \in Seq(Payload)
        /\ Queues[NoOf("mem_request")] \in Seq(Payload)
        /\ Queues[NoOf("m_rack")] \in Seq(Payload) /\ Queues[NoOf("m_wack")] \in Seq(Payload)
    BY <2>1, <2>3 DEF PlacesRead, MemTyped
  <2> QED BY <2>a, <2>4, <2>5, <2>6, <2>7, EveryPlace
<1>2. IsFamily(Queues)
  BY QueuesFamily
<1> QED BY <1>1, <1>2 DEF IsFamily, Family

(* Open payloads are those in the queues and those in the DRAM. *)
LEMMA OpenIs == TypeInv => Open = Content(Queues) \cup dram
<1> SUFFICES ASSUME TypeInv PROVE Open = Content(Queues) \cup dram
  OBVIOUS
<1>1. PlacesRead
  BY AtPlaces
<1>2. \A h \in Hosts : /\ Items(Sim!Slot(rack_incoming[h])) = OnSlot(rack_incoming[h])
                       /\ Items(Sim!Slot(wack_incoming[h])) = OnSlot(wack_incoming[h])
  BY SlotFacts DEF TypeInv, QueuesTyped
<1>3. \A h \in Hosts :
        /\ Items(Queues[<<"r_queue", h>>]) = Items(r_queue[h])
        /\ Items(Queues[<<"w_queue", h>>]) = Items(w_queue[h])
        /\ Items(Queues[<<"fw_r", h>>]) = Items(fw_r[h])
        /\ Items(Queues[<<"fw_w", h>>]) = Items(fw_w[h])
        /\ Items(Queues[<<"bw_r", h>>]) = Items(bw_r[h])
        /\ Items(Queues[<<"bw_w", h>>]) = Items(bw_w[h])
        /\ Items(Queues[<<"rack_incoming", h>>]) = OnSlot(rack_incoming[h])
        /\ Items(Queues[<<"wack_incoming", h>>]) = OnSlot(wack_incoming[h])
        /\ Items(Queues[<<"rack_queue", h>>]) = Items(rack_queue[h])
        /\ Items(Queues[<<"wack_queue", h>>]) = Items(wack_queue[h])
  BY <1>1, <1>2 DEF PlacesRead
<1>4. /\ Items(Queues[NoOf("c_r")]) = Items(c_r) /\ Items(Queues[NoOf("c_w")]) = Items(c_w)
      /\ Items(Queues[NoOf("m_r")]) = Items(m_r) /\ Items(Queues[NoOf("m_w")]) = Items(m_w)
      /\ Items(Queues[NoOf("mem_request")]) = Items(mem_request)
      /\ Items(Queues[NoOf("m_rack")]) = Items(m_rack)
      /\ Items(Queues[NoOf("m_wack")]) = Items(m_wack)
      /\ Items(Queues[NoOf("c_rack")]) = Items(c_rack)
      /\ Items(Queues[NoOf("c_wack")]) = Items(c_wack)
  BY <1>1 DEF PlacesRead
<1>5. \A h, x : x \in Up(h) \cup Cut(h) <=>
        \/ x \in Items(r_queue[h]) \/ x \in Items(w_queue[h])
        \/ x \in Items(fw_r[h]) \/ x \in Items(fw_w[h])
        \/ x \in Items(bw_r[h]) \/ x \in Items(bw_w[h])
        \/ x \in OnSlot(rack_incoming[h]) \/ x \in OnSlot(wack_incoming[h])
        \/ x \in Items(rack_queue[h]) \/ x \in Items(wack_queue[h])
  BY DEF Up, Cut
<1>6. \A x : x \in Down <=>
        \/ x \in Items(c_r) \/ x \in Items(c_w) \/ x \in Items(c_rack) \/ x \in Items(c_wack)
        \/ x \in Items(m_r) \/ x \in Items(m_w) \/ x \in Items(mem_request) \/ x \in dram
        \/ x \in Items(m_rack) \/ x \in Items(m_wack)
  BY DEF Down
<1>a. InFlight = (UNION {Up(h) : h \in Hosts}) \cup Down
  BY DEF InFlight, Up, Down
<1>d. Open = InFlight \cup (UNION {Cut(h) : h \in Hosts})
  BY DEF Open, Cut
<1>b. \A x : x \in Open <=> x \in Down \/ \E h \in Hosts : x \in Up(h) \cup Cut(h)
  BY <1>a, <1>d
<1>c. DOMAIN Queues = Places
  BY <1>1 DEF PlacesRead
<1>7. ASSUME NEW x \in Content(Queues) PROVE x \in Open
  <2>1. PICK l \in Places : x \in Items(Queues[l])
    BY <1>c DEF Content
  <2>2. ASSUME NEW h \in Hosts,
               \/ l = <<"r_queue", h>> \/ l = <<"w_queue", h>>
               \/ l = <<"fw_r", h>> \/ l = <<"fw_w", h>>
               \/ l = <<"bw_r", h>> \/ l = <<"bw_w", h>>
               \/ l = <<"rack_incoming", h>> \/ l = <<"wack_incoming", h>>
               \/ l = <<"rack_queue", h>> \/ l = <<"wack_queue", h>>
        PROVE  x \in Up(h) \cup Cut(h)
    <3> DEFINE in == Items(Queues[l])
    <3>1. \/ in = Items(r_queue[h]) \/ in = Items(w_queue[h])
          \/ in = Items(fw_r[h]) \/ in = Items(fw_w[h])
          \/ in = Items(bw_r[h]) \/ in = Items(bw_w[h])
          \/ in = OnSlot(rack_incoming[h]) \/ in = OnSlot(wack_incoming[h])
          \/ in = Items(rack_queue[h]) \/ in = Items(wack_queue[h])
      BY <1>3, <2>2
    <3> HIDE DEF in
    <3>2. x \in in
      BY <2>1 DEF in
    <3> QED BY <1>5, <3>1, <3>2
  <2>3. \/ l = NoOf("c_r") \/ l = NoOf("c_w") \/ l = NoOf("m_r")
        \/ l = NoOf("m_w") \/ l = NoOf("mem_request") \/ l = NoOf("m_rack")
        \/ l = NoOf("m_wack") \/ l = NoOf("c_rack") \/ l = NoOf("c_wack")
        => x \in Down
    BY <1>4, <1>6, <2>1
  <2> QED BY <1>b, <2>2, <2>3, EveryPlace
<1>8. ASSUME NEW h \in Hosts, NEW n \in HostPlaces, NEW x \in Items(Queues[<<n, h>>])
      PROVE  x \in Content(Queues)
  BY <1>c, <1>8 DEF Content, Places
<1>9. ASSUME NEW n \in SharedPlaces, NEW x \in Items(Queues[NoOf(n)])
      PROVE  x \in Content(Queues)
  BY <1>c, <1>9 DEF Content, Places, NoOf
<1>10. ASSUME NEW h \in Hosts, NEW x \in Up(h) \cup Cut(h) PROVE x \in Content(Queues)
  <2>1. \A n \in HostPlaces : Items(Queues[<<n, h>>]) \subseteq Content(Queues)
    BY <1>8
  <2>2. /\ Items(r_queue[h]) \subseteq Content(Queues) /\ Items(w_queue[h]) \subseteq Content(Queues)
        /\ Items(fw_r[h]) \subseteq Content(Queues) /\ Items(fw_w[h]) \subseteq Content(Queues)
        /\ Items(bw_r[h]) \subseteq Content(Queues) /\ Items(bw_w[h]) \subseteq Content(Queues)
        /\ OnSlot(rack_incoming[h]) \subseteq Content(Queues)
        /\ OnSlot(wack_incoming[h]) \subseteq Content(Queues)
        /\ Items(rack_queue[h]) \subseteq Content(Queues)
        /\ Items(wack_queue[h]) \subseteq Content(Queues)
    BY <1>3, <2>1 DEF HostPlaces
  <2> QED BY <1>5, <1>10, <2>2
<1>11. ASSUME NEW x \in Down PROVE x \in Content(Queues) \cup dram
  BY <1>4, <1>6, <1>9, <1>11 DEF SharedPlaces
<1>12. dram \subseteq Open
  BY <1>6, <1>b
<1> QED BY <1>7, <1>10, <1>11, <1>12, <1>b

(* OpenIs after a step. *)
LEMMA OpenIsNext == (TypeInv => Open = Content(Queues) \cup dram)'
BY OpenIs, PTL

(* They are all known to the program they come from. *)
LEMMA OpenKnown ==
  ASSUME NEW prog \in Programs, TypeInv, FlowInv(prog), NEW p \in Open
  PROVE  p \in Payload /\ Known(prog, p)
<1>1. CASE p \in dram
  BY <1>1 DEF FlowInv, Fits
<1>2. CASE p \in Content(Queues)
  <2>1. PICK l \in Places : p \in Items(Queues[l])
    BY <1>2, AtPlaces DEF Content, PlacesRead
  <2>2. Queues[l] \in Seq(Fits(prog, l))
    BY DEF FlowInv
  <2>3. p \in Fits(prog, l)
    BY <2>1, <2>2, SeqFacts
  <2> QED BY <2>3 DEF Fits
<1> QED BY <1>1, <1>2, OpenIs

(* Sequences without repetitions have as many items as elements. *)
LEMMA OnceCount ==
  ASSUME NEW S, NEW s \in Seq(S), OnceIn(s)
  PROVE  IsFiniteSet(Items(s)) /\ Cardinality(Items(s)) = Len(s)
<1>1. Len(s) \in Nat /\ DOMAIN s = 1 .. Len(s)
  BY SeqFacts
<1>2. IsFiniteSet(1 .. Len(s)) /\ Cardinality(1 .. Len(s)) = Len(s)
  BY <1>1, FS_Interval
<1> DEFINE n == Len(s)
           f == [i \in 1 .. n |-> s[i]]
<1>a. f \in [1 .. n -> Items(s)] /\ \A i \in 1 .. n : f[i] = s[i]
  BY <1>1 DEF Items
<1>b. \A i, j \in 1 .. n : f[i] = f[j] => i = j
  BY <1>1 DEF OnceIn
<1>c. \A x \in Items(s) : \E i \in 1 .. n : f[i] = x
  BY <1>1 DEF Items
<1> HIDE DEF f
<1>d. f \in Injection(1 .. n, Items(s))
  BY <1>a, <1>b DEF Injection, IsInjective
<1>e. f \in Surjection(1 .. n, Items(s))
  BY <1>a, <1>c DEF Surjection
<1>3. f \in Bijection(1 .. n, Items(s))
  BY <1>d, <1>e DEF Bijection
<1>4. ExistsBijection(1 .. n, Items(s))
  BY <1>3 DEF ExistsBijection
<1> QED BY <1>2, <1>4, FS_Bijection

(* What a packet is cut into: as many payloads as it has parts, all *)
(* different.                                                       *)
LEMMA CutsDiffer ==
  ASSUME NEW h \in Hosts, NEW q \in Packet
  PROVE  /\ q.type = "R" => OnceIn(ReadPayloads(h, q)) /\ Len(ReadPayloads(h, q)) = PayloadNum
         /\ q.type = "W" => OnceIn(WritePayloads(h, q)) /\ Len(WritePayloads(h, q)) = PayloadNum
<1>1. PayloadNum \in Nat /\ PktAddrs \subseteq Nat
  BY TlmAssumption
<1>2. q.type # "T" => q.addr \in Nat
  BY <1>1 DEF Packet
<1>3. \A a \in Nat, i, j \in 1 .. PayloadNum : a + i - 1 = a + j - 1 => i = j
  BY <1>1
<1>4. ASSUME q.type = "R"
      PROVE  OnceIn(ReadPayloads(h, q)) /\ Len(ReadPayloads(h, q)) = PayloadNum
  <2>1. \A i \in 1 .. PayloadNum : ReadPayloads(h, q)[i].addr = q.addr + i - 1
    BY DEF ReadPayloads
  <2>2. DOMAIN ReadPayloads(h, q) = 1 .. PayloadNum
    BY DEF ReadPayloads
  <2>3. OnceIn(ReadPayloads(h, q))
    BY <1>2, <1>3, <1>4, <2>1, <2>2 DEF OnceIn
  <2>4. ReadPayloads(h, q) \in Seq(Payload)
    BY <1>4, CutTyped
  <2> QED BY <1>1, <2>2, <2>3, <2>4, LenProperties
<1>5. ASSUME q.type = "W"
      PROVE  OnceIn(WritePayloads(h, q)) /\ Len(WritePayloads(h, q)) = PayloadNum
  <2>1. \A i \in 1 .. PayloadNum : WritePayloads(h, q)[i].addr = q.addr + i - 1
    BY DEF WritePayloads
  <2>2. DOMAIN WritePayloads(h, q) = 1 .. PayloadNum
    BY DEF WritePayloads
  <2>3. OnceIn(WritePayloads(h, q))
    BY <1>2, <1>3, <1>5, <2>1, <2>2 DEF OnceIn
  <2>4. WritePayloads(h, q) \in Seq(Payload)
    BY <1>5, CutTyped
  <2> QED BY <1>1, <2>2, <2>3, <2>4, LenProperties
<1> QED BY <1>4, <1>5

(* Two moves between different places. *)
LEMMA ShiftsFacts ==
  ASSUME NEW P, NEW S, NEW F \in Family(P, S), Once(F),
         NEW l \in P, NEW k \in P, l # k, NEW m \in P, NEW n \in P, m # n
  PROVE  /\ Shift(Shift(F, l, k), m, n) \in Family(P, S)
         /\ Once(Shift(Shift(F, l, k), m, n))
         /\ Content(Shift(Shift(F, l, k), m, n)) = Content(F)
<1> DEFINE G == Shift(F, l, k)
<1>1. G \in Family(P, S) /\ Once(G) /\ Content(G) = Content(F)
  BY ShiftFacts
<1> HIDE DEF G
<1>2. /\ Shift(G, m, n) \in Family(P, S) /\ Once(Shift(G, m, n))
      /\ Content(Shift(G, m, n)) = Content(G)
  BY <1>1, ShiftFacts
<1> QED BY <1>1, <1>2 DEF G

(* What the wrapper cuts was not open before. *)
LEMMA CutIsNew ==
  ASSUME PacketsOnce, NEW prog \in Programs, NEW h \in Hosts, TypeInv, TypeInv',
         [Next]_vars, FlowInv(prog), NEW p \in Payload, p.id = h,
         pc[h] \in HoldsPacket, Covers(pkt[h], p)
  PROVE  p \notin Open
<1> SUFFICES ASSUME p \in Open PROVE FALSE
  OBVIOUS
<1> DEFINE t == Taken(prog[h], ToCome(h))
<1>1. Known(prog, p)
  BY OpenKnown
<1>2. EndInv(prog)
  BY DEF FlowInv
<1>3. /\ t \in Nat /\ t + 1 \in 1 .. Len(prog[h]) /\ prog[h][t + 1] = pkt[h]
  BY <1>2, EndStep
<1>4. PICK i \in 1 .. t : Covers(prog[h][i], p)
  BY <1>1 DEF Known
<1>5. prog[h] \in Seq(Packet) /\ DOMAIN prog[h] = 1 .. Len(prog[h])
  BY HostAssumption, SeqFacts
<1>6. i \in DOMAIN prog[h] /\ t + 1 \in DOMAIN prog[h] /\ i # t + 1
  BY <1>3, <1>5
<1>7. p.cmd # "T"
  BY DEF Payload
<1>8. Overlap(prog[h][i], prog[h][t + 1])
  BY <1>3, <1>4, <1>7 DEF Covers, Overlap
<1> QED BY <1>6, <1>8 DEF PacketsOnce

(* The controller knows the port of an ack it holds. *)
LEMMA AcksKnowPort ==
  ASSUME NEW prog \in Programs, FlowInv(prog)
  PROVE  /\ c_rack # <<>> => r_trans_id[Head(c_rack).addr] \in Hosts
         /\ c_wack # <<>> => w_trans_id[Head(c_wack).addr] \in Hosts
<1>1. /\ NoOf("c_rack") \in Places /\ NoOf("c_wack") \in Places
      /\ Queues[NoOf("c_rack")] = c_rack /\ Queues[NoOf("c_wack")] = c_wack
  BY AtPlaces DEF PlacesRead, Places, SharedPlaces, NoOf
<1>2. ASSUME c_rack # <<>> PROVE r_trans_id[Head(c_rack).addr] \in Hosts
  <2>1. Head(c_rack) \in Fits(prog, NoOf("c_rack"))
    BY <1>1, <1>2, HeadsFit
  <2> QED BY <2>1 DEF Fits, ReadPlaces, AbovePlaces, Port, Payload, NoOf
<1>3. ASSUME c_wack # <<>> PROVE w_trans_id[Head(c_wack).addr] \in Hosts
  <2>1. Head(c_wack) \in Fits(prog, NoOf("c_wack"))
    BY <1>1, <1>3, HeadsFit
  <2> QED BY <2>1 DEF Fits, WritePlaces, AbovePlaces, Port, Payload, NoOf
<1> QED BY <1>2, <1>3

(* A step that only moves payloads keeps the open ones. *)
LEMMA SameContent ==
  ASSUME TypeInv, TypeInv', OnceInv, NEW G, Queues' = G, dram' = dram,
         Once(G), Content(G) = Content(Queues)
  PROVE  OpenKept
<1>1. Open = Content(Queues) \cup dram
  BY OpenIs
<1>2. Open' = Content(Queues)' \cup dram'
  BY OpenIsNext
<1>3. Content(Queues)' = Content(G)
  OBVIOUS
<1> QED BY <1>1, <1>2, <1>3 DEF OpenKept, OnceInv

(* A packet cut into payloads opens exactly those payloads, which were not open.
   *)
LEMMA CutOpens ==
  ASSUME PacketsOnce, NEW prog \in Programs, NEW h \in Hosts, TypeInv, TypeInv',
         [Next]_vars, FlowInv(prog), OnceInv
  PROVE  /\ ReadCut(h) => OpenAdds(ReadPayloads(h, pkt[h]))
         /\ WriteCut(h) => OpenAdds(WritePayloads(h, pkt[h]))
<1>1. Open = Content(Queues) \cup dram /\ Queues \in Family(Places, Payload)
  BY OpenIs, QueuesTogether
<1>2. Open' = Content(Queues)' \cup dram'
  BY OpenIsNext
<1>3. /\ ReadCut(h) => pc[h] = "read" /\ pkt[h] \in Packet /\ pkt[h].type = "R"
      /\ WriteCut(h) => pc[h] = "write" /\ pkt[h] \in Packet /\ pkt[h].type = "W"
  BY HandleReadDoes, HandleWriteDoes DEF ReadCut, WriteCut, TypeInv, ControlTyped
<1>4. EndInv(prog)
  BY DEF FlowInv
<1>5. /\ <<"r_queue", h>> \in Places /\ <<"w_queue", h>> \in Places
  BY DEF Places, HostPlaces
<1>6. ASSUME NEW ps \in Seq(Payload), NEW l \in Places, OnceIn(ps), Items(ps) \cap Open = {},
             Queues' = Extended(Queues, l, ps), dram' = dram
      PROVE  OpenAdds(ps)
  <2>1. AllNew(ps, Queues)
    BY <1>1, <1>6 DEF AllNew
  <2>2. /\ Once(Extended(Queues, l, ps))
        /\ Content(Extended(Queues, l, ps)) = Content(Queues) \cup Items(ps)
    BY <1>1, <1>6, <2>1, ExtendedFacts DEF OnceInv
  <2>3. Content(Queues)' = Content(Queues) \cup Items(ps)
    BY <1>6, <2>2
  <2> QED BY <1>1, <1>2, <1>6, <2>2, <2>3 DEF OpenAdds, OnceInv
<1>7. ASSUME ReadCut(h) PROVE OpenAdds(ReadPayloads(h, pkt[h]))
  <2>1. \A p \in Items(ReadPayloads(h, pkt[h])) : p \notin Open
    BY <1>3, <1>4, <1>7, CutKnown, CutIsNew DEF HoldsPacket
  <2>2. ReadPayloads(h, pkt[h]) \in Seq(Payload) /\ OnceIn(ReadPayloads(h, pkt[h]))
    BY <1>3, <1>7, CutTyped, CutsDiffer
  <2>3. /\ Queues' = Extended(Queues, <<"r_queue", h>>, ReadPayloads(h, pkt[h]))
        /\ dram' = dram
    BY <1>7, ReadCutQueues DEF ReadCut, memVars
  <2> QED BY <1>5, <1>6, <2>1, <2>2, <2>3
<1>8. ASSUME WriteCut(h) PROVE OpenAdds(WritePayloads(h, pkt[h]))
  <2>1. \A p \in Items(WritePayloads(h, pkt[h])) : p \notin Open
    BY <1>3, <1>4, <1>8, CutKnown, CutIsNew DEF HoldsPacket
  <2>2. WritePayloads(h, pkt[h]) \in Seq(Payload) /\ OnceIn(WritePayloads(h, pkt[h]))
    BY <1>3, <1>8, CutTyped, CutsDiffer
  <2>3. /\ Queues' = Extended(Queues, <<"w_queue", h>>, WritePayloads(h, pkt[h]))
        /\ dram' = dram
    BY <1>8, WriteCutQueues DEF WriteCut, memVars
  <2> QED BY <1>5, <1>6, <2>1, <2>2, <2>3
<1> QED BY <1>7, <1>8

(* The at most one payload at the front of a queue. *)
LEMMA FrontItems ==
  ASSUME NEW S, NEW q \in Seq(S)
  PROVE  /\ Items(Front(q)) = IF q = <<>> THEN {} ELSE {Head(q)}
         /\ IsFiniteSet(Items(Front(q))) /\ Cardinality(Items(Front(q))) = Len(Front(q))
<1>1. /\ Front(q) = IF q = <<>> THEN <<>> ELSE <<Head(q)>>
      /\ Len(Front(q)) = IF q = <<>> THEN 0 ELSE 1
  BY QueueHelpers
<1>2. Items(<<>>) = {} /\ \A x : Items(<<x>>) = {x}
  BY DEF Items
<1>3. \A x : IsFiniteSet({x}) /\ Cardinality({x}) = 1
  BY FS_Singleton
<1>4. IsFiniteSet({}) /\ Cardinality({}) = 0
  BY FS_EmptySet
<1>5. Items(Front(q)) = IF q = <<>> THEN {} ELSE {Head(q)}
  BY <1>1, <1>2
<1>6. CASE q = <<>>
  BY <1>1, <1>4, <1>5, <1>6
<1>7. CASE q # <<>>
  BY <1>1, <1>3, <1>5, <1>7
<1> QED BY <1>5, <1>6, <1>7

(* A falling edge closes exactly the payloads whose acks it consumes. *)
LEMMA NegedgeLoses ==
  ASSUME NEW h \in Hosts, SimNegedge(h), TypeInv, TypeInv', OnceInv
  PROVE  OpenLoses(NegedgeAcks(h))
<1> DEFINE a == <<"r_queue", h>>
           b == <<"fw_r", h>>
           c == <<"w_queue", h>>
           d == <<"fw_w", h>>
           r == <<"rack_queue", h>>
           w == <<"wack_queue", h>>
           G == Shift(Shift(Queues, a, b), c, d)
           H == Dropped(G, r)
           K == Dropped(H, w)
<1>1. Open = Content(Queues) \cup dram /\ Queues \in Family(Places, Payload)
  BY OpenIs, QueuesTogether
<1>2. Open' = Content(Queues)' \cup dram'
  BY OpenIsNext
<1>3. Queues' = K /\ dram' = dram
  BY NegedgeShifts DEF SimNegedge, memVars
<1>4. /\ a \in Places /\ b \in Places /\ c \in Places /\ d \in Places
      /\ r \in Places /\ w \in Places
  BY DEF Places, HostPlaces
<1>5. a # b /\ c # d /\ r \notin {a, b, c, d} /\ w \notin {a, b, c, d, r}
  OBVIOUS
<1>6. Queues[r] = rack_queue[h] /\ Queues[w] = wack_queue[h]
  BY AtPlaces DEF PlacesRead
<1>7. rack_queue[h] \in Seq(Payload) /\ wack_queue[h] \in Seq(Payload)
  BY DEF TypeInv, QueuesTyped
<1>8. IsFamily(Queues)
  BY QueuesFamily
<1> HIDE DEF a, b, c, d, r, w
<1>9. /\ G \in Family(Places, Payload) /\ Once(G) /\ Content(G) = Content(Queues)
  BY <1>1, <1>4, <1>5, ShiftsFacts DEF OnceInv
<1>10. G[r] = Queues[r] /\ G[w] = Queues[w]
  <2> DEFINE E == Shift(Queues, a, b)
  <2>1. IsFamily(E) /\ E[r] = Queues[r] /\ E[w] = Queues[w]
    BY <1>4, <1>5, <1>8, ShiftAt
  <2> HIDE DEF E
  <2>2. Shift(E, c, d)[r] = E[r] /\ Shift(E, c, d)[w] = E[w]
    BY <1>4, <1>5, <2>1, ShiftAt
  <2> QED BY <2>1, <2>2 DEF E
<1> HIDE DEF G
<1>11. H[w] = G[w]
  BY <1>4, <1>5, <1>9 DEF Dropped, Family
<1>12. /\ H \in Family(Places, Payload) /\ Once(H)
       /\ Content(H) = Content(G) \ Items(Front(G[r]))
       /\ Items(Front(G[r])) \subseteq Content(G)
  <2>1. G[r] \in Seq(Payload)
    BY <1>6, <1>7, <1>10
  <2>2. Items(Front(G[r])) = IF G[r] = <<>> THEN {} ELSE {Head(G[r])}
    BY <2>1, FrontItems
  <2>3. /\ H \in Family(Places, Payload) /\ Once(H)
        /\ G[r] = <<>> => H = G
        /\ G[r] # <<>> => /\ Head(G[r]) \in Content(G)
                          /\ Content(H) = Content(G) \ {Head(G[r])}
    BY <1>4, <1>9, DroppedFacts
  <2> QED BY <2>2, <2>3
<1> HIDE DEF H
<1>13. /\ Once(K)
       /\ Content(K) = Content(H) \ Items(Front(H[w]))
       /\ Items(Front(H[w])) \subseteq Content(H)
  <2>1. H[w] \in Seq(Payload)
    BY <1>6, <1>7, <1>10, <1>11
  <2>2. Items(Front(H[w])) = IF H[w] = <<>> THEN {} ELSE {Head(H[w])}
    BY <2>1, FrontItems
  <2>3. /\ Once(K)
        /\ H[w] = <<>> => K = H
        /\ H[w] # <<>> => /\ Head(H[w]) \in Content(H)
                          /\ Content(K) = Content(H) \ {Head(H[w])}
    BY <1>4, <1>12, DroppedFacts
  <2> QED BY <2>2, <2>3
<1> HIDE DEF K
<1>14. /\ Content(Queues)' = Content(K) /\ Once(Queues)' = Once(K)
  BY <1>3
<1>15. /\ Front(G[r]) = Front(rack_queue[h]) /\ Front(H[w]) = Front(wack_queue[h])
  BY <1>6, <1>10, <1>11
<1>16. Content(K) = Content(Queues) \ NegedgeAcks(h) /\ NegedgeAcks(h) \subseteq Content(Queues)
  BY <1>9, <1>12, <1>13, <1>15 DEF NegedgeAcks
<1> QED BY <1>1, <1>2, <1>3, <1>13, <1>14, <1>16 DEF OpenLoses, OnceInv

(* The acks of a completed command: one, of its kind. *)
LEMMA AcksItems ==
  ASSUME NEW done, done = {} \/ \E p \in Payload : done = {p}
  PROVE  /\ Mem!Acks(done, "R") \in Seq(Payload) /\ OnceIn(Mem!Acks(done, "R"))
         /\ Mem!Acks(done, "W") \in Seq(Payload) /\ OnceIn(Mem!Acks(done, "W"))
         /\ Items(Mem!Acks(done, "R")) \cup Items(Mem!Acks(done, "W")) = done
         /\ Items(Mem!Acks(done, "R")) \cap Items(Mem!Acks(done, "W")) = {}
         /\ IsFiniteSet(done)
         /\ Cardinality(done) = Len(Mem!Acks(done, "R")) + Len(Mem!Acks(done, "W"))
<1> DEFINE rs == Mem!Acks(done, "R")
           ws == Mem!Acks(done, "W")
           Goal == /\ rs \in Seq(Payload) /\ OnceIn(rs) /\ ws \in Seq(Payload) /\ OnceIn(ws)
                   /\ Items(rs) \cup Items(ws) = done /\ Items(rs) \cap Items(ws) = {}
                   /\ IsFiniteSet(done) /\ Cardinality(done) = Len(rs) + Len(ws)
<1>1. <<>> \in Seq(Payload) /\ Items(<<>>) = {} /\ OnceIn(<<>>) /\ Len(<<>>) = 0
  BY EmptySeq DEF Items, OnceIn
<1>2. \A p \in Payload : /\ <<p>> \in Seq(Payload) /\ Items(<<p>>) = {p} /\ OnceIn(<<p>>)
                         /\ Len(<<p>>) = 1
  BY DEF Items, OnceIn
<1>3. CASE done = {}
  <2>1. rs = <<>> /\ ws = <<>>
    BY <1>3, AcksAre
  <2>2. IsFiniteSet(done) /\ Cardinality(done) = 0
    BY <1>3, FS_EmptySet
  <2> HIDE DEF rs, ws
  <2>3. Goal
    BY <1>1, <1>3, <2>1, <2>2
  <2> QED BY <2>3 DEF rs, ws
<1>4. ASSUME NEW p \in Payload, done = {p} PROVE Goal
  <2>1. /\ rs = IF p.cmd = "R" THEN <<p>> ELSE <<>>
        /\ ws = IF p.cmd = "W" THEN <<p>> ELSE <<>>
    BY <1>4, AcksAre
  <2>2. p.cmd \in {"R", "W"}
    BY DEF Payload
  <2>3. IsFiniteSet(done) /\ Cardinality(done) = 1
    BY <1>4, FS_Singleton
  <2> HIDE DEF rs, ws
  <2>4. CASE p.cmd = "R"
    BY <1>1, <1>2, <1>4, <2>1, <2>3, <2>4
  <2>5. CASE p.cmd = "W"
    BY <1>1, <1>2, <1>4, <2>1, <2>3, <2>5
  <2> QED BY <2>2, <2>4, <2>5
<1> QED BY <1>3, <1>4

(* The DRAM's turn. *)
LEMMA DramKeeps ==
  ASSUME SimulateDram, TypeInv, TypeInv', OnceInv
  PROVE  OpenKept
<1> DEFINE e == NoOf("mem_request")
           r == NoOf("m_rack")
           w == NoOf("m_wack")
<1>1. Open = Content(Queues) \cup dram /\ Queues \in Family(Places, Payload)
  BY OpenIs, QueuesTogether
<1>2. Open' = Content(Queues)' \cup dram'
  BY OpenIsNext
<1>3. PICK done :
           /\ done = {} \/ \E p \in dram : done = {p}
           /\ dram' = (dram \ done) \cup Items(mem_request)
           /\ Queues' = Extended(Extended(Emptied(Queues, e), r, Mem!Acks(done, "R")),
                                 w, Mem!Acks(done, "W"))
  BY DramExtends
<1>4. e \in Places /\ r \in Places /\ w \in Places
  BY DEF Places, SharedPlaces, NoOf
<1>5. Queues[e] = mem_request
  BY AtPlaces DEF PlacesRead
<1>6. dram \subseteq Payload
  BY DEF TypeInv, MemTyped
<1>7. /\ Mem!Acks(done, "R") \in Seq(Payload) /\ OnceIn(Mem!Acks(done, "R"))
      /\ Mem!Acks(done, "W") \in Seq(Payload) /\ OnceIn(Mem!Acks(done, "W"))
      /\ Items(Mem!Acks(done, "R")) \cup Items(Mem!Acks(done, "W")) = done
      /\ Items(Mem!Acks(done, "R")) \cap Items(Mem!Acks(done, "W")) = {}
  BY <1>3, <1>6, AcksItems
<1> DEFINE rs == Mem!Acks(done, "R")
           ws == Mem!Acks(done, "W")
           F == Emptied(Queues, e)
           G == Extended(F, r, rs)
           H == Extended(G, w, ws)
<1>8. done \subseteq dram /\ done \cap Content(Queues) = {}
  BY <1>3 DEF OnceInv
<1>9. Queues' = H
  BY <1>3
<1> HIDE DEF rs, ws
<1>a. /\ rs \in Seq(Payload) /\ OnceIn(rs) /\ ws \in Seq(Payload) /\ OnceIn(ws)
      /\ Items(rs) \cup Items(ws) = done /\ Items(rs) \cap Items(ws) = {}
  BY <1>7 DEF rs, ws
<1> HIDE DEF e, r, w
<1>10. /\ F \in Family(Places, Payload) /\ Once(F)
       /\ Content(F) = Content(Queues) \ Items(mem_request)
       /\ Items(mem_request) \subseteq Content(Queues)
  BY <1>1, <1>4, <1>5, EmptiedFacts DEF OnceInv
<1> HIDE DEF F
<1>11. AllNew(rs, F)
  BY <1>8, <1>10, <1>a DEF AllNew
<1>12. /\ G \in Family(Places, Payload) /\ Once(G)
       /\ Content(G) = Content(F) \cup Items(rs)
  BY <1>4, <1>10, <1>11, <1>a, ExtendedFacts
<1> HIDE DEF G
<1>13. AllNew(ws, G)
  BY <1>8, <1>10, <1>12, <1>a DEF AllNew
<1>14. Once(H) /\ Content(H) = Content(G) \cup Items(ws)
  BY <1>4, <1>12, <1>13, <1>a, ExtendedFacts
<1> HIDE DEF H
<1>15. Once(Queues)' = Once(H) /\ Content(Queues)' = Content(H)
  BY <1>9
<1>16. Content(H) = (Content(Queues) \ Items(mem_request)) \cup done
  BY <1>10, <1>12, <1>14, <1>a
<1> QED BY <1>1, <1>2, <1>3, <1>8, <1>10, <1>14, <1>15, <1>16 DEF OpenKept, OnceInv

(* All the other steps. *)
LEMMA MovesKeep ==
  ASSUME NEW prog \in Programs, TypeInv, TypeInv', FlowInv(prog), OnceInv,
         \/ UNCHANGED vars
         \/ \E h \in Hosts : Silent(h) \/ SimPosedge(h) \/ LinkForward(h) \/ LinkBackward(h)
         \/ SwitchForward \/ MemPosedge \/ MemNegedge \/ SwitchBackward
  PROVE  OpenKept
<1>1. Queues \in Family(Places, Payload) /\ Once(Queues)
  BY QueuesTogether DEF OnceInv
<1>2. ASSUME NEW l \in Places, NEW k \in Places, l # k, Queues' = Shift(Queues, l, k),
             dram' = dram
      PROVE  OpenKept
  BY <1>1, <1>2, ShiftFacts, SameContent
<1>3. ASSUME NEW l \in Places, NEW k \in Places, l # k, NEW m \in Places, NEW n \in Places,
             m # n, Queues' = Shift(Shift(Queues, l, k), m, n), dram' = dram
      PROVE  OpenKept
  BY <1>1, <1>3, ShiftsFacts, SameContent
<1>4. \A n \in HostPlaces, h \in Hosts : <<n, h>> \in Places
  BY DEF Places
<1>5. \A n \in SharedPlaces : NoOf(n) \in Places
  BY DEF Places, NoOf
<1>6. \A n, m, x, y : n # m => <<n, x>> # <<m, y>> /\ NoOf(n) # NoOf(m) /\ NoOf(n) # <<m, y>>
  BY DEF NoOf
<1>7. ASSUME UNCHANGED payloadVars PROVE OpenKept
  BY <1>1, <1>7, SilentQueues, SameContent
<1>8. ASSUME NEW h \in Hosts, Silent(h) PROVE OpenKept
  BY <1>7, <1>8 DEF Silent
<1>9. ASSUME UNCHANGED vars PROVE OpenKept
  BY <1>7, <1>9 DEF vars, simVars, payloadVars
<1>10. ASSUME NEW h \in Hosts, SimPosedge(h) PROVE OpenKept
  <2>1. dram' = dram
    BY <1>10 DEF SimPosedge, memVars
  <2>2. /\ <<"rack_incoming", h>> \in Places /\ <<"rack_queue", h>> \in Places
        /\ <<"wack_incoming", h>> \in Places /\ <<"wack_queue", h>> \in Places
    BY <1>4 DEF HostPlaces
  <2> QED BY <1>3, <1>6, <1>10, <2>1, <2>2, PosedgeShifts
<1>11. ASSUME NEW h \in Hosts, LinkForward(h) PROVE OpenKept
  <2>1. dram' = dram
    BY <1>11 DEF LinkForward, memVars
  <2>2. /\ <<"fw_r", h>> \in Places /\ <<"fw_w", h>> \in Places
        /\ NoOf("c_r") \in Places /\ NoOf("c_w") \in Places
    BY <1>4, <1>5 DEF HostPlaces, SharedPlaces
  <2>3. <<"fw_r", h>> # NoOf("c_r") /\ <<"fw_w", h>> # NoOf("c_w")
    BY DEF NoOf
  <2> QED BY <1>2, <1>11, <2>1, <2>2, <2>3, ForwardShifts
<1>12. ASSUME NEW h \in Hosts, LinkBackward(h) PROVE OpenKept
  <2>1. dram' = dram
    BY <1>12 DEF LinkBackward, memVars
  <2>2. /\ <<"bw_r", h>> \in Places /\ <<"rack_incoming", h>> \in Places
        /\ <<"bw_w", h>> \in Places /\ <<"wack_incoming", h>> \in Places
    BY <1>4 DEF HostPlaces
  <2>3. /\ paced_r[h] => rack_incoming[h] = NoPayload
        /\ paced_w[h] => wack_incoming[h] = NoPayload
    BY DEF FlowInv
  <2> QED BY <1>2, <1>6, <1>12, <2>1, <2>2, <2>3, BackwardShifts
<1>13. ASSUME SwitchForward PROVE OpenKept
  <2>1. dram' = dram
    BY <1>13, SwitchForwardDoes
  <2>2. /\ NoOf("c_r") \in Places /\ NoOf("m_r") \in Places
        /\ NoOf("c_w") \in Places /\ NoOf("m_w") \in Places
    BY <1>5 DEF SharedPlaces
  <2> QED BY <1>2, <1>6, <1>13, <2>1, <2>2, SwitchForwardShifts
<1>14. ASSUME MemPosedge PROVE OpenKept
  <2>1. dram' = dram
    BY <1>14, MemPosedgeDoes
  <2>2. NoOf("m_r") \in Places /\ NoOf("m_w") \in Places /\ NoOf("mem_request") \in Places
    BY <1>5 DEF SharedPlaces
  <2> QED BY <1>3, <1>6, <1>14, <2>1, <2>2, MemPosedgeShifts
<1>15. ASSUME MemNegedge PROVE OpenKept
  <2>1. dram' = dram
    BY <1>15, MemNegedgeDoes
  <2>2. /\ NoOf("m_rack") \in Places /\ NoOf("c_rack") \in Places
        /\ NoOf("m_wack") \in Places /\ NoOf("c_wack") \in Places
    BY <1>5 DEF SharedPlaces
  <2> QED BY <1>3, <1>6, <1>15, <2>1, <2>2, MemNegedgeShifts
<1>16. ASSUME SwitchBackward PROVE OpenKept
  <2>1. dram' = dram
    BY <1>16 DEF SwitchBackward, memVars
  <2>2. /\ NoOf("c_rack") \in Places /\ NoOf("c_wack") \in Places
        /\ Queues[NoOf("c_rack")] = c_rack /\ Queues[NoOf("c_wack")] = c_wack
    BY <1>5, AtPlaces DEF SharedPlaces, PlacesRead
  <2>3. /\ c_rack # <<>> => r_trans_id[Head(c_rack).addr] \in Hosts
        /\ c_wack # <<>> => w_trans_id[Head(c_wack).addr] \in Hosts
    BY <2>2, AcksKnowPort
  <2>4. /\ \A g \in Hosts : <<"bw_r", g>> \in Places /\ <<"bw_r", g>> # NoOf("c_rack")
        /\ \A g \in Hosts : <<"bw_w", g>> \in Places /\ <<"bw_w", g>> # NoOf("c_wack")
    BY <1>4 DEF HostPlaces, NoOf
  <2>5. ASSUME NEW g \in Hosts, Queues' = Shift(Queues, NoOf("c_rack"), <<"bw_r", g>>)
        PROVE  OpenKept
    BY <1>2, <2>1, <2>2, <2>4, <2>5
  <2>6. ASSUME NEW g \in Hosts, Queues' = Shift(Queues, NoOf("c_wack"), <<"bw_w", g>>)
        PROVE  OpenKept
    BY <1>2, <2>1, <2>2, <2>4, <2>6
  <2> QED BY <1>16, <2>3, <2>5, <2>6, SwitchBackwardShifts
<1> QED BY <1>8, <1>9, <1>10, <1>11, <1>12, <1>13, <1>14, <1>15, <1>16

-----------------------------------------------------------------------------
(* How many there are *)

(* How many payloads of a kind a host has open. *)
LEMMA OpenOfKept ==
  ASSUME OpenKept
  PROVE  \A g, c : OpenOf(g, c)' = OpenOf(g, c)
BY DEF OpenKept, OpenOf

(* The open payloads of a host and a kind can be counted. *)
LEMMA OpenOfFinite ==
  ASSUME OnceInv
  PROVE  \A g, c : IsFiniteSet(OpenOf(g, c)) /\ Cardinality(OpenOf(g, c)) \in Nat
<1> SUFFICES ASSUME NEW g, NEW c
             PROVE  IsFiniteSet(OpenOf(g, c)) /\ Cardinality(OpenOf(g, c)) \in Nat
  OBVIOUS
<1>1. OpenOf(g, c) \in SUBSET Open /\ IsFiniteSet(Open)
  BY DEF OpenOf, OnceInv
<1>2. IsFiniteSet(OpenOf(g, c))
  BY <1>1, FS_Subset
<1> QED BY <1>2, FS_CardinalityType

(* The count of open payloads after a cut. *)
LEMMA OpenOfAdds ==
  ASSUME OnceInv, NEW ps \in Seq(Payload), OnceIn(ps), OpenAdds(ps), NEW h, NEW k,
         \A p \in Items(ps) : p.id = h /\ p.cmd = k
  PROVE  /\ \A g, c : <<g, c>> # <<h, k>> => OpenOf(g, c)' = OpenOf(g, c)
         /\ OpenOf(h, k)' = OpenOf(h, k) \cup Items(ps)
         /\ Cardinality(OpenOf(h, k)') = Cardinality(OpenOf(h, k)) + Len(ps)
         /\ IsFiniteSet(Open')
<1>1. Open' = Open \cup Items(ps) /\ Items(ps) \cap Open = {}
  BY DEF OpenAdds
<1>2. IsFiniteSet(Items(ps)) /\ Cardinality(Items(ps)) = Len(ps) /\ Len(ps) \in Nat
  BY OnceCount, SeqFacts
<1>3. \A g, c : <<g, c>> # <<h, k>> => OpenOf(g, c)' = OpenOf(g, c)
  BY <1>1 DEF OpenOf
<1>4. OpenOf(h, k)' = OpenOf(h, k) \cup Items(ps) /\ OpenOf(h, k) \cap Items(ps) = {}
  BY <1>1 DEF OpenOf
<1>5. IsFiniteSet(OpenOf(h, k)) /\ Cardinality(OpenOf(h, k)) \in Nat
  BY OpenOfFinite
<1>6. Cardinality(OpenOf(h, k) \cap Items(ps)) = 0
  BY <1>4, FS_EmptySet
<1>7. Cardinality(OpenOf(h, k) \cup Items(ps))
        = Cardinality(OpenOf(h, k)) + Cardinality(Items(ps))
            - Cardinality(OpenOf(h, k) \cap Items(ps))
  BY <1>2, <1>5, FS_Union
<1>8. Cardinality(OpenOf(h, k)') = Cardinality(OpenOf(h, k)) + Len(ps)
  BY <1>2, <1>4, <1>5, <1>6, <1>7
<1>9. IsFiniteSet(Open')
  BY <1>1, <1>2, FS_Union DEF OnceInv
<1> QED BY <1>3, <1>4, <1>8, <1>9

(* The heads of the ack queues. *)
LEMMA AckHeads ==
  ASSUME NEW prog \in Programs, TypeInv, FlowInv(prog), NEW h \in Hosts
  PROVE  /\ \A p \in Items(Front(rack_queue[h])) : p.id = h /\ p.cmd = "R" /\ p \in Payload
         /\ \A p \in Items(Front(wack_queue[h])) : p.id = h /\ p.cmd = "W" /\ p \in Payload
<1>1. /\ <<"rack_queue", h>> \in Places /\ <<"wack_queue", h>> \in Places
      /\ Queues[<<"rack_queue", h>>] = rack_queue[h]
      /\ Queues[<<"wack_queue", h>>] = wack_queue[h]
  BY AtPlaces DEF PlacesRead, Places, HostPlaces
<1>2. rack_queue[h] \in Seq(Payload) /\ wack_queue[h] \in Seq(Payload)
  BY DEF TypeInv, QueuesTyped
<1>3. /\ Items(Front(rack_queue[h])) = IF rack_queue[h] = <<>> THEN {} ELSE {Head(rack_queue[h])}
      /\ Items(Front(wack_queue[h])) = IF wack_queue[h] = <<>> THEN {} ELSE {Head(wack_queue[h])}
  BY <1>2, FrontItems
<1>4. h # NoHost
  BY TlmAssumption
<1>5. rack_queue[h] # <<>> => Head(rack_queue[h]) \in Fits(prog, <<"rack_queue", h>>)
  BY <1>1, HeadsFit
<1>6. wack_queue[h] # <<>> => Head(wack_queue[h]) \in Fits(prog, <<"wack_queue", h>>)
  BY <1>1, HeadsFit
<1>7. rack_queue[h] # <<>> => /\ Head(rack_queue[h]).id = h /\ Head(rack_queue[h]).cmd = "R"
                             /\ Head(rack_queue[h]) \in Payload
  BY <1>4, <1>5 DEF Fits, ReadPlaces
<1>8. wack_queue[h] # <<>> => /\ Head(wack_queue[h]).id = h /\ Head(wack_queue[h]).cmd = "W"
                             /\ Head(wack_queue[h]) \in Payload
  BY <1>4, <1>6 DEF Fits, WritePlaces
<1> QED BY <1>3, <1>7, <1>8

(* The count of open payloads after the acks of a falling edge. *)
LEMMA OpenOfLoses ==
  ASSUME NEW prog \in Programs, TypeInv, FlowInv(prog), OnceInv, NEW h \in Hosts,
         OpenLoses(NegedgeAcks(h))
  PROVE  /\ \A g, c : <<g, c>> \notin {<<h, "R">>, <<h, "W">>} => OpenOf(g, c)' = OpenOf(g, c)
         /\ OpenOf(h, "R")' = OpenOf(h, "R") \ Items(Front(rack_queue[h]))
         /\ OpenOf(h, "W")' = OpenOf(h, "W") \ Items(Front(wack_queue[h]))
         /\ Items(Front(rack_queue[h])) \subseteq OpenOf(h, "R")
         /\ Items(Front(wack_queue[h])) \subseteq OpenOf(h, "W")
         /\ Cardinality(OpenOf(h, "R")') = Cardinality(OpenOf(h, "R")) - Len(Front(rack_queue[h]))
         /\ Cardinality(OpenOf(h, "W")') = Cardinality(OpenOf(h, "W")) - Len(Front(wack_queue[h]))
         /\ IsFiniteSet(Open')
<1> DEFINE rs == Items(Front(rack_queue[h]))
           ws == Items(Front(wack_queue[h]))
<1>1. /\ \A p \in rs : p.id = h /\ p.cmd = "R"
      /\ \A p \in ws : p.id = h /\ p.cmd = "W"
  BY AckHeads
<1>2. rs \subseteq Open /\ ws \subseteq Open /\ Open' = Open \ (rs \cup ws)
  BY DEF OpenLoses, NegedgeAcks
<1>3. rack_queue[h] \in Seq(Payload) /\ wack_queue[h] \in Seq(Payload)
  BY DEF TypeInv, QueuesTyped
<1>4. /\ IsFiniteSet(rs) /\ Cardinality(rs) = Len(Front(rack_queue[h]))
      /\ IsFiniteSet(ws) /\ Cardinality(ws) = Len(Front(wack_queue[h]))
  BY <1>3, FrontItems
<1> HIDE DEF rs, ws
<1>5. rs \subseteq OpenOf(h, "R") /\ ws \subseteq OpenOf(h, "W")
  BY <1>1, <1>2 DEF OpenOf
<1>6. OpenOf(h, "R")' = OpenOf(h, "R") \ rs /\ OpenOf(h, "W")' = OpenOf(h, "W") \ ws
  BY <1>1, <1>2 DEF OpenOf
<1>7. \A g, c : <<g, c>> \notin {<<h, "R">>, <<h, "W">>} => OpenOf(g, c)' = OpenOf(g, c)
  BY <1>1, <1>2 DEF OpenOf
<1>8. /\ IsFiniteSet(OpenOf(h, "R")) /\ Cardinality(OpenOf(h, "R")) \in Nat
      /\ IsFiniteSet(OpenOf(h, "W")) /\ Cardinality(OpenOf(h, "W")) \in Nat
  BY OpenOfFinite
<1>9. /\ OpenOf(h, "R") \cap rs = rs /\ OpenOf(h, "W") \cap ws = ws
  BY <1>5
<1>10. Cardinality(OpenOf(h, "R") \ rs)
         = Cardinality(OpenOf(h, "R")) - Cardinality(OpenOf(h, "R") \cap rs)
  BY <1>8, FS_Difference
<1>11. Cardinality(OpenOf(h, "W") \ ws)
         = Cardinality(OpenOf(h, "W")) - Cardinality(OpenOf(h, "W") \cap ws)
  BY <1>8, FS_Difference
<1>12. IsFiniteSet(Open')
  BY <1>2, FS_Difference DEF OnceInv
<1> QED BY <1>4, <1>5, <1>6, <1>7, <1>9, <1>10, <1>11, <1>12 DEF rs, ws

(* Each open payload stays in one place. *)
LEMMA OnceStep ==
  ASSUME PacketsOnce, NEW prog \in Programs, TypeInv, TypeInv', FlowInv(prog), OnceInv,
         [Next]_vars
  PROVE  OnceInv'
<1>1. OpenKept => OnceInv'
  BY DEF OpenKept, OnceInv
<1>2. ASSUME NEW h \in Hosts, ReadCut(h) PROVE OnceInv'
  <2>1. OpenAdds(ReadPayloads(h, pkt[h]))
    BY <1>2, CutOpens
  <2>2. pkt[h] \in Packet /\ pkt[h].type = "R"
    BY <1>2, HandleReadDoes DEF ReadCut, TypeInv, ControlTyped
  <2>3. ReadPayloads(h, pkt[h]) \in Seq(Payload) /\ OnceIn(ReadPayloads(h, pkt[h]))
    BY <2>2, CutTyped, CutsDiffer
  <2>4. EndInv(prog)
    BY DEF FlowInv
  <2>5. \A p \in Items(ReadPayloads(h, pkt[h])) : p.id = h /\ p.cmd = "R"
    BY <1>2, <2>4, CutKnown
  <2>6. IsFiniteSet(Open')
    BY <2>1, <2>3, <2>5, OpenOfAdds
  <2> QED BY <2>1, <2>6 DEF OpenAdds, OnceInv
<1>3. ASSUME NEW h \in Hosts, WriteCut(h) PROVE OnceInv'
  <2>1. OpenAdds(WritePayloads(h, pkt[h]))
    BY <1>3, CutOpens
  <2>2. pkt[h] \in Packet /\ pkt[h].type = "W"
    BY <1>3, HandleWriteDoes DEF WriteCut, TypeInv, ControlTyped
  <2>3. WritePayloads(h, pkt[h]) \in Seq(Payload) /\ OnceIn(WritePayloads(h, pkt[h]))
    BY <2>2, CutTyped, CutsDiffer
  <2>4. EndInv(prog)
    BY DEF FlowInv
  <2>5. \A p \in Items(WritePayloads(h, pkt[h])) : p.id = h /\ p.cmd = "W"
    BY <1>3, <2>4, CutKnown
  <2>6. IsFiniteSet(Open')
    BY <2>1, <2>3, <2>5, OpenOfAdds
  <2> QED BY <2>1, <2>6 DEF OpenAdds, OnceInv
<1>4. ASSUME NEW h \in Hosts, SimNegedge(h) PROVE OnceInv'
  <2>1. OpenLoses(NegedgeAcks(h))
    BY <1>4, NegedgeLoses
  <2>2. IsFiniteSet(Open')
    BY <2>1, OpenOfLoses
  <2> QED BY <2>1, <2>2 DEF OpenLoses, OnceInv
<1>5. SimulateDram => OnceInv'
  BY <1>1, DramKeeps
<1> QED BY <1>1, <1>2, <1>3, <1>4, <1>5, MovesKeep, NextCases

(* The length of a queue after a pop. *)
LEMMA RestLength ==
  ASSUME NEW S, NEW q \in Seq(S)
  PROVE  /\ Len(Rest(q)) = Len(q) - Len(Front(q)) /\ Rest(q) \in Seq(S)
         /\ Len(Front(q)) = IF q = <<>> THEN 0 ELSE 1
         /\ Len(q) \in Nat
<1>1. Len(Front(q)) = IF q = <<>> THEN 0 ELSE 1
  BY QueueHelpers
<1>2. Len(q) \in Nat
  BY SeqFacts
<1>3. CASE q = <<>>
  BY <1>1, <1>2, <1>3 DEF Rest
<1>4. CASE q # <<>>
  BY <1>1, <1>2, <1>4, TailFacts DEF Rest
<1> QED BY <1>1, <1>2, <1>3, <1>4

(* The DRAM thread's count. *)
LEMMA DramCountStep ==
  ASSUME TypeInv, TypeInv', OnceInv, OnceInv', DramCountExact, [Next]_vars
  PROVE  DramCountExact'
<1> DEFINE same == UNCHANGED <<dram, m_rack, m_wack, m_outstanding>>
<1>1. same => DramCountExact'
  BY DEF DramCountExact
<1>2. \A S \in SUBSET Open : IsFiniteSet(S) /\ Cardinality(S) \in Nat
  BY FS_Subset, FS_CardinalityType DEF OnceInv
<1>3. m_rack \in Seq(Payload) /\ m_wack \in Seq(Payload) /\ mem_request \in Seq(Payload)
      /\ dram \subseteq Payload
  BY DEF TypeInv, MemTyped
<1>4. Len(m_rack) \in Nat /\ Len(m_wack) \in Nat /\ Len(mem_request) \in Nat
  BY <1>3, SeqFacts
<1>5. dram \subseteq Open
  BY OpenIs
<1>6. ASSUME SimulateDram PROVE DramCountExact'
  <2>1. PICK done :
           /\ done = {} \/ \E p \in dram : done = {p}
           /\ m_rack' = m_rack \o Mem!Acks(done, "R")
           /\ m_wack' = m_wack \o Mem!Acks(done, "W")
           /\ dram' = (dram \ done) \cup Items(mem_request)
    BY <1>6, SimulateDramDoes
  <2>2. m_outstanding' = m_outstanding + Len(mem_request)
    BY <1>6, SimulateDramDoes
  <2>3. /\ Mem!Acks(done, "R") \in Seq(Payload) /\ Mem!Acks(done, "W") \in Seq(Payload)
        /\ IsFiniteSet(done)
        /\ Cardinality(done) = Len(Mem!Acks(done, "R")) + Len(Mem!Acks(done, "W"))
    BY <1>3, <2>1, AcksItems
  <2>4. /\ Len(m_rack') = Len(m_rack) + Len(Mem!Acks(done, "R"))
        /\ Len(m_wack') = Len(m_wack) + Len(Mem!Acks(done, "W"))
        /\ Len(Mem!Acks(done, "R")) \in Nat /\ Len(Mem!Acks(done, "W")) \in Nat
    BY <1>3, <2>1, <2>3, ConcatFacts, SeqFacts
  <2>5. NoOf("mem_request") \in Places /\ Queues[NoOf("mem_request")] = mem_request
    BY AtPlaces DEF PlacesRead, Places, SharedPlaces, NoOf
  <2>6. OnceIn(mem_request) /\ Items(mem_request) \subseteq Content(Queues)
    <3>1. Queues \in Family(Places, Payload) /\ Once(Queues)
      BY QueuesTogether DEF OnceInv
    <3> QED BY <2>5, <3>1, EmptiedFacts
  <2>7. IsFiniteSet(Items(mem_request)) /\ Cardinality(Items(mem_request)) = Len(mem_request)
    BY <1>3, <2>6, OnceCount
  <2>8. IsFiniteSet(dram) /\ Cardinality(dram) \in Nat
    BY <1>2, <1>5
  <2>9. IsFiniteSet(dram \ done)
        /\ Cardinality(dram \ done) = Cardinality(dram) - Cardinality(dram \cap done)
    BY <2>8, FS_Difference
  <2>10. dram \cap done = done /\ (dram \ done) \cap Items(mem_request) = {}
    BY <2>1, <2>6 DEF OnceInv
  <2>11. Cardinality((dram \ done) \cap Items(mem_request)) = 0
    BY <2>10, FS_EmptySet
  <2>12. Cardinality((dram \ done) \cup Items(mem_request))
           = Cardinality(dram \ done) + Cardinality(Items(mem_request))
               - Cardinality((dram \ done) \cap Items(mem_request))
    BY <2>7, <2>9, FS_Union
  <2> DEFINE a == Cardinality(dram)
             b == Cardinality(done)
             n == Len(mem_request)
             nr == Len(Mem!Acks(done, "R"))
             nw == Len(Mem!Acks(done, "W"))
  <2>a. Cardinality(dram \cap done) = b
    BY <2>10
  <2>b. Cardinality(dram') = Cardinality((dram \ done) \cup Items(mem_request))
    BY <2>1
  <2>c. Cardinality(dram \ done) = a - b
    BY <2>9, <2>a
  <2>d. a \in Nat /\ n \in Nat /\ b = nr + nw /\ nr \in Nat /\ nw \in Nat
    BY <1>4, <2>3, <2>4, <2>8
  <2>e. Cardinality((dram \ done) \cup Items(mem_request)) = (a - b) + n
    BY <2>7, <2>11, <2>12, <2>c, <2>d
  <2>13. Cardinality(dram') = (a - b) + n
    BY <2>b, <2>e
  <2>f. Len(m_rack') = Len(m_rack) + nr /\ Len(m_wack') = Len(m_wack) + nw
    BY <2>4
  <2>g. m_outstanding' = m_outstanding + n
        /\ m_outstanding = a + Len(m_rack) + Len(m_wack)
    BY <2>2 DEF DramCountExact
  <2> HIDE DEF a, b, n, nr, nw
  <2>14. m_outstanding' = Cardinality(dram') + Len(m_rack') + Len(m_wack')
    BY <1>4, <2>13, <2>d, <2>f, <2>g
  <2> QED BY <2>14 DEF DramCountExact
<1>7. ASSUME MemNegedge PROVE DramCountExact'
  <2>1. /\ m_rack' = Rest(m_rack) /\ m_wack' = Rest(m_wack) /\ dram' = dram
        /\ m_outstanding' = m_outstanding - Len(Front(m_rack)) - Len(Front(m_wack))
    BY <1>7, SameOps DEF MemNegedge, Mem!ClockNegedge
  <2>2. /\ Len(Rest(m_rack)) = Len(m_rack) - Len(Front(m_rack))
        /\ Len(Rest(m_wack)) = Len(m_wack) - Len(Front(m_wack))
        /\ Len(Front(m_rack)) \in Nat /\ Len(Front(m_wack)) \in Nat
    BY <1>3, RestLength
  <2>3. Cardinality(dram) \in Nat
    BY <1>2, <1>5
  <2> DEFINE a == Cardinality(dram)
  <2>4. a \in Nat /\ m_outstanding = a + Len(m_rack) + Len(m_wack)
    BY <2>3 DEF DramCountExact
  <2>5. Cardinality(dram') = a
    BY <2>1
  <2> HIDE DEF a
  <2>6. m_outstanding' = Cardinality(dram') + Len(m_rack') + Len(m_wack')
    BY <1>4, <2>1, <2>2, <2>4, <2>5
  <2> QED BY <2>6 DEF DramCountExact
<1>8. \A h \in Hosts : ReadCut(h) \/ WriteCut(h) => same
  BY DEF ReadCut, WriteCut, memVars
<1>9. \A h \in Hosts : Silent(h) => same
  BY DEF Silent, payloadVars, memVars
<1>10. \A h \in Hosts : SimPosedge(h) \/ SimNegedge(h) \/ LinkForward(h) \/ LinkBackward(h) => same
  BY DEF SimPosedge, SimNegedge, LinkForward, LinkBackward, memVars
<1>11. SwitchForward => same
  BY DEF SwitchForward, Mem!TakeRead, Mem!TakeWrite
<1>12. MemPosedge => same
  BY DEF MemPosedge, Mem!ClockPosedge
<1>13. SwitchBackward \/ UNCHANGED vars => same
  BY DEF SwitchBackward, vars, memVars
<1> HIDE DEF same
<1> QED BY <1>1, <1>6, <1>7, <1>8, <1>9, <1>10, <1>11, <1>12, <1>13, NextCases

(* The count of write acks to come is kept where nothing it reads changes. *)
LEMMA WritesKept ==
  ASSUME NEW h \in Hosts, WritesAdd(h), OpenOf(h, "W")' = OpenOf(h, "W"),
         sync_queue'[h] = sync_queue[h], wack_num'[h] = wack_num[h]
  PROVE  WritesAdd(h)'
BY DEF WritesAdd

(* Products that the steps need. *)
LEMMA Products ==
  ASSUME NEW p \in Nat \ {0}, NEW n \in Nat
  PROVE  /\ p * n \in Nat /\ p * (n + 1) = p * n + p
         /\ n # 0 => p * n >= p /\ p * (n - 1) = p * n - p
         /\ p * n > 0 => n # 0
<1>1. p * n \in Nat
  OBVIOUS
<1>2. p * (n + 1) = p * n + p
  OBVIOUS
<1>3. ASSUME n # 0 PROVE p * n >= p /\ p * (n - 1) = p * n - p
  <2>1. p * (n - 1) = p * n - p
    OBVIOUS
  <2>2. n - 1 \in Nat
    BY <1>3
  <2>3. p * (n - 1) \in Nat
    BY <2>2
  <2> QED BY <1>1, <2>1, <2>3
<1>4. p * 0 = 0
  OBVIOUS
<1> QED BY <1>1, <1>2, <1>3, <1>4

(* It is kept when a write packet is cut. *)
LEMMA WritesCutStep ==
  ASSUME PacketsOnce, NEW prog \in Programs, NEW h \in Hosts, TypeInv, TypeInv',
         [Next]_vars, FlowInv(prog), OnceInv, WriteCut(h), WritesInv
  PROVE  WritesInv'
<1> DEFINE ps == WritePayloads(h, pkt[h])
<1>1. OpenAdds(ps)
  BY CutOpens
<1>2. pkt[h] \in Packet /\ pkt[h].type = "W"
  BY HandleWriteDoes DEF WriteCut, TypeInv, ControlTyped
<1>3. ps \in Seq(Payload) /\ OnceIn(ps) /\ Len(ps) = PayloadNum
  BY <1>2, CutTyped, CutsDiffer
<1>4. EndInv(prog)
  BY DEF FlowInv
<1>5. \A p \in Items(ps) : p.id = h /\ p.cmd = "W"
  BY <1>4, CutKnown
<1> HIDE DEF ps
<1>6. /\ \A g, c : <<g, c>> # <<h, "W">> => OpenOf(g, c)' = OpenOf(g, c)
      /\ Cardinality(OpenOf(h, "W")') = Cardinality(OpenOf(h, "W")) + PayloadNum
  BY <1>1, <1>3, <1>5, OpenOfAdds
<1>7. /\ sync_queue' = [sync_queue EXCEPT ![h] = Append(sync_queue[h], pkt[h].addr)]
      /\ wack_num' = wack_num
  BY HandleWriteDoes DEF WriteCut
<1>8. DOMAIN sync_queue = Hosts
  BY DEF TypeInv, BurstsTyped
<1>9. pkt[h].addr \in PktAddrs
  BY <1>2 DEF Packet
<1>10. WritesAdd(h)'
  <2>1. sync_queue[h] \in Seq(PktAddrs) /\ sync_queue'[h] = Append(sync_queue[h], pkt[h].addr)
    BY <1>7, <1>8 DEF WritesInv, WritesAdd
  <2>2. sync_queue'[h] \in Seq(PktAddrs) /\ Len(sync_queue'[h]) = Len(sync_queue[h]) + 1
        /\ Len(sync_queue[h]) \in Nat
    BY <1>9, <2>1, AppendFacts, SeqFacts
  <2>3. PayloadNum * (Len(sync_queue[h]) + 1) = PayloadNum * Len(sync_queue[h]) + PayloadNum
    BY <2>2, TlmAssumption, Products
  <2>4. /\ PayloadNum * Len(sync_queue[h]) = wack_num[h] + Cardinality(OpenOf(h, "W"))
        /\ wack_num[h] \in Nat /\ PayloadNum \in Nat
    BY TlmAssumption DEF WritesInv, WritesAdd, TypeInv, BurstsTyped, Slices
  <2>5. Cardinality(OpenOf(h, "W")) \in Nat
    BY OpenOfFinite
  <2> DEFINE a == Cardinality(OpenOf(h, "W"))
             x == PayloadNum * Len(sync_queue[h])
             y == PayloadNum * (Len(sync_queue[h]) + 1)
  <2>6. y = x + PayloadNum /\ x = wack_num[h] + a /\ a \in Nat
    BY <2>3, <2>4, <2>5
  <2>7. PayloadNum * Len(sync_queue'[h]) = y
    BY <2>2
  <2>8. Cardinality(OpenOf(h, "W")') = a + PayloadNum
    BY <1>6
  <2> HIDE DEF a, x, y
  <2>9. PayloadNum * Len(sync_queue'[h]) = wack_num'[h] + Cardinality(OpenOf(h, "W")')
    BY <1>7, <2>4, <2>6, <2>7, <2>8
  <2> QED BY <2>2, <2>9 DEF WritesAdd
<1>11. ASSUME NEW g \in Hosts, g # h PROVE WritesAdd(g)'
  <2>1. sync_queue'[g] = sync_queue[g] /\ wack_num'[g] = wack_num[g]
    BY <1>7, <1>8, <1>11
  <2>2. OpenOf(g, "W")' = OpenOf(g, "W")
    BY <1>6, <1>11
  <2> QED BY <2>1, <2>2, WritesKept DEF WritesInv
<1> QED BY <1>10, <1>11 DEF WritesInv

(* An ack that completes a packet finds its signal in the queue. *)
LEMMA SignalDue ==
  ASSUME NEW prog \in Programs, NEW h \in Hosts, TypeInv, FlowInv(prog), OnceInv,
         WritesAdd(h), OpenLoses(NegedgeAcks(h)), wack_queue[h] # <<>>
  PROVE  sync_queue[h] # <<>> /\ Cardinality(OpenOf(h, "W")) >= 1
<1>1. Items(Front(wack_queue[h])) \subseteq OpenOf(h, "W")
  BY OpenOfLoses
<1>2. wack_queue[h] \in Seq(Payload)
  BY DEF TypeInv, QueuesTyped
<1>3. Items(Front(wack_queue[h])) = {Head(wack_queue[h])}
  BY <1>2, FrontItems
<1>4. OpenOf(h, "W") # {}
  BY <1>1, <1>3
<1>5. IsFiniteSet(OpenOf(h, "W")) /\ Cardinality(OpenOf(h, "W")) \in Nat
  BY OpenOfFinite
<1>6. Cardinality(OpenOf(h, "W")) # 0
  BY <1>4, <1>5, FS_EmptySet
<1>7. /\ PayloadNum * Len(sync_queue[h]) = wack_num[h] + Cardinality(OpenOf(h, "W"))
      /\ wack_num[h] \in Nat /\ PayloadNum \in Nat \ {0}
  BY TlmAssumption DEF WritesAdd, TypeInv, BurstsTyped, Slices
<1>8. Len(sync_queue[h]) \in Nat /\ (sync_queue[h] = <<>> <=> Len(sync_queue[h]) = 0)
  BY SeqFacts DEF WritesAdd
<1> DEFINE a == Cardinality(OpenOf(h, "W"))
           n == Len(sync_queue[h])
           x == PayloadNum * n
<1>9. n \in Nat /\ a \in Nat /\ a # 0 /\ x = wack_num[h] + a
  BY <1>5, <1>6, <1>7, <1>8
<1>a. x > 0 => n # 0
  BY <1>7, <1>9, Products
<1> HIDE DEF a, x
<1>10. n # 0 /\ a >= 1
  BY <1>7, <1>9, <1>a
<1> QED BY <1>8, <1>10 DEF a

(* It is kept when a falling edge counts a write ack. *)
LEMMA WritesNegedgeStep ==
  ASSUME NEW prog \in Programs, NEW h \in Hosts, TypeInv, TypeInv',
         FlowInv(prog), OnceInv, SimNegedge(h), WritesInv
  PROVE  WritesInv'
<1> DEFINE n == Len(sync_queue[h])
           a == Cardinality(OpenOf(h, "W"))
           f == Len(Front(wack_queue[h]))
<1>1. OpenLoses(NegedgeAcks(h))
  BY NegedgeLoses
<1>2. /\ \A g, c : <<g, c>> \notin {<<h, "R">>, <<h, "W">>} => OpenOf(g, c)' = OpenOf(g, c)
      /\ Cardinality(OpenOf(h, "W")') = a - f
  BY <1>1, OpenOfLoses
<1>3. /\ wack_num' = [wack_num EXCEPT ![h] =
                        IF Sim!WriteComplete(h) THEN 0 ELSE wack_num[h] + f]
      /\ sync_queue' = [sync_queue EXCEPT ![h] =
                          IF Sim!WriteComplete(h) THEN Tail(sync_queue[h])
                            ELSE sync_queue[h]]
  BY NegedgeDoes DEF NegedgeBursts
<1>4. DOMAIN sync_queue = Hosts /\ DOMAIN wack_num = Hosts /\ wack_num[h] \in Nat
      /\ PayloadNum \in Nat \ {0}
  BY TlmAssumption DEF TypeInv, BurstsTyped, Slices
<1>5. ASSUME NEW g \in Hosts, g # h PROVE WritesAdd(g)'
  <2>1. sync_queue'[g] = sync_queue[g] /\ wack_num'[g] = wack_num[g]
    BY <1>3, <1>4, <1>5
  <2>2. OpenOf(g, "W")' = OpenOf(g, "W")
    BY <1>2, <1>5
  <2> QED BY <2>1, <2>2, WritesKept DEF WritesInv
<1>6. /\ sync_queue[h] \in Seq(PktAddrs) /\ n \in Nat
      /\ PayloadNum * n = wack_num[h] + a
  BY SeqFacts DEF WritesInv, WritesAdd
<1>7. a \in Nat
  BY OpenOfFinite
<1>8. CASE Sim!WriteComplete(h)
  <2>1. wack_queue[h] # <<>> /\ wack_num[h] + 1 = PayloadNum
    BY <1>8 DEF Sim!WriteComplete
  <2>2. sync_queue[h] # <<>>
    BY <1>1, <2>1, SignalDue DEF WritesInv
  <2>3. f = 1
    BY <2>1, RestLength DEF TypeInv, QueuesTyped
  <2>4. wack_num'[h] = 0 /\ sync_queue'[h] = Tail(sync_queue[h])
    BY <1>3, <1>4, <1>8
  <2>5. sync_queue'[h] \in Seq(PktAddrs) /\ Len(sync_queue'[h]) = n - 1 /\ n # 0
    BY <1>6, <2>2, <2>4, TailFacts
  <2>6. PayloadNum * (n - 1) = PayloadNum * n - PayloadNum
    BY <1>4, <1>6, <2>5, Products
  <2> DEFINE x == PayloadNum * n
             y == PayloadNum * (n - 1)
  <2>7. y = x - PayloadNum /\ x = wack_num[h] + a
    BY <1>6, <2>6
  <2>8. PayloadNum * Len(sync_queue'[h]) = y
    BY <2>5
  <2> HIDE DEF x, y, a, n, f
  <2>9. PayloadNum * Len(sync_queue'[h]) = wack_num'[h] + Cardinality(OpenOf(h, "W")')
    BY <1>2, <1>4, <1>7, <2>1, <2>3, <2>4, <2>7, <2>8
  <2> QED BY <2>5, <2>9, <1>5 DEF WritesInv, WritesAdd
<1>9. CASE ~Sim!WriteComplete(h)
  <2>1. wack_num'[h] = wack_num[h] + f /\ sync_queue'[h] = sync_queue[h]
    BY <1>3, <1>4, <1>9
  <2>2. f \in Nat
    BY RestLength DEF TypeInv, QueuesTyped
  <2> DEFINE x == PayloadNum * n
  <2>3. x = wack_num[h] + a /\ PayloadNum * Len(sync_queue'[h]) = x
    BY <1>6, <2>1
  <2> HIDE DEF x, a, n, f
  <2>4. PayloadNum * Len(sync_queue'[h]) = wack_num'[h] + Cardinality(OpenOf(h, "W")')
    BY <1>2, <1>4, <1>7, <2>1, <2>2, <2>3
  <2> QED BY <1>6, <2>1, <2>4, <1>5 DEF WritesInv, WritesAdd
<1> QED BY <1>8, <1>9

(* It is kept by every step. *)
LEMMA WritesStep ==
  ASSUME PacketsOnce, NEW prog \in Programs, TypeInv, TypeInv', FlowInv(prog),
         OnceInv, WritesInv, [Next]_vars
  PROVE  WritesInv'
<1> DEFINE same == UNCHANGED <<sync_queue, wack_num>>
<1>1. OpenKept /\ same => WritesInv'
  BY OpenOfKept, WritesKept DEF WritesInv
<1>2. ASSUME NEW h \in Hosts, ReadCut(h) PROVE WritesInv'
  <2>1. OpenAdds(ReadPayloads(h, pkt[h]))
    BY <1>2, CutOpens
  <2>2. pkt[h] \in Packet /\ pkt[h].type = "R"
    BY <1>2, HandleReadDoes DEF ReadCut, TypeInv, ControlTyped
  <2>3. ReadPayloads(h, pkt[h]) \in Seq(Payload) /\ OnceIn(ReadPayloads(h, pkt[h]))
    BY <2>2, CutTyped, CutsDiffer
  <2>4. EndInv(prog)
    BY DEF FlowInv
  <2>5. \A p \in Items(ReadPayloads(h, pkt[h])) : p.id = h /\ p.cmd = "R"
    BY <1>2, <2>4, CutKnown
  <2>6. \A g, c : <<g, c>> # <<h, "R">> => OpenOf(g, c)' = OpenOf(g, c)
    BY <2>1, <2>3, <2>5, OpenOfAdds
  <2>7. \A g \in Hosts : OpenOf(g, "W")' = OpenOf(g, "W")
    BY <2>6
  <2>8. same
    BY <1>2, HandleReadDoes DEF ReadCut
  <2> QED BY <2>7, <2>8, WritesKept DEF WritesInv
<1>3. ASSUME NEW h \in Hosts, WriteCut(h) PROVE WritesInv'
  BY <1>3, WritesCutStep
<1>4. ASSUME NEW h \in Hosts, SimNegedge(h) PROVE WritesInv'
  BY <1>4, WritesNegedgeStep
<1>5. \A h \in Hosts : Silent(h) => same
  BY DEF Silent, burstVars
<1>6. \A h \in Hosts : SimPosedge(h) => same
  BY PosedgeDoes DEF burstVars
<1>7. \A h \in Hosts : LinkBackward(h) => same
  BY BackwardDoes DEF burstVars
<1>8. \A h \in Hosts : LinkForward(h) => same
  BY DEF LinkForward, simVars
<1>9. SwitchForward \/ MemPosedge \/ SimulateDram \/ MemNegedge \/ SwitchBackward => same
  BY DEF SwitchForward, MemPosedge, SimulateDram, MemNegedge, SwitchBackward, simVars
<1>10. UNCHANGED vars => same
  BY DEF vars, simVars
<1> HIDE DEF same
<1>11. SimulateDram => OpenKept
  BY DramKeeps
<1> QED BY <1>1, <1>2, <1>3, <1>4, <1>5, <1>6, <1>7, <1>8, <1>9, <1>10, <1>11,
           MovesKeep, NextCases

(* At the start nothing is open. *)
LEMMA OpenAtStart ==
  Init => /\ Open = {} /\ OnceInv /\ WritesInv /\ DramCountExact
          /\ \A h \in Hosts : sync_queue[h] = <<>> /\ packet_data[h] = <<>>
<1> SUFFICES ASSUME Init
             PROVE  /\ Open = {} /\ OnceInv /\ WritesInv /\ DramCountExact
                    /\ \A h \in Hosts : sync_queue[h] = <<>> /\ packet_data[h] = <<>>
  OBVIOUS
<1>1. TypeInv
  BY TypeInvInit
<1>2. (\A l \in Places : Queues[l] = <<>>) /\ dram = {} /\ DOMAIN Queues = Places
  BY QueuesAtStart, AtPlaces DEF PlacesRead
<1>3. Items(<<>>) = {} /\ DOMAIN <<>> = {}
  BY DEF Items
<1>4. Content(Queues) = {}
  BY <1>2, <1>3 DEF Content
<1>5. Open = {}
  BY <1>1, <1>2, <1>4, OpenIs
<1>6. Once(Queues)
  BY <1>2, <1>3 DEF Once
<1>7. IsFiniteSet({}) /\ Cardinality({}) = 0
  BY FS_EmptySet
<1>8. OnceInv
  BY <1>2, <1>5, <1>6, <1>7 DEF OnceInv
<1>9. \A h \in Hosts : sync_queue[h] = <<>> /\ wack_num[h] = 0 /\ packet_data[h] = <<>>
  BY DEF Init, Sim!Init
<1>10. \A h \in Hosts : OpenOf(h, "W") = {}
  BY <1>5 DEF OpenOf
<1>11. WritesInv
  <2>1. PayloadNum * 0 = 0
    BY TlmAssumption
  <2>2. <<>> \in Seq(PktAddrs) /\ Len(<<>>) = 0
    BY EmptySeq
  <2>3. ASSUME NEW h \in Hosts PROVE WritesAdd(h)
    <3>1. sync_queue[h] = <<>> /\ wack_num[h] = 0 /\ OpenOf(h, "W") = {}
      BY <1>9, <1>10
    <3>2. Len(sync_queue[h]) = 0 /\ Cardinality(OpenOf(h, "W")) = 0
      BY <1>7, <2>2, <3>1
    <3> QED BY <2>1, <2>2, <3>1, <3>2 DEF WritesAdd
  <2> QED BY <2>3 DEF WritesInv
<1>12. DramCountExact
  <2>1. m_outstanding = 0 /\ m_rack = <<>> /\ m_wack = <<>>
    BY DEF Init, Mem!Init
  <2>2. Len(<<>>) = 0
    BY EmptySeq
  <2> QED BY <1>2, <1>7, <2>1, <2>2 DEF DramCountExact
<1> QED BY <1>5, <1>8, <1>9, <1>11, <1>12

(* A step keeps the counting invariants together. *)
LEMMA CountsStep ==
  ASSUME PacketsOnce
  PROVE  CountsHold /\ [Next]_vars => CountsHold'
<1> SUFFICES ASSUME CountsHold, [Next]_vars PROVE CountsHold'
  OBVIOUS
<1>1. TypeInv /\ FlowHolds /\ OnceInv /\ WritesInv /\ DramCountExact
  BY DEF CountsHold, FlowHolds
<1>2. OwnTraffic
  BY OnceIsOwn
<1>3. FlowHolds'
  BY <1>1, <1>2, FlowHoldsStep
<1>4. TypeInv'
  BY <1>3 DEF FlowHolds
<1>5. PICK prog \in Programs : FlowInv(prog)
  BY <1>1 DEF FlowHolds
<1>6. OnceInv'
  BY <1>1, <1>4, <1>5, OnceStep
<1>7. WritesInv'
  BY <1>1, <1>4, <1>5, WritesStep
<1>8. DramCountExact'
  BY <1>1, <1>4, <1>6, DramCountStep
<1> QED BY <1>3, <1>6, <1>7, <1>8 DEF CountsHold

(* The counting invariants hold in every reachable state. *)
LEMMA CountsAlways ==
  ASSUME PacketsOnce
  PROVE  Spec => []CountsHold
<1>1. Init => CountsHold
  BY TypeInvInit, FlowInit, OpenAtStart DEF CountsHold, FlowHolds
<1>2. CountsHold /\ [Next]_vars => CountsHold'
  BY CountsStep
<1> QED BY <1>1, <1>2, PTL DEF Spec

(* The count by which the DRAM thread decides to end (mem_wrapper.cpp,     *)
(* m_outstanding) is exact, if no payload address is read twice or written *)
(* twice: then no two open payloads are alike, and none leaves the DRAM    *)
(* for another.                                                            *)
THEOREM DramCounts ==
  ASSUME PacketsOnce
  PROVE  Spec => []DramCountExact
<1>1. CountsHold => DramCountExact
  BY DEF CountsHold
<1> QED BY <1>1, CountsAlways, PTL

(* Every variable keeps its type: clock_negedge (sim_wrapper.cpp) takes   *)
(* the first element of sync_queue without a test, and finds one whenever *)
(* it does.                                                               *)
THEOREM TypeCorrect ==
  ASSUME PacketsOnce
  PROVE  Spec => []TypeOK
<1>1. CountsHold => TypeOK
  <2> SUFFICES ASSUME CountsHold PROVE TypeOK
    OBVIOUS
  <2>1. TypeInv /\ WritesInv
    BY DEF CountsHold, FlowHolds
  <2>2. \A h \in Hosts : sync_queue[h] \in Seq(PktAddrs)
    BY <2>1 DEF WritesInv, WritesAdd
  <2>4. sync_queue = [h \in Hosts |-> sync_queue[h]]
    BY <2>1 DEF TypeInv, BurstsTyped
  <2>5. sync_queue \in [Hosts -> Seq(PktAddrs)]
    BY <2>2, <2>4
  <2> QED BY <2>1, <2>5, TypeInvIsType
<1> QED BY <1>1, CountsAlways, PTL

-----------------------------------------------------------------------------

(* The parts of a read under way are kept where no payload opens or closes. *)
LEMMA ReadPartsKept ==
  ASSUME NEW h, OpenKept, packet_data' = packet_data
  PROVE  ReadParts(h)' = ReadParts(h)
BY OpenOfKept DEF ReadParts

(* OpenOfFinite, for every host and kind at once. *)
LEMMA OpenOfCount ==
  OnceInv => \A g, c : IsFiniteSet(OpenOf(g, c)) /\ Cardinality(OpenOf(g, c)) \in Nat
BY OpenOfFinite

(* OpenOfCount after a step. *)
LEMMA OpenOfCountNext ==
  (OnceInv => \A g, c : IsFiniteSet(OpenOf(g, c)) /\ Cardinality(OpenOf(g, c)) \in Nat)'
BY OpenOfCount, PTL

(* A read with no parts under way has none open and none gathered. *)
LEMMA ReadPartsTyped ==
  ASSUME TypeInv, OnceInv, NEW h \in Hosts
  PROVE  /\ Cardinality(OpenOf(h, "R")) \in Nat /\ Len(packet_data[h]) \in Nat
         /\ ReadParts(h) = 0 => OpenOf(h, "R") = {} /\ packet_data[h] = <<>>
<1>1. IsFiniteSet(OpenOf(h, "R")) /\ Cardinality(OpenOf(h, "R")) \in Nat
  BY OpenOfFinite
<1>2. packet_data[h] \in Seq(Cells)
  BY DEF TypeInv, BurstsTyped
<1>3. Len(packet_data[h]) \in Nat /\ (packet_data[h] = <<>> <=> Len(packet_data[h]) = 0)
  BY <1>2, SeqFacts
<1>4. Cardinality(OpenOf(h, "R")) = 0 => OpenOf(h, "R") = {}
  BY <1>1, FS_EmptySet
<1> DEFINE a == Cardinality(OpenOf(h, "R"))
           b == Len(packet_data[h])
<1>5. ReadParts(h) = a + b
  BY DEF ReadParts
<1>6. a \in Nat /\ b \in Nat
  BY <1>1, <1>3
<1> HIDE DEF a, b
<1>7. ReadParts(h) = 0 => a = 0 /\ b = 0
  BY <1>5, <1>6
<1> QED BY <1>1, <1>3, <1>4, <1>7 DEF a, b

(* A packet that is cut is all open. *)
LEMMA ReadCutParts ==
  ASSUME PacketsOnce, NEW prog \in Programs, NEW h \in Hosts, TypeInv, TypeInv',
         [Next]_vars, FlowInv(prog), OnceInv, ReadCut(h)
  PROVE  /\ ReadParts(h)' = ReadParts(h) + PayloadNum
         /\ \A g \in Hosts : g # h => ReadParts(g)' = ReadParts(g)
<1> DEFINE ps == ReadPayloads(h, pkt[h])
<1>1. OpenAdds(ps)
  BY CutOpens
<1>2. pkt[h] \in Packet /\ pkt[h].type = "R"
  BY HandleReadDoes DEF ReadCut, TypeInv, ControlTyped
<1>3. ps \in Seq(Payload) /\ OnceIn(ps) /\ Len(ps) = PayloadNum
  BY <1>2, CutTyped, CutsDiffer
<1>4. EndInv(prog)
  BY DEF FlowInv
<1>5. \A p \in Items(ps) : p.id = h /\ p.cmd = "R"
  BY <1>4, CutKnown
<1> HIDE DEF ps
<1>6. /\ \A g, c : <<g, c>> # <<h, "R">> => OpenOf(g, c)' = OpenOf(g, c)
      /\ Cardinality(OpenOf(h, "R")') = Cardinality(OpenOf(h, "R")) + PayloadNum
  BY <1>1, <1>3, <1>5, OpenOfAdds
<1>7. packet_data' = packet_data
  BY HandleReadDoes DEF ReadCut
<1>8. \A g \in Hosts : g # h => OpenOf(g, "R")' = OpenOf(g, "R")
  BY <1>6
<1>9. \A g \in Hosts : g # h => ReadParts(g)' = ReadParts(g)
  BY <1>7, <1>8 DEF ReadParts
<1>10. ReadParts(h)' = Cardinality(OpenOf(h, "R")') + Len(packet_data[h])
  BY <1>7 DEF ReadParts
<1>11. /\ Cardinality(OpenOf(h, "R")) \in Nat /\ Len(packet_data[h]) \in Nat
       /\ PayloadNum \in Nat
  BY ReadPartsTyped, TlmAssumption
<1> DEFINE a == Cardinality(OpenOf(h, "R"))
           b == Len(packet_data[h])
<1>12. ReadParts(h)' = (a + PayloadNum) + b /\ ReadParts(h) = a + b /\ a \in Nat /\ b \in Nat
  BY <1>6, <1>10, <1>11 DEF ReadParts
<1> HIDE DEF a, b
<1> QED BY <1>9, <1>11, <1>12

(* A write packet leaves the parts of every read as they are. *)
LEMMA WriteCutParts ==
  ASSUME PacketsOnce, NEW prog \in Programs, NEW h \in Hosts, TypeInv, TypeInv',
         [Next]_vars, FlowInv(prog), OnceInv, WriteCut(h)
  PROVE  \A g \in Hosts : ReadParts(g)' = ReadParts(g)
<1> DEFINE ps == WritePayloads(h, pkt[h])
<1>1. OpenAdds(ps)
  BY CutOpens
<1>2. pkt[h] \in Packet /\ pkt[h].type = "W"
  BY HandleWriteDoes DEF WriteCut, TypeInv, ControlTyped
<1>3. ps \in Seq(Payload) /\ OnceIn(ps)
  BY <1>2, CutTyped, CutsDiffer
<1>4. EndInv(prog)
  BY DEF FlowInv
<1>5. \A p \in Items(ps) : p.id = h /\ p.cmd = "W"
  BY <1>4, CutKnown
<1> HIDE DEF ps
<1>6. \A g, c : <<g, c>> # <<h, "W">> => OpenOf(g, c)' = OpenOf(g, c)
  BY <1>1, <1>3, <1>5, OpenOfAdds
<1>7. packet_data' = packet_data
  BY HandleWriteDoes DEF WriteCut
<1>8. \A g \in Hosts : OpenOf(g, "R")' = OpenOf(g, "R")
  BY <1>6
<1> QED BY <1>7, <1>8 DEF ReadParts

(* An ack makes a part that is open one that is gathered, and the last one *)
(* takes the packet away.                                                  *)
LEMMA NegedgeParts ==
  ASSUME NEW prog \in Programs, NEW h \in Hosts, TypeInv, TypeInv',
         FlowInv(prog), OnceInv, OnceInv', SimNegedge(h)
  PROVE  /\ \A g \in Hosts : g # h => ReadParts(g)' = ReadParts(g)
         /\ ~Sim!ReadComplete(h) => ReadParts(h)' = ReadParts(h)
         /\ Sim!ReadComplete(h) => /\ ReadParts(h) >= PayloadNum
                                   /\ ReadParts(h)' = ReadParts(h) - PayloadNum
<1> DEFINE f == Len(Front(rack_queue[h]))
           a == Cardinality(OpenOf(h, "R"))
           b == Len(packet_data[h])
           c == Cardinality(OpenOf(h, "R")')
<1>1. OpenLoses(NegedgeAcks(h))
  BY NegedgeLoses
<1>2. /\ \A g, k : <<g, k>> \notin {<<h, "R">>, <<h, "W">>} => OpenOf(g, k)' = OpenOf(g, k)
      /\ c = a - f
  BY <1>1, OpenOfLoses
<1>3. packet_data' = [packet_data EXCEPT ![h] =
                        IF Sim!ReadComplete(h) THEN <<>> ELSE Sim!Gathered(h)]
  BY NegedgeDoes DEF NegedgeBursts
<1>4. packet_data \in [Hosts -> Seq(Cells)] /\ rack_queue[h] \in Seq(Payload)
  BY DEF TypeInv, BurstsTyped, QueuesTyped
<1>5. f = (IF rack_queue[h] = <<>> THEN 0 ELSE 1)
  BY <1>4, RestLength
<1>6. Sim!Gathered(h) \in Seq(Cells) /\ Len(Sim!Gathered(h)) = b + f
  <2>1. CASE rack_queue[h] = <<>>
    <3>1. Sim!Gathered(h) = packet_data[h] /\ f = 0
      BY <1>5, <2>1 DEF Sim!Gathered
    <3>2. packet_data[h] \in Seq(Cells) /\ b \in Nat
      BY <1>4, SeqFacts
    <3> QED BY <3>1, <3>2
  <2>2. CASE rack_queue[h] # <<>>
    <3>1. Head(rack_queue[h]) \in Payload
      BY <1>4, <2>2, TailFacts
    <3>2. mem_data[Head(rack_queue[h]).addr] \in Cells
      BY <3>1 DEF TypeInv, MemTyped, Payload
    <3>3. Sim!Gathered(h) = Append(packet_data[h], mem_data[Head(rack_queue[h]).addr]) /\ f = 1
      BY <1>5, <2>2 DEF Sim!Gathered
    <3> QED BY <1>4, <3>2, <3>3, AppendFacts
  <2> QED BY <2>1, <2>2
<1>7. a \in Nat /\ b \in Nat /\ c \in Nat /\ PayloadNum \in Nat
  <2>1. a \in Nat /\ b \in Nat
    BY ReadPartsTyped
  <2>2. c \in Nat
    BY OpenOfCountNext
  <2> QED BY <2>1, <2>2, TlmAssumption
<1>8. ASSUME NEW g \in Hosts, g # h PROVE ReadParts(g)' = ReadParts(g)
  <2>1. OpenOf(g, "R")' = OpenOf(g, "R")
    BY <1>2, <1>8
  <2>2. packet_data'[g] = packet_data[g]
    BY <1>3, <1>4, <1>8
  <2> QED BY <2>1, <2>2 DEF ReadParts
<1>9. ReadParts(h) = a + b /\ ReadParts(h)' = c + Len(packet_data'[h])
  BY DEF ReadParts
<1>10. packet_data'[h] = IF Sim!ReadComplete(h) THEN <<>> ELSE Sim!Gathered(h)
  BY <1>3, <1>4
<1> HIDE DEF a, b, c, f
<1>11. ASSUME ~Sim!ReadComplete(h) PROVE ReadParts(h)' = ReadParts(h)
  <2>1. Len(packet_data'[h]) = b + f
    BY <1>6, <1>10, <1>11
  <2>2. f \in Nat
    BY <1>5
  <2> QED BY <1>2, <1>7, <1>9, <2>1, <2>2
<1>12. ASSUME Sim!ReadComplete(h)
       PROVE  /\ ReadParts(h) >= PayloadNum
              /\ ReadParts(h)' = ReadParts(h) - PayloadNum
  <2>1. rack_queue[h] # <<>> /\ b + f = PayloadNum
    BY <1>6, <1>12 DEF Sim!ReadComplete
  <2>2. Len(packet_data'[h]) = 0
    BY <1>10, <1>12, EmptySeq
  <2>3. f \in Nat
    BY <1>5
  <2> QED BY <1>2, <1>7, <1>9, <2>1, <2>2, <2>3
<1> QED BY <1>8, <1>11, <1>12

-----------------------------------------------------------------------------
(* Reads: a host waits for one at a time *)

(* A packet buffer without reads, after a pop or a push. *)
LEMMA NoReadsFacts ==
  ASSUME NEW q \in Seq(Packet), NoReads(q)
  PROVE  /\ q # <<>> => Head(q).type # "R" /\ NoReads(Tail(q))
         /\ \A x \in Packet : x.type # "R" => NoReads(Append(q, x))
         /\ \A x \in Packet : x.type = "R" =>
              LastRead(Append(q, x)) /\ Append(q, x)[Len(Append(q, x))] = x
<1>1. Len(q) \in Nat /\ DOMAIN q = 1 .. Len(q)
  BY SeqFacts
<1>2. ASSUME q # <<>> PROVE Head(q).type # "R" /\ NoReads(Tail(q))
  <2>1. /\ Head(q) = q[1] /\ Tail(q) \in Seq(Packet) /\ Len(Tail(q)) = Len(q) - 1
        /\ Len(q) # 0 /\ \A i \in 1 .. Len(q) - 1 : Tail(q)[i] = q[i + 1]
    BY <1>2, TailFacts
  <2>2. DOMAIN Tail(q) = 1 .. Len(q) - 1
    BY <2>1, SeqFacts
  <2> QED BY <1>1, <2>1, <2>2 DEF NoReads
<1>3. ASSUME NEW x \in Packet
      PROVE  /\ DOMAIN Append(q, x) = 1 .. Len(q) + 1 /\ Len(Append(q, x)) = Len(q) + 1
             /\ Append(q, x)[Len(q) + 1] = x /\ Append(q, x) # <<>>
             /\ \A i \in 1 .. Len(q) : Append(q, x)[i] = q[i]
  <2>1. /\ Append(q, x) \in Seq(Packet) /\ Len(Append(q, x)) = Len(q) + 1
        /\ Append(q, x)[Len(q) + 1] = x
        /\ \A i \in 1 .. Len(q) : Append(q, x)[i] = q[i]
    BY AppendFacts
  <2>2. /\ DOMAIN Append(q, x) = 1 .. Len(Append(q, x))
        /\ Append(q, x) = <<>> <=> Len(Append(q, x)) = 0
    BY <2>1, SeqFacts
  <2> QED BY <1>1, <2>1, <2>2
<1>4. ASSUME NEW x \in Packet, x.type # "R" PROVE NoReads(Append(q, x))
  <2> SUFFICES ASSUME NEW i \in 1 .. Len(q) + 1 PROVE Append(q, x)[i].type # "R"
    BY <1>3 DEF NoReads
  <2>1. CASE i = Len(q) + 1
    BY <1>3, <1>4, <2>1
  <2>2. CASE i # Len(q) + 1
    BY <1>1, <1>3, <2>2 DEF NoReads
  <2> QED BY <2>1, <2>2
<1>5. ASSUME NEW x \in Packet, x.type = "R" PROVE LastRead(Append(q, x))
  <2> SUFFICES ASSUME NEW i \in 1 .. Len(q) + 1
               PROVE  Append(q, x)[i].type = "R" <=> i = Len(q) + 1
    BY <1>3 DEF LastRead
  <2>1. CASE i = Len(q) + 1
    BY <1>3, <1>5, <2>1
  <2>2. CASE i # Len(q) + 1
    BY <1>1, <1>3, <2>2 DEF NoReads
  <2> QED BY <2>1, <2>2
<1> QED BY <1>2, <1>3, <1>4, <1>5

(* A packet buffer whose last packet alone is a read, after a pop. *)
LEMMA LastReadFacts ==
  ASSUME NEW q \in Seq(Packet), LastRead(q)
  PROVE  /\ Head(q).type = "R" => Tail(q) = <<>> /\ q[Len(q)] = Head(q)
         /\ Head(q).type # "R" => LastRead(Tail(q)) /\ Tail(q)[Len(Tail(q))] = q[Len(q)]
<1>1. /\ Head(q) = q[1] /\ Tail(q) \in Seq(Packet) /\ Len(Tail(q)) = Len(q) - 1
      /\ Len(q) \in Nat \ {0} /\ \A i \in 1 .. Len(q) - 1 : Tail(q)[i] = q[i + 1]
  BY TailFacts DEF LastRead
<1>2. /\ DOMAIN q = 1 .. Len(q) /\ DOMAIN Tail(q) = 1 .. Len(q) - 1
      /\ Tail(q) = <<>> <=> Len(Tail(q)) = 0
  BY <1>1, SeqFacts
<1>3. \A i \in 1 .. Len(q) : q[i].type = "R" <=> i = Len(q)
  BY <1>2 DEF LastRead
<1> DEFINE n == Len(q)
<1>n. n \in Nat \ {0} /\ Len(Tail(q)) = n - 1
  BY <1>1
<1>m. \A i \in 1 .. n : q[i].type = "R" <=> i = n
  BY <1>3
<1>t. \A i \in 1 .. n - 1 : Tail(q)[i] = q[i + 1]
  BY <1>1
<1>d. /\ DOMAIN Tail(q) = 1 .. n - 1
      /\ Tail(q) = <<>> <=> n - 1 = 0
      /\ Head(q) = q[1]
  BY <1>1, <1>2
<1> HIDE DEF n
<1>4. ASSUME Head(q).type = "R" PROVE Tail(q) = <<>> /\ q[n] = Head(q)
  <2>1. q[1].type = "R" /\ 1 \in 1 .. n
    BY <1>n, <1>d, <1>4
  <2>2. n = 1
    BY <1>m, <2>1
  <2>3. Tail(q) = <<>>
    BY <1>d, <2>2
  <2> QED BY <1>d, <2>2, <2>3
<1>5. ASSUME Head(q).type # "R"
      PROVE  LastRead(Tail(q)) /\ Tail(q)[n - 1] = q[n]
  <2>1. q[1].type # "R" /\ 1 \in 1 .. n
    BY <1>n, <1>d, <1>5
  <2>2. n # 1
    BY <1>m, <2>1
  <2>3. ASSUME NEW i \in 1 .. n - 1 PROVE Tail(q)[i].type = "R" <=> i = n - 1
    <3>1. i + 1 \in 1 .. n /\ (i + 1 = n <=> i = n - 1)
      BY <1>n
    <3>2. q[i + 1].type = "R" <=> i + 1 = n
      BY <1>m, <3>1
    <3>3. Tail(q)[i] = q[i + 1]
      BY <1>t
    <3> QED BY <3>1, <3>2, <3>3
  <2>4. n - 1 \in 1 .. n - 1 /\ (n - 1) + 1 = n
    BY <1>n, <2>2
  <2>5. Tail(q)[n - 1] = q[n]
    BY <1>t, <2>4
  <2>6. Tail(q) # <<>>
    BY <1>n, <1>d, <2>2
  <2>7. LastRead(Tail(q))
    BY <1>n, <1>d, <2>3, <2>6 DEF LastRead
  <2> QED BY <2>5, <2>7
<1> QED BY <1>n, <1>4, <1>5 DEF n

(* A host's read stays in its phase where nothing the phase reads changes. *)
LEMMA PhaseKept ==
  ASSUME NEW h \in Hosts, ReadPhase(h), SameView(h), ReadParts(h)' = ReadParts(h)
  PROVE  ReadPhase(h)'
BY DEF ReadPhase, SameView, ReadInHand, Idle, Asked, Syncing, Fetching, Replied

(* A step of one host leaves what the others see. *)
LEMMA OthersView ==
  ASSUME NEW g \in Hosts, NEW h \in Hosts, g # h, TypeInv,
         \/ Silent(g) \/ ReadCut(g) \/ WriteCut(g) \/ SimNegedge(g)
  PROVE  SameView(h)
<1>1. /\ DOMAIN awaiting = Hosts /\ DOMAIN toSim = Hosts /\ DOMAIN toHost = Hosts
      /\ DOMAIN pc = Hosts /\ DOMAIN pkt = Hosts /\ DOMAIN req_done = Hosts
  BY DEF TypeInv, HostTyped, ControlTyped
<1>2. CASE ReadCut(g)
  <2>1. /\ pc' = [pc EXCEPT ![g] = "poll"] /\ req_done' = [req_done EXCEPT ![g] = FALSE]
        /\ pkt' = pkt /\ UNCHANGED hostVars
    BY <1>2, HandleReadDoes DEF ReadCut
  <2> QED BY <1>1, <2>1 DEF SameView, hostVars
<1>3. CASE WriteCut(g)
  <2>1. /\ pc' = [pc EXCEPT ![g] = "poll"] /\ req_done' = [req_done EXCEPT ![g] = FALSE]
        /\ pkt' = pkt /\ UNCHANGED hostVars
    BY <1>3, HandleWriteDoes DEF WriteCut
  <2> QED BY <1>1, <2>1 DEF SameView, hostVars
<1>4. CASE SimNegedge(g)
  <2>1. NegedgeControl(g)
    BY <1>4, NegedgeDoes
  <2> QED BY <1>1, <2>1 DEF SameView, NegedgeControl
<1>5. CASE Silent(g)
  <2>1. CASE Send(g)
    BY <1>1, <2>1 DEF Send, Host!Send, simVars, SameView
  <2>2. CASE GetResponse(g)
    BY <1>1, <2>2 DEF GetResponse, Host!GetResponse, simVars, SameView
  <2>3. CASE Receive(g)
    BY <1>1, <2>3 DEF Receive, Sim!Receive, Host!GiveRequest, SameView
  <2>4. CASE ThreadAlone(g)
    <3>1. UNCHANGED hostVars
      BY <2>4 DEF ThreadAlone
    <3>2. /\ pkt' = pkt /\ req_done' = req_done
          /\ pc' = pc \/ \E s : pc' = [pc EXCEPT ![g] = s]
      BY <2>4 DEF ThreadAlone, Sim!Spin, Sim!CheckSignal, Sim!FreeSignal,
                  Sim!HandleTerminate, Sim!LeaveCore, Sim!Stop, Sim!Step
    <3> QED BY <1>1, <3>1, <3>2 DEF SameView, hostVars
  <2> QED BY <1>5, <2>1, <2>2, <2>3, <2>4 DEF Silent
<1> QED BY <1>2, <1>3, <1>4, <1>5

(* The host's own steps: it sends when it waits for nothing, and takes the *)
(* one answer.                                                             *)
LEMMA HostPhase ==
  ASSUME NEW h \in Hosts, TypeInv, ReadPhase(h), Send(h) \/ GetResponse(h),
         ReadParts(h)' = ReadParts(h)
  PROVE  ReadPhase(h)'
<1>1. /\ DOMAIN awaiting = Hosts /\ DOMAIN toSim = Hosts /\ DOMAIN toHost = Hosts
      /\ DOMAIN trace = Hosts
      /\ toSim[h] \in Seq(Packet) /\ trace[h] \in Seq(Packet)
      /\ toHost[h] \in Seq(Seq(Cells))
  BY DEF TypeInv, HostTyped
<1>2. CASE Send(h)
  <2>1. /\ trace[h] # <<>> /\ awaiting[h] = {}
        /\ toSim'[h] = Append(toSim[h], Head(trace[h]))
        /\ awaiting'[h] = {p \in {Head(trace[h])} : p.type = "R"}
        /\ toHost' = toHost /\ UNCHANGED <<pc, pkt, req_done>>
    BY <1>1, <1>2 DEF Send, Host!Send, simVars
  <2>2. Idle(h)
    BY <2>1, <1>1 DEF ReadPhase, Asked, Syncing, Fetching, Replied, ReadInHand
  <2>3. Head(trace[h]) \in Packet
    BY <1>1, <2>1, TailFacts
  <2> DEFINE x == Head(trace[h])
             q == toSim'[h]
  <2>4. CASE x.type = "R"
    <3>1. LastRead(q) /\ q[Len(q)] = x
      BY <1>1, <2>1, <2>2, <2>3, <2>4, NoReadsFacts DEF Idle
    <3>2. awaiting'[h] = {x}
      BY <2>1, <2>4
    <3>3. Asked(h)'
      BY <2>1, <2>2, <3>1, <3>2 DEF Idle, Asked
    <3> QED BY <3>3 DEF ReadPhase
  <2>5. CASE x.type # "R"
    <3>1. NoReads(q)
      BY <1>1, <2>1, <2>2, <2>3, <2>5, NoReadsFacts DEF Idle
    <3>2. awaiting'[h] = {}
      BY <2>1, <2>5
    <3>3. Idle(h)'
      BY <2>1, <2>2, <3>1, <3>2 DEF Idle
    <3> QED BY <3>3 DEF ReadPhase
  <2> QED BY <2>4, <2>5
<1>3. CASE GetResponse(h)
  <2>1. /\ toHost[h] # <<>> /\ toHost'[h] = Tail(toHost[h]) /\ awaiting'[h] = {}
        /\ toSim' = toSim /\ UNCHANGED <<pc, pkt, req_done>>
    BY <1>1, <1>3 DEF GetResponse, Host!GetResponse, simVars
  <2>2. Replied(h)
    BY <2>1 DEF ReadPhase, Idle, Asked, Syncing, Fetching
  <2>3. toHost'[h] = <<>>
    <3>1. Len(toHost[h]) = 1
      BY <2>2 DEF Replied
    <3>2. Tail(toHost[h]) \in Seq(Seq(Cells)) /\ Len(Tail(toHost[h])) = Len(toHost[h]) - 1
      BY <1>1, <2>1, TailFacts
    <3>3. Len(Tail(toHost[h])) = 0
      BY <3>1, <3>2
    <3> DEFINE S == Seq(Cells)
               q == Tail(toHost[h])
    <3>4. q \in Seq(S) /\ Len(q) = 0
      BY <3>2, <3>3
    <3> HIDE DEF S, q
    <3>5. q = <<>>
      BY <3>4, SeqFacts
    <3> QED BY <2>1, <3>5 DEF q
  <2>4. NoReads(toSim'[h])
    <3>1. toSim'[h] = <<>>
      BY <2>1, <2>2 DEF Replied, ReadInHand
    <3> QED BY <3>1 DEF NoReads
  <2>5. Idle(h)'
    BY <2>1, <2>2, <2>3, <2>4 DEF Replied, Idle, Reading
  <2> QED BY <2>5 DEF ReadPhase
<1> QED BY <1>2, <1>3

(* The wrapper takes a packet from the ring. *)
LEMMA ReceivePhase ==
  ASSUME NEW h \in Hosts, TypeInv, ReadPhase(h), Receive(h),
         ReadParts(h)' = ReadParts(h)
  PROVE  ReadPhase(h)'
<1>1. /\ DOMAIN toSim = Hosts /\ DOMAIN pc = Hosts /\ DOMAIN pkt = Hosts
      /\ toSim[h] \in Seq(Packet)
  BY DEF TypeInv, HostTyped, ControlTyped
<1>2. /\ toSim[h] # <<>> /\ toSim'[h] = Tail(toSim[h])
      /\ pc[h] \in {"first", "poll"}
      /\ pkt'[h] = Head(toSim[h]) /\ pc'[h] = Sim!Handler(Head(toSim[h]))
      /\ UNCHANGED <<awaiting, toHost, req_done>>
  BY <1>1 DEF Receive, Sim!Receive, Host!GiveRequest
<1>3. /\ Head(toSim[h]).type = "R" => pc'[h] = "sync"
      /\ Head(toSim[h]).type # "R" => pc'[h] \in {"write", "terminate"}
  BY <1>2 DEF Sim!Handler
<1>4. Idle(h) \/ Asked(h)
  BY <1>2 DEF ReadPhase, Syncing, Fetching, Replied, ReadInHand
<1>5. CASE Idle(h)
  <2>1. Head(toSim[h]).type # "R" /\ NoReads(toSim'[h])
    BY <1>1, <1>2, <1>5, NoReadsFacts DEF Idle
  <2>2. Idle(h)'
    BY <1>2, <1>3, <1>5, <2>1 DEF Idle, Reading
  <2> QED BY <2>2 DEF ReadPhase
<1>6. CASE Asked(h)
  <2>1. LastRead(toSim[h]) /\ awaiting[h] = {toSim[h][Len(toSim[h])]}
    BY <1>6 DEF Asked
  <2>2. CASE Head(toSim[h]).type = "R"
    <3>1. toSim'[h] = <<>> /\ awaiting'[h] = {Head(toSim[h])}
      BY <1>1, <1>2, <2>1, <2>2, LastReadFacts
    <3>2. Syncing(h)'
      BY <1>2, <1>3, <1>6, <2>2, <3>1 DEF Asked, Syncing, ReadInHand, Reading
    <3> QED BY <3>2 DEF ReadPhase
  <2>3. CASE Head(toSim[h]).type # "R"
    <3>1. /\ LastRead(toSim'[h])
          /\ awaiting'[h] = {toSim'[h][Len(toSim'[h])]}
      BY <1>1, <1>2, <2>1, <2>3, LastReadFacts
    <3>2. Asked(h)'
      BY <1>2, <1>3, <1>6, <2>3, <3>1 DEF Asked, Reading
    <3> QED BY <3>2 DEF ReadPhase
  <2> QED BY <2>2, <2>3
<1> QED BY <1>4, <1>5, <1>6

(* The other steps of its thread. *)
LEMMA ThreadPhase ==
  ASSUME NEW h \in Hosts, TypeInv, ReadPhase(h), ThreadAlone(h),
         ReadParts(h)' = ReadParts(h)
  PROVE  ReadPhase(h)'
<1>1. DOMAIN pc = Hosts
  BY DEF TypeInv, ControlTyped
<1>2. UNCHANGED hostVars /\ UNCHANGED <<pkt, req_done>>
  BY DEF ThreadAlone, Sim!Spin, Sim!CheckSignal, Sim!FreeSignal,
         Sim!HandleTerminate, Sim!LeaveCore, Sim!Stop, Sim!Step
<1>3. ASSUME pc' = pc PROVE ReadPhase(h)'
  BY <1>2, <1>3, PhaseKept DEF SameView, hostVars
<1>4. ASSUME pc[h] \in Reading, pc'[h] \in Reading PROVE ReadPhase(h)'
  <2>1. Syncing(h)
    BY <1>4 DEF ReadPhase, Idle, Asked, Fetching, Replied, Reading
  <2>2. Syncing(h)'
    BY <1>2, <1>4, <2>1 DEF Syncing, ReadInHand, hostVars
  <2> QED BY <2>2 DEF ReadPhase
<1>5. ASSUME pc[h] \notin Reading \cup {"poll"}, pc'[h] \notin Reading \cup {"poll"}
      PROVE  ReadPhase(h)'
  <2>1. Idle(h) \/ Asked(h)
    BY <1>5 DEF ReadPhase, Syncing, Fetching, Replied
  <2>2. Idle(h)' \/ Asked(h)'
    BY <1>2, <1>5, <2>1 DEF Idle, Asked, hostVars
  <2> QED BY <2>2 DEF ReadPhase
<1>6. Sim!Spin(h) \/ Sim!Stop(h) => pc' = pc
  BY DEF Sim!Spin, Sim!Stop
<1>7. Sim!CheckSignal(h) \/ Sim!FreeSignal(h) => pc[h] \in Reading /\ pc'[h] \in Reading
  BY <1>1 DEF Sim!CheckSignal, Sim!FreeSignal, Sim!Step, Reading
<1>8. Sim!HandleTerminate(h) \/ Sim!LeaveCore(h)
        => pc[h] \notin Reading \cup {"poll"} /\ pc'[h] \notin Reading \cup {"poll"}
  BY <1>1 DEF Sim!HandleTerminate, Sim!LeaveCore, Sim!Step, Reading
<1> QED BY <1>3, <1>4, <1>5, <1>6, <1>7, <1>8 DEF ThreadAlone

(* Cutting a packet takes a host's read to a phase again. *)
LEMMA CutPhase ==
  ASSUME NEW h \in Hosts, TypeInv, OnceInv, ReadPhase(h),
         \/ ReadCut(h) /\ ReadParts(h)' = ReadParts(h) + PayloadNum
         \/ WriteCut(h) /\ ReadParts(h)' = ReadParts(h)
  PROVE  ReadPhase(h)'
<1>1. DOMAIN pc = Hosts /\ DOMAIN req_done = Hosts
  BY DEF TypeInv, ControlTyped
<1>2. CASE ReadCut(h) /\ ReadParts(h)' = ReadParts(h) + PayloadNum
  <2>1. /\ pc[h] = "read" /\ pc'[h] = "poll" /\ req_done'[h] = FALSE
        /\ pkt' = pkt /\ UNCHANGED hostVars
    BY <1>1, <1>2, HandleReadDoes DEF ReadCut
  <2>2. Syncing(h)
    BY <2>1 DEF ReadPhase, Idle, Asked, Fetching, Replied, Reading
  <2>3. ReadParts(h)' = PayloadNum
    <3>1. ReadParts(h) = 0
      BY <2>2 DEF Syncing
    <3> QED BY <1>2, <3>1, TlmAssumption
  <2>4. Fetching(h)'
    BY <2>1, <2>2, <2>3 DEF Syncing, Fetching, ReadInHand, hostVars
  <2> QED BY <2>4 DEF ReadPhase
<1>3. CASE WriteCut(h) /\ ReadParts(h)' = ReadParts(h)
  <2>1. /\ pc[h] = "write" /\ pc'[h] = "poll"
        /\ pkt' = pkt /\ UNCHANGED hostVars
    BY <1>1, <1>3, HandleWriteDoes DEF WriteCut
  <2>2. Idle(h) \/ Asked(h)
    BY <2>1 DEF ReadPhase, Syncing, Fetching, Replied, Reading
  <2>3. Idle(h)' \/ Asked(h)'
    BY <1>3, <2>1, <2>2 DEF Idle, Asked, hostVars, Reading
  <2> QED BY <2>3 DEF ReadPhase
<1> QED BY <1>2, <1>3

(* The last part makes the answer. *)
LEMMA NegedgePhase ==
  ASSUME NEW prog \in Programs, NEW h \in Hosts, TypeInv, TypeInv', FlowInv(prog),
         OnceInv, OnceInv', ReadPhase(h), SimNegedge(h)
  PROVE  ReadPhase(h)'
<1>1. DOMAIN req_done = Hosts /\ DOMAIN toHost = Hosts
  BY DEF TypeInv, HostTyped, ControlTyped
<1>2. /\ req_done'[h] = (req_done[h] \/ Sim!ReadComplete(h))
      /\ toHost'[h] = toHost[h] \o Response(h)
      /\ UNCHANGED <<pc, pkt, awaiting, toSim>>
  BY <1>1, NegedgeDoes DEF NegedgeControl
<1>3. CASE ~Sim!ReadComplete(h)
  <2>1. Response(h) = <<>>
    BY <1>3 DEF Response
  <2>2. toHost'[h] = toHost[h]
    <3>1. toHost[h] \in Seq(Seq(Cells))
      BY DEF TypeInv, HostTyped
    <3> QED BY <1>2, <2>1, <3>1, ConcatEmptySeq
  <2>3. ReadParts(h)' = ReadParts(h)
    BY <1>3, NegedgeParts
  <2>4. req_done'[h] = req_done[h]
    BY <1>2, <1>3 DEF TypeInv, ControlTyped
  <2> QED BY <1>2, <2>2, <2>3, <2>4, PhaseKept DEF SameView
<1>4. CASE Sim!ReadComplete(h)
  <2>1. ReadParts(h) >= PayloadNum /\ ReadParts(h)' = ReadParts(h) - PayloadNum
    BY <1>4, NegedgeParts
  <2>2. Fetching(h)
    <3>1. ReadParts(h) # 0
      BY <2>1, TlmAssumption
    <3> QED BY <3>1 DEF ReadPhase, Idle, Asked, Syncing, Replied
  <2>3. ReadParts(h)' = 0
    BY <2>1, <2>2, TlmAssumption DEF Fetching
  <2>4. Len(toHost'[h]) = 1
    <3>1. toHost[h] = <<>> /\ Response(h) = <<Sim!Gathered(h)>>
      BY <1>4, <2>2 DEF Response, Fetching
    <3>2. toHost'[h] = <<Sim!Gathered(h)>>
      BY <1>2, <3>1
    <3> QED BY <3>2
  <2>5. Replied(h)'
    BY <1>2, <1>4, <2>2, <2>3, <2>4 DEF Fetching, Replied, ReadInHand
  <2> QED BY <2>5 DEF ReadPhase
<1> QED BY <1>3, <1>4

(* Every step takes each host's read from phase to phase. *)
LEMMA ReadStep ==
  ASSUME PacketsOnce, NEW prog \in Programs, TypeInv, TypeInv', FlowInv(prog),
         OnceInv, OnceInv', ReadInv, [Next]_vars
  PROVE  ReadInv'
<1>1. ASSUME OpenKept, packet_data' = packet_data
      PROVE  \A h \in Hosts : ReadParts(h)' = ReadParts(h)
  BY <1>1, ReadPartsKept
<1>2. ASSUME UNCHANGED controlVars PROVE \A h \in Hosts : SameView(h)
  BY <1>2 DEF controlVars, hostVars, SameView
<1>3. ASSUME OpenKept, packet_data' = packet_data, UNCHANGED controlVars PROVE ReadInv'
  BY <1>1, <1>2, <1>3, PhaseKept DEF ReadInv
<1>4. ASSUME NEW g \in Hosts, Silent(g) PROVE ReadInv'
  <2>1. OpenKept /\ packet_data' = packet_data
    BY <1>4, MovesKeep DEF Silent, burstVars
  <2>2. \A h \in Hosts : ReadParts(h)' = ReadParts(h)
    BY <1>1, <2>1
  <2>3. ASSUME NEW h \in Hosts, h # g PROVE ReadPhase(h)'
    BY <1>4, <2>2, <2>3, OthersView, PhaseKept DEF ReadInv
  <2>4. ReadPhase(g)'
    BY <1>4, <2>2, HostPhase, ReceivePhase, ThreadPhase DEF Silent, ReadInv
  <2> QED BY <2>3, <2>4 DEF ReadInv
<1>5. ASSUME NEW g \in Hosts, ReadCut(g) PROVE ReadInv'
  <2>1. /\ ReadParts(g)' = ReadParts(g) + PayloadNum
        /\ \A h \in Hosts : h # g => ReadParts(h)' = ReadParts(h)
    BY <1>5, ReadCutParts
  <2>2. ASSUME NEW h \in Hosts, h # g PROVE ReadPhase(h)'
    BY <1>5, <2>1, <2>2, OthersView, PhaseKept DEF ReadInv
  <2>3. ReadPhase(g)'
    BY <1>5, <2>1, CutPhase DEF ReadInv
  <2> QED BY <2>2, <2>3 DEF ReadInv
<1>6. ASSUME NEW g \in Hosts, WriteCut(g) PROVE ReadInv'
  <2>1. \A h \in Hosts : ReadParts(h)' = ReadParts(h)
    BY <1>6, WriteCutParts
  <2>2. ASSUME NEW h \in Hosts, h # g PROVE ReadPhase(h)'
    BY <1>6, <2>1, <2>2, OthersView, PhaseKept DEF ReadInv
  <2>3. ReadPhase(g)'
    BY <1>6, <2>1, CutPhase DEF ReadInv
  <2> QED BY <2>2, <2>3 DEF ReadInv
<1>7. ASSUME NEW g \in Hosts, SimNegedge(g) PROVE ReadInv'
  <2>1. \A h \in Hosts : h # g => ReadParts(h)' = ReadParts(h)
    BY <1>7, NegedgeParts
  <2>2. ASSUME NEW h \in Hosts, h # g PROVE ReadPhase(h)'
    BY <1>7, <2>1, <2>2, OthersView, PhaseKept DEF ReadInv
  <2>3. ReadPhase(g)'
    BY <1>7, NegedgePhase DEF ReadInv
  <2> QED BY <2>2, <2>3 DEF ReadInv
<1>8. ASSUME NEW g \in Hosts, SimPosedge(g) \/ LinkForward(g) \/ LinkBackward(g)
      PROVE  ReadInv'
  <2>1. OpenKept
    BY <1>8, MovesKeep
  <2>2. SimPosedge(g) => packet_data' = packet_data /\ UNCHANGED controlVars
    BY PosedgeDoes DEF burstVars
  <2>3. LinkBackward(g) => packet_data' = packet_data /\ UNCHANGED controlVars
    BY BackwardDoes DEF burstVars
  <2>4. LinkForward(g) => packet_data' = packet_data /\ UNCHANGED controlVars
    BY DEF LinkForward, controlVars, simVars
  <2> QED BY <1>3, <1>8, <2>1, <2>2, <2>3, <2>4
<1>9. ASSUME \/ UNCHANGED vars \/ SwitchForward \/ MemPosedge \/ SimulateDram
             \/ MemNegedge \/ SwitchBackward
      PROVE  ReadInv'
  <2>1. OpenKept
    BY <1>9, MovesKeep, DramKeeps
  <2>2. UNCHANGED <<simVars, hostVars>>
    BY <1>9 DEF vars, SwitchForward, MemPosedge, SimulateDram, MemNegedge, SwitchBackward
  <2>3. packet_data' = packet_data /\ UNCHANGED controlVars
    BY <2>2 DEF simVars, controlVars
  <2> QED BY <1>3, <2>1, <2>3
<1> QED BY <1>4, <1>5, <1>6, <1>7, <1>8, <1>9, NextCases

(* At the start no host has a read under way. *)
LEMMA ReadAtStart == Init => ReadInv
<1> SUFFICES ASSUME Init, NEW h \in Hosts PROVE Idle(h)
  BY DEF ReadInv, ReadPhase
<1>1. /\ awaiting[h] = {} /\ toHost[h] = <<>> /\ toSim[h] = <<>> /\ pc[h] = "first"
      /\ packet_data[h] = <<>>
  BY DEF Init, Host!Init, Sim!Init
<1>2. Open = {}
  BY OpenAtStart
<1>3. OpenOf(h, "R") = {}
  BY <1>2 DEF OpenOf
<1>4. Cardinality({}) = 0 /\ Len(<<>>) = 0
  BY FS_EmptySet, EmptySeq
<1>5. ReadParts(h) = 0
  <2>1. Cardinality(OpenOf(h, "R")) = 0 /\ Len(packet_data[h]) = 0
    BY <1>1, <1>3, <1>4
  <2> QED BY <2>1 DEF ReadParts
<1>6. NoReads(toSim[h])
  BY <1>1 DEF NoReads
<1> QED BY <1>1, <1>5, <1>6 DEF Idle, Reading

(* A step keeps the counting and the read invariants together. *)
LEMMA ReadsStep ==
  ASSUME PacketsOnce
  PROVE  ReadsHold /\ [Next]_vars => ReadsHold'
<1> SUFFICES ASSUME ReadsHold, [Next]_vars PROVE ReadsHold'
  OBVIOUS
<1>1. CountsHold /\ CountsHold'
  BY CountsStep DEF ReadsHold
<1>2. TypeInv /\ TypeInv' /\ OnceInv /\ OnceInv' /\ ReadInv
  BY <1>1 DEF ReadsHold, CountsHold, FlowHolds
<1>3. PICK prog \in Programs : FlowInv(prog)
  BY <1>1 DEF CountsHold, FlowHolds
<1> QED BY <1>1, <1>2, <1>3, ReadStep DEF ReadsHold

(* They hold in every reachable state. *)
LEMMA ReadsAlways ==
  ASSUME PacketsOnce
  PROVE  Spec => []ReadsHold
<1>1. Init => CountsHold
  BY TypeInvInit, FlowInit, OpenAtStart DEF CountsHold, FlowHolds
<1>2. Init => ReadsHold
  BY <1>1, ReadAtStart DEF ReadsHold
<1>3. ReadsHold /\ [Next]_vars => ReadsHold'
  BY ReadsStep
<1> QED BY <1>2, <1>3, PTL DEF Spec

(* The acks of writes counted since the last signal and the writes still *)
(* open make up the packets whose signal is due, and a host has one read *)
(* open at most, of which no part is lost or doubled (sim_wrapper.cpp,   *)
(* wack_num and packet_data), if no payload address is read or written   *)
(* twice.                                                                *)
THEOREM BurstsComplete ==
  ASSUME PacketsOnce
  PROVE  Spec => []BurstsAddUp
<1>1. ReadsHold => BurstsAddUp
  <2> SUFFICES ASSUME ReadsHold PROVE BurstsAddUp
    OBVIOUS
  <2>1. WritesInv /\ ReadInv
    BY DEF ReadsHold, CountsHold
  <2>2. \A h \in Hosts : ReadParts(h) \in {0, PayloadNum}
    BY <2>1 DEF ReadInv, ReadPhase, Idle, Asked, Syncing, Fetching, Replied
  <2> QED BY <2>1, <2>2 DEF BurstsAddUp, WritesInv, WritesAdd, ReadParts
<1> QED BY <1>1, ReadsAlways, PTL

-----------------------------------------------------------------------------
(* Threads: a host's trace, and its thread, end together *)

(* A host's packet in hand is the terminating one exactly when it is the last. *)
LEMMA EndOfTrace ==
  ASSUME TracesEnd, NEW prog \in Programs, NEW h \in Hosts, TypeInv, TypeInv',
         [Next]_vars, EndInv(prog), pc[h] \in HoldsPacket
  PROVE  pkt[h].type = "T" <=> Tail(ToCome(h)) = <<>>
<1> DEFINE t == Taken(prog[h], ToCome(h))
           n == Len(prog[h])
           m == Len(ToCome(h))
<1>1. t + 1 \in 1 .. n /\ prog[h][t + 1] = pkt[h] /\ t \in Nat
  BY EndStep
<1>2. prog[h] \in Seq(Packet) /\ DOMAIN prog[h] = 1 .. n /\ n \in Nat
  BY HostAssumption, SeqFacts
<1>3. prog[h][t + 1].type = "T" <=> t + 1 = n
  BY <1>1, <1>2 DEF TracesEnd
<1>4. ToCome(h) \in Seq(Packet) /\ ToCome(h) # <<>>
  BY ToComeTyped
<1>5. Tail(ToCome(h)) \in Seq(Packet) /\ Len(Tail(ToCome(h))) = m - 1 /\ m \in Nat
  BY <1>4, TailFacts
<1>6. Tail(ToCome(h)) = <<>> <=> m - 1 = 0
  BY <1>5, SeqFacts
<1>7. t = n - m
  BY DEF Taken
<1> HIDE DEF t, n, m
<1>8. t + 1 = n <=> m - 1 = 0
  BY <1>1, <1>2, <1>5, <1>7
<1> QED BY <1>1, <1>3, <1>6, <1>8

(* A step keeps a thread exited exactly when its packets are used up. *)
LEMMA ThreadStep ==
  ASSUME TracesEnd, NEW prog \in Programs, TypeInv, TypeInv', EndInv(prog),
         ThreadInv, [Next]_vars
  PROVE  ThreadInv'
<1>1. \A h \in Hosts : ToCome(h)' = IF Takes(h) THEN Tail(ToCome(h)) ELSE ToCome(h)
  BY ToComeStep
<1>2. \A h \in Hosts : pc[h] \in HoldsPacket => (pkt[h].type = "T" <=> Tail(ToCome(h)) = <<>>)
  BY EndOfTrace
<1>3. \A h \in Hosts : /\ pc[h] \in {"sync", "free", "read"} => pkt[h].type = "R"
                       /\ pc[h] = "write" => pkt[h].type = "W"
                       /\ pc[h] = "terminate" => pkt[h].type = "T"
  BY DEF TypeInv, ControlTyped
<1>4. \A h \in Hosts : h # NoHost
  BY TlmAssumption
<1>5. DOMAIN pc = Hosts /\ DOMAIN pkt = Hosts /\ DOMAIN req_done = Hosts
  BY DEF TypeInv, ControlTyped
<1> DEFINE Fine(h) == /\ pc[h] \in {"exiting", "exited"} <=> ToCome(h) = <<>>
                      /\ spinner = h => pc[h] = "first" \/ (pc[h] = "poll" /\ req_done[h])
<1>6. ASSUME NEW h \in Hosts, SameView(h), spinner' = spinner \/ spinner' # h
      PROVE  Fine(h)'
  <2>1. ToCome(h)' = ToCome(h)
    BY <1>1, <1>6 DEF SameView, Takes
  <2> QED BY <1>6, <2>1 DEF ThreadInv, SameView
<1>7. ASSUME UNCHANGED controlVars PROVE ThreadInv'
  <2>1. \A h \in Hosts : SameView(h)
    BY <1>7 DEF controlVars, hostVars, SameView
  <2> QED BY <1>6, <1>7, <2>1 DEF ThreadInv, controlVars
<1>8. ASSUME NEW h \in Hosts, ReadCut(h) \/ WriteCut(h) PROVE ThreadInv'
  <2>1. /\ pc[h] \in {"read", "write"} /\ pc'[h] = "poll" /\ pkt' = pkt /\ spinner' = spinner
    BY <1>5, <1>8, HandleReadDoes, HandleWriteDoes DEF ReadCut, WriteCut
  <2>2. Takes(h) /\ pkt[h].type # "T"
    BY <1>3, <2>1 DEF Takes, HoldsPacket
  <2>3. ToCome(h)' # <<>>
    BY <1>1, <1>2, <2>2 DEF Takes
  <2>4. spinner # h
    BY <2>1 DEF ThreadInv
  <2>5. Fine(h)'
    BY <2>1, <2>3, <2>4
  <2>6. ASSUME NEW g \in Hosts, g # h PROVE Fine(g)'
    BY <1>6, <1>8, <2>1, <2>6, OthersView
  <2> QED BY <2>5, <2>6 DEF ThreadInv
<1>9. ASSUME NEW h \in Hosts, SimNegedge(h) PROVE ThreadInv'
  <2>1. NegedgeControl(h)
    BY <1>9, NegedgeDoes
  <2>2. /\ pc' = pc /\ pkt' = pkt /\ spinner' = spinner
        /\ req_done'[h] = (req_done[h] \/ Sim!ReadComplete(h))
    BY <1>5, <2>1 DEF NegedgeControl
  <2>3. ToCome(h)' = ToCome(h)
    BY <1>1, <2>2 DEF Takes
  <2>4. Fine(h)'
    BY <2>2, <2>3 DEF ThreadInv
  <2>5. ASSUME NEW g \in Hosts, g # h PROVE Fine(g)'
    BY <1>6, <1>9, <2>2, <2>5, OthersView
  <2> QED BY <2>4, <2>5 DEF ThreadInv
<1>10. ASSUME NEW h \in Hosts, Silent(h) PROVE ThreadInv'
  <2>1. ASSUME NEW g \in Hosts, g # h, spinner' = spinner \/ spinner' # g PROVE Fine(g)'
    BY <1>6, <1>10, <2>1, OthersView
  <2>2. CASE Send(h) \/ GetResponse(h)
    <3>1. pc' = pc /\ pkt' = pkt /\ spinner' = spinner /\ req_done' = req_done
      BY <2>2 DEF Send, GetResponse, simVars
    <3>2. ToCome(h)' = ToCome(h)
      BY <1>1, <3>1 DEF Takes
    <3>3. Fine(h)'
      BY <3>1, <3>2 DEF ThreadInv
    <3> QED BY <2>1, <3>1, <3>3 DEF ThreadInv
  <2>3. CASE Receive(h)
    <3>1. /\ pc[h] \in {"first", "poll"} /\ pc'[h] = Sim!Handler(Head(toSim[h]))
          /\ pkt'[h] = Head(toSim[h]) /\ spinner' = NoHost /\ toSim[h] # <<>>
      BY <1>5, <2>3 DEF Receive, Sim!Receive
    <3>3. pc'[h] \in HoldsPacket
      BY <3>1 DEF Sim!Handler, HoldsPacket
    <3>4. ToCome(h)' = ToCome(h)
      BY <1>1, <3>1 DEF Takes, HoldsPacket
    <3>5. ToCome(h) # <<>>
      BY <3>1 DEF ThreadInv
    <3>6. Fine(h)'
      BY <1>4, <3>1, <3>3, <3>4, <3>5 DEF HoldsPacket
    <3>7. \A g \in Hosts : spinner' # g
      BY <1>4, <3>1
    <3> QED BY <2>1, <3>6, <3>7 DEF ThreadInv
  <2>4. CASE ThreadAlone(h)
    <3>1. CASE Sim!Spin(h)
      <4>1. /\ pc[h] = "first" \/ (pc[h] = "poll" /\ req_done[h])
            /\ spinner' = h /\ pc' = pc /\ pkt' = pkt /\ req_done' = req_done
        BY <3>1 DEF Sim!Spin
      <4>2. ToCome(h)' = ToCome(h)
        BY <1>1, <4>1 DEF Takes
      <4>3. Fine(h)'
        BY <4>1, <4>2 DEF ThreadInv
      <4> QED BY <2>1, <4>1, <4>3 DEF ThreadInv
    <3>2. CASE Sim!CheckSignal(h) \/ Sim!FreeSignal(h)
      <4>1. /\ pc[h] \in {"sync", "free"} /\ pc'[h] \in {"free", "read"}
            /\ pkt' = pkt /\ spinner' = spinner
        BY <1>5, <3>2 DEF Sim!CheckSignal, Sim!FreeSignal, Sim!Step, Sim!global
      <4>2. ToCome(h)' = ToCome(h)
        BY <1>1, <4>1 DEF Takes, HoldsPacket
      <4>3. Fine(h)'
        BY <4>1, <4>2 DEF ThreadInv
      <4> QED BY <2>1, <4>1, <4>3 DEF ThreadInv
    <3>3. CASE Sim!HandleTerminate(h)
      <4>1. /\ pc[h] = "terminate" /\ pc'[h] = "exiting"
            /\ pkt' = pkt /\ spinner' = spinner
        BY <1>5, <3>3 DEF Sim!HandleTerminate, Sim!Step, Sim!global
      <4>2. Takes(h) /\ pkt[h].type = "T" /\ spinner # h
        BY <1>3, <4>1 DEF Takes, HoldsPacket, ThreadInv
      <4>3. ToCome(h)' = <<>>
        BY <1>1, <1>2, <4>2 DEF Takes
      <4>4. Fine(h)'
        BY <4>1, <4>2, <4>3
      <4> QED BY <2>1, <4>1, <4>4 DEF ThreadInv
    <3>4. CASE Sim!LeaveCore(h)
      <4>1. /\ pc[h] = "exiting" /\ pc'[h] = "exited"
            /\ pkt' = pkt /\ spinner' = spinner
        BY <1>5, <3>4 DEF Sim!LeaveCore, Sim!Step
      <4>2. ToCome(h)' = ToCome(h)
        BY <1>1, <4>1 DEF Takes, HoldsPacket
      <4>3. Fine(h)'
        BY <4>1, <4>2 DEF ThreadInv
      <4> QED BY <2>1, <4>1, <4>3 DEF ThreadInv
    <3>5. CASE Sim!Stop(h)
      <4>1. pc' = pc /\ pkt' = pkt /\ spinner' = spinner /\ req_done' = req_done
        BY <3>5 DEF Sim!Stop
      <4>2. ToCome(h)' = ToCome(h)
        BY <1>1, <4>1 DEF Takes
      <4>3. Fine(h)'
        BY <4>1, <4>2 DEF ThreadInv
      <4> QED BY <2>1, <4>1, <4>3 DEF ThreadInv
    <3> QED BY <2>4, <3>1, <3>2, <3>3, <3>4, <3>5 DEF ThreadAlone
  <2> QED BY <1>10, <2>2, <2>3, <2>4 DEF Silent
<1>11. ASSUME \/ \E h \in Hosts : SimPosedge(h) \/ LinkForward(h) \/ LinkBackward(h)
              \/ UNCHANGED vars \/ SwitchForward \/ MemPosedge \/ SimulateDram
              \/ MemNegedge \/ SwitchBackward
       PROVE  UNCHANGED controlVars
  <2>1. \A h \in Hosts : SimPosedge(h) => UNCHANGED controlVars
    BY PosedgeDoes
  <2>2. \A h \in Hosts : LinkBackward(h) => UNCHANGED controlVars
    BY BackwardDoes
  <2>3. ASSUME UNCHANGED <<simVars, hostVars>> PROVE UNCHANGED controlVars
    BY <2>3 DEF simVars, controlVars
  <2>4. \A h \in Hosts : LinkForward(h) => UNCHANGED <<simVars, hostVars>>
    BY DEF LinkForward
  <2>5. UNCHANGED vars \/ SwitchForward \/ MemPosedge \/ SimulateDram \/ MemNegedge
          \/ SwitchBackward => UNCHANGED <<simVars, hostVars>>
    BY DEF vars, SwitchForward, MemPosedge, SimulateDram, MemNegedge, SwitchBackward
  <2> QED BY <1>11, <2>1, <2>2, <2>3, <2>4, <2>5
<1> HIDE DEF Fine
<1> QED BY <1>7, <1>8, <1>9, <1>10, <1>11, NextCases

(* At the start every thread has packets to come. *)
LEMMA ThreadAtStart ==
  ASSUME TracesEnd
  PROVE  Init => ThreadInv
<1> SUFFICES ASSUME Init, NEW h \in Hosts
             PROVE  /\ pc[h] \in {"exiting", "exited"} <=> ToCome(h) = <<>>
                    /\ spinner = h => pc[h] = "first" \/ (pc[h] = "poll" /\ req_done[h])
  BY DEF ThreadInv
<1>1. ToCome(h) = trace[h] /\ pc[h] = "first" /\ trace \in Programs
  BY QueuesAtStart
<1>2. trace[h] # <<>>
  BY <1>1 DEF TracesEnd
<1> QED BY <1>1, <1>2

(* A step keeps the thread invariant and those it rests on together. *)
LEMMA ThreadsStep ==
  ASSUME PacketsOnce, TracesEnd
  PROVE  ThreadsHold /\ [Next]_vars => ThreadsHold'
<1> SUFFICES ASSUME ThreadsHold, [Next]_vars PROVE ThreadsHold'
  OBVIOUS
<1>1. ReadsHold /\ ReadsHold' /\ ThreadInv
  BY ReadsStep DEF ThreadsHold
<1>2. TypeInv /\ TypeInv' /\ \E prog \in Programs : FlowInv(prog)
  BY <1>1 DEF ReadsHold, CountsHold, FlowHolds
<1>3. PICK prog \in Programs : EndInv(prog)
  BY <1>2 DEF FlowInv
<1> QED BY <1>1, <1>2, <1>3, ThreadStep DEF ThreadsHold

(* They hold in every reachable state. *)
LEMMA ThreadsAlways ==
  ASSUME PacketsOnce, TracesEnd
  PROVE  Spec => []ThreadsHold
<1>1. Init => CountsHold
  BY TypeInvInit, FlowInit, OpenAtStart DEF CountsHold, FlowHolds
<1>2. Init => ThreadsHold
  BY <1>1, ReadAtStart, ThreadAtStart DEF ThreadsHold, ReadsHold
<1>3. ThreadsHold /\ [Next]_vars => ThreadsHold'
  BY ThreadsStep
<1> QED BY <1>2, <1>3, PTL DEF Spec

(* A thread that polls its ring and holds the kernel (sim_wrapper.cpp,    *)
(* periodic_process) is waiting for a host process that is going to send, *)
(* not for one that waits for the simulator: it does so only before its   *)
(* first packet and after an answer.                                      *)
THEOREM SpinningEnds ==
  ASSUME PacketsOnce, TracesEnd
  PROVE  Spec => []SpinEnds
<1>1. ThreadsHold => SpinEnds
  <2> SUFFICES ASSUME ThreadsHold, NEW h \in Hosts, spinner = h, toSim[h] = <<>>
               PROVE  trace[h] # <<>> /\ (awaiting[h] = {} \/ toHost[h] # <<>>)
    BY DEF SpinEnds
  <2>1. TypeInv /\ ReadPhase(h) /\ ThreadInv
    BY DEF ThreadsHold, ReadsHold, CountsHold, FlowHolds, ReadInv
  <2>2. pc[h] = "first" \/ (pc[h] = "poll" /\ req_done[h])
    BY <2>1 DEF ThreadInv
  <2>3. ToCome(h) # <<>>
    BY <2>1, <2>2 DEF ThreadInv
  <2>4. trace[h] # <<>>
    <3>1. InHand(h) = <<>>
      BY <2>2 DEF InHand
    <3>2. trace[h] \in Seq(Packet)
      BY <2>1 DEF TypeInv, HostTyped
    <3>3. ToCome(h) = trace[h]
      BY <3>1, <3>2, ConcatEmptySeq DEF ToCome
    <3> QED BY <2>3, <3>3
  <2>5. CASE Idle(h)
    BY <2>4, <2>5 DEF Idle
  <2>6. CASE Replied(h)
    <3>1. Len(toHost[h]) = 1 /\ Len(<<>>) = 0
      BY <2>6, EmptySeq DEF Replied
    <3>2. toHost[h] # <<>>
      BY <3>1
    <3> QED BY <2>4, <3>2
  <2>7. ~Asked(h) /\ ~Syncing(h) /\ ~Fetching(h)
    BY <2>2 DEF Asked, LastRead, Syncing, Reading, Fetching
  <2> QED BY <2>1, <2>5, <2>6, <2>7 DEF ReadPhase
<1> QED BY <1>1, ThreadsAlways, PTL

-----------------------------------------------------------------------------
(* The end of the simulation *)

(* The count of running cores is kept where no thread exits. *)
LEMMA CoresKept ==
  ASSUME CoresInv, \A h \in Hosts : pc'[h] = "exited" <=> pc[h] = "exited",
         active_cores' = active_cores, active_dram' = active_dram,
         stopped' = stopped
  PROVE  CoresInv'
<1>1. Running' = Running
  BY DEF Running
<1> QED BY <1>1 DEF CoresInv

(* Every step keeps the count of running cores. *)
LEMMA CoresStep ==
  ASSUME TypeInv, CoresInv, [Next]_vars
  PROVE  CoresInv'
<1>1. DOMAIN pc = Hosts
  BY DEF TypeInv, ControlTyped
<1>2. Running \in SUBSET Hosts /\ IsFiniteSet(Running) /\ Cardinality(Running) \in Nat
  <2>1. Running \in SUBSET Hosts
    BY DEF Running
  <2>2. IsFiniteSet(Running)
    BY <2>1, FS_Subset, TlmAssumption
  <2> QED BY <2>1, <2>2, FS_CardinalityType
<1>3. ASSUME NEW h \in Hosts, ReadCut(h) \/ WriteCut(h) PROVE CoresInv'
  <2>1. /\ pc[h] \in {"read", "write"} /\ pc' = [pc EXCEPT ![h] = "poll"]
        /\ active_cores' = active_cores /\ stopped' = stopped
    BY <1>3, HandleReadDoes, HandleWriteDoes DEF ReadCut, WriteCut
  <2>2. active_dram' = active_dram
    BY <1>3 DEF ReadCut, WriteCut, memVars
  <2> QED BY <1>1, <2>1, <2>2, CoresKept
<1>4. ASSUME NEW h \in Hosts, SimNegedge(h) PROVE CoresInv'
  <2>1. NegedgeControl(h)
    BY <1>4, NegedgeDoes
  <2>2. active_dram' = active_dram
    BY <1>4 DEF SimNegedge, memVars
  <2> QED BY <2>1, <2>2, CoresKept DEF NegedgeControl
<1>5. ASSUME NEW h \in Hosts, Silent(h) PROVE CoresInv'
  <2>1. active_dram' = active_dram
    BY <1>5 DEF Silent, payloadVars, memVars
  <2>2. CASE Send(h) \/ GetResponse(h)
    BY <2>1, <2>2, CoresKept DEF Send, GetResponse, simVars
  <2>3. CASE Receive(h)
    <3>1. /\ pc[h] \in {"first", "poll"} /\ \E s \in HoldsPacket : pc' = [pc EXCEPT ![h] = s]
          /\ active_cores' = active_cores /\ stopped' = stopped
      BY <2>3 DEF Receive, Sim!Receive, Sim!Handler, HoldsPacket
    <3> QED BY <1>1, <2>1, <3>1, CoresKept DEF HoldsPacket
  <2>4. CASE ThreadAlone(h)
    <3>1. CASE Sim!Spin(h)
      BY <2>1, <3>1, CoresKept DEF Sim!Spin
    <3>2. CASE Sim!CheckSignal(h) \/ Sim!FreeSignal(h) \/ Sim!HandleTerminate(h)
      <4>1. /\ pc[h] # "exited" /\ \E s \in {"free", "read", "exiting"} : pc' = [pc EXCEPT ![h] = s]
            /\ active_cores' = active_cores /\ stopped' = stopped
        BY <3>2 DEF Sim!CheckSignal, Sim!FreeSignal, Sim!HandleTerminate, Sim!Step, Sim!global
      <4> QED BY <1>1, <2>1, <4>1, CoresKept
    <3>3. CASE Sim!LeaveCore(h)
      <4>1. /\ pc[h] = "exiting" /\ pc' = [pc EXCEPT ![h] = "exited"]
            /\ active_cores' = active_cores - 1 /\ stopped' = stopped
        BY <3>3 DEF Sim!LeaveCore, Sim!Step
      <4>2. Running' = Running \ {h} /\ h \in Running
        BY <1>1, <4>1 DEF Running
      <4>3. Cardinality(Running \ {h}) = Cardinality(Running) - 1
        BY <1>2, <4>2, FS_RemoveElement
      <4> QED BY <2>1, <4>1, <4>2, <4>3 DEF CoresInv
    <3>4. CASE Sim!Stop(h)
      <4>1. active_dram = 0 /\ pc' = pc /\ active_cores' = active_cores
        BY <3>4 DEF Sim!Stop
      <4>2. Running' = Running
        BY <4>1 DEF Running
      <4> QED BY <2>1, <4>1, <4>2 DEF CoresInv
    <3> QED BY <2>4, <3>1, <3>2, <3>3, <3>4 DEF ThreadAlone
  <2> QED BY <1>5, <2>2, <2>3, <2>4 DEF Silent
<1>6. ASSUME SimulateDram PROVE CoresInv'
  <2>1. /\ pc' = pc /\ active_cores' = active_cores /\ stopped' = stopped
        /\ active_dram = 1 /\ active_dram' = IF DramEnds THEN 0 ELSE 1
    BY <1>6, SimulateDramDoes DEF simVars
  <2>2. Running' = Running /\ ~stopped
    BY <2>1 DEF Running, CoresInv
  <2>3. DramEnds => Running = {}
    <3>1. DramEnds => Cardinality(Running) = 0
      BY DEF DramEnds, CoresInv
    <3> QED BY <1>2, <3>1, FS_EmptySet
  <2> QED BY <2>1, <2>2, <2>3 DEF CoresInv
<1>7. ASSUME NEW h \in Hosts, SimPosedge(h) \/ LinkForward(h) \/ LinkBackward(h)
      PROVE  CoresInv'
  <2>1. active_dram' = active_dram
    BY <1>7 DEF SimPosedge, LinkForward, LinkBackward, memVars
  <2>2. UNCHANGED <<pc, active_cores, stopped>>
    <3>1. SimPosedge(h) => UNCHANGED controlVars
      BY PosedgeDoes
    <3>2. LinkBackward(h) => UNCHANGED controlVars
      BY BackwardDoes
    <3>3. LinkForward(h) => UNCHANGED simVars
      BY DEF LinkForward
    <3> QED BY <1>7, <3>1, <3>2, <3>3 DEF controlVars, simVars
  <2> QED BY <2>1, <2>2, CoresKept
<1>8. ASSUME UNCHANGED vars \/ SwitchForward \/ MemPosedge \/ MemNegedge \/ SwitchBackward
      PROVE  CoresInv'
  <2>1. active_dram' = active_dram
    <3>1. SwitchForward => active_dram' = active_dram
      BY SwitchForwardDoes
    <3>2. MemPosedge => active_dram' = active_dram
      BY MemPosedgeDoes
    <3>3. MemNegedge => active_dram' = active_dram
      BY MemNegedgeDoes
    <3>4. UNCHANGED vars \/ SwitchBackward => active_dram' = active_dram
      BY DEF SwitchBackward, vars, memVars
    <3> QED BY <1>8, <3>1, <3>2, <3>3, <3>4
  <2>2. UNCHANGED simVars
    BY <1>8 DEF vars, SwitchForward, MemPosedge, MemNegedge, SwitchBackward
  <2> QED BY <2>1, <2>2, CoresKept DEF simVars
<1> QED BY <1>3, <1>4, <1>5, <1>6, <1>7, <1>8, NextCases

(* At the start every core runs. *)
LEMMA CoresAtStart == Init => CoresInv
<1> SUFFICES ASSUME Init PROVE CoresInv
  OBVIOUS
<1>1. /\ active_cores = Cardinality(Hosts) /\ active_dram = 1 /\ stopped = FALSE
      /\ pc = [h \in Hosts |-> "first"]
  <2>1. Sim!Cardinality(Hosts) = Cardinality(Hosts)
    BY Zenon DEF Sim!Cardinality, Cardinality
  <2> QED BY <2>1 DEF Init, Sim!Init, Mem!Init
<1>2. Running = Hosts
  BY <1>1 DEF Running
<1> QED BY <1>1, <1>2 DEF CoresInv
-----------------------------------------------------------------------------
(* Signals: a packet is written, then signalled, then read *)

(* A packet is past when it was, or when this step takes it. *)
LEMMA PastStep ==
  ASSUME NEW prog \in Programs, TypeInv, TypeInv', [Next]_vars, EndInv(prog), NEW k, NEW a
  PROVE  Past(prog, k, a)' <=>
           Past(prog, k, a) \/ \E h \in Hosts : Takes(h) /\ pkt[h].type = k /\ pkt[h].addr = a
<1> DEFINE t(h) == Taken(prog[h], ToCome(h))
<1>1. \A h \in Hosts : /\ t(h) \in Nat /\ t(h)' = IF Takes(h) THEN t(h) + 1 ELSE t(h)
                       /\ Takes(h) => prog[h][t(h) + 1] = pkt[h]
  BY EndStep DEF Takes
<1>2. Past(prog, k, a)' <=> \E h \in Hosts : \E i \in 1 .. t(h)' :
                              prog[h][i].type = k /\ prog[h][i].addr = a
  BY DEF Past
<1>3. Past(prog, k, a) <=> \E h \in Hosts : \E i \in 1 .. t(h) :
                              prog[h][i].type = k /\ prog[h][i].addr = a
  BY DEF Past
<1> HIDE DEF t
<1>4. \A h \in Hosts : \A i : i \in 1 .. t(h)' <=> i \in 1 .. t(h) \/ (Takes(h) /\ i = t(h) + 1)
  BY <1>1
<1> QED BY <1>1, <1>2, <1>3, <1>4

(* Two data packets of a kind that start at one address overlap. *)
LEMMA SameStart ==
  ASSUME NEW p, NEW q, p.type = q.type, p.type # "T", p.addr = q.addr, p.addr \in Nat
  PROVE  Overlap(p, q)
<1>1. 0 \in Slices
  BY TlmAssumption DEF Slices
<1>2. p.addr + 0 \in PacketAddrs(p.addr)
  BY <1>1 DEF PacketAddrs
<1> QED BY <1>2 DEF Overlap

(* What is in hand has not been cut, and is in no other hand. *)
LEMMA InHandOnce ==
  ASSUME PacketsOnce, NEW prog \in Programs, TypeInv, TypeInv', [Next]_vars,
         EndInv(prog), NEW h \in Hosts, pc[h] \in HoldsPacket, pkt[h].type # "T"
  PROVE  /\ ~Past(prog, pkt[h].type, pkt[h].addr)
         /\ \A g \in Hosts : pc[g] \in HoldsPacket /\ pkt[g].type = pkt[h].type
                             /\ pkt[g].addr = pkt[h].addr => g = h
<1> DEFINE t(g) == Taken(prog[g], ToCome(g))
<1>1. \A g \in Hosts : /\ t(g) \in Nat
                       /\ pc[g] \in HoldsPacket => /\ t(g) + 1 \in 1 .. Len(prog[g])
                                                   /\ prog[g][t(g) + 1] = pkt[g]
  BY EndStep
<1>2. \A g \in Hosts : prog[g] \in Seq(Packet) /\ DOMAIN prog[g] = 1 .. Len(prog[g])
  BY HostAssumption, SeqFacts
<1>3. pkt[h].addr \in Nat
  BY TlmAssumption DEF TypeInv, ControlTyped, Packet
<1>4. \A g \in Hosts : t(g) <= Len(prog[g])
  BY EndTail, <1>2 DEF EndInv, IsEndOf, Taken
<1>5. ASSUME NEW g \in Hosts, NEW i \in 1 .. t(g),
             prog[g][i].type = pkt[h].type, prog[g][i].addr = pkt[h].addr
      PROVE  FALSE
  <2>1. Overlap(prog[g][i], prog[h][t(h) + 1])
    BY <1>1, <1>3, <1>5, SameStart
  <2>2. Len(prog[g]) \in Nat
    BY <1>2, SeqFacts
  <2>3. i \in DOMAIN prog[g] /\ t(h) + 1 \in DOMAIN prog[h]
    <3> DEFINE m == t(g)
               n == Len(prog[g])
    <3>1. m \in Nat /\ n \in Nat /\ m <= n /\ i \in 1 .. m
      BY <1>1, <1>4, <1>5, <2>2
    <3> HIDE DEF m, n
    <3>2. i \in 1 .. n
      BY <3>1
    <3> QED BY <1>1, <1>2, <3>2 DEF n
  <2>4. g = h /\ i = t(h) + 1
    BY <2>1, <2>3 DEF PacketsOnce
  <2> QED BY <1>1, <1>5, <2>4
<1>6. ASSUME NEW g \in Hosts, pc[g] \in HoldsPacket, pkt[g].type = pkt[h].type,
             pkt[g].addr = pkt[h].addr
      PROVE  g = h
  <2>1. Overlap(prog[g][t(g) + 1], prog[h][t(h) + 1])
    BY <1>1, <1>3, <1>6, SameStart
  <2>2. t(g) + 1 \in DOMAIN prog[g] /\ t(h) + 1 \in DOMAIN prog[h]
    BY <1>1, <1>2, <1>6
  <2> QED BY <2>1, <2>2 DEF PacketsOnce
<1> QED BY <1>5, <1>6 DEF Past
(* The signal invariant is kept where no flag and no synchronisation queue
   changes. *)
LEMMA SignalsKept ==
  ASSUME NEW prog \in Programs, SignalInv(prog), UNCHANGED <<sync, sync_queue>>,
         \A a : Past(prog, "W", a) => Past(prog, "W", a)',
         \A a : ReadBegun(prog, a)' => ReadBegun(prog, a),
         \A h \in Hosts : pc'[h] = "free" => pc[h] \in {"sync", "free"} /\ sync[pkt'[h].addr]
  PROVE  SignalInv(prog)'
<1>1. Content(sync_queue)' = Content(sync_queue) /\ Once(sync_queue)' = Once(sync_queue)
  OBVIOUS
<1> QED BY <1>1 DEF SignalInv

(* What is past stays past. *)
LEMMA PastStays ==
  ASSUME NEW prog \in Programs, TypeInv, TypeInv', [Next]_vars, EndInv(prog), NEW k, NEW a,
         Past(prog, k, a)
  PROVE  Past(prog, k, a)'
BY PastStep

(* The address of a write goes to the end of the queue. *)
LEMMA SignalsCut ==
  ASSUME PacketsOnce, NEW prog \in Programs, TypeInv, TypeInv', [Next]_vars,
         EndInv(prog), SignalInv(prog), sync_queue \in Family(Hosts, PktAddrs),
         NEW h \in Hosts, WriteCut(h)
  PROVE  SignalInv(prog)'
<1> DEFINE a == pkt[h].addr
<1>1. /\ pc[h] = "write" /\ pc' = [pc EXCEPT ![h] = "poll"] /\ pkt' = pkt /\ sync' = sync
      /\ sync_queue' = [sync_queue EXCEPT ![h] = Append(sync_queue[h], a)]
  BY HandleWriteDoes DEF WriteCut
<1>2. DOMAIN pc = Hosts
  BY DEF TypeInv, ControlTyped
<1>3. pkt[h].type = "W" /\ a \in PktAddrs
  BY <1>1 DEF TypeInv, ControlTyped, Packet
<1>4. ~Past(prog, "W", a)
  BY <1>1, <1>3, InHandOnce DEF HoldsPacket
<1>5. Takes(h) /\ \A g \in Hosts : Takes(g) => g = h
  BY <1>1, <1>2 DEF Takes, HoldsPacket
<1>6. /\ \A b : Past(prog, "W", b)' <=> Past(prog, "W", b) \/ b = a
      /\ \A b : Past(prog, "R", b)' <=> Past(prog, "R", b)
  BY <1>3, <1>5, PastStep
<1>7. \A b : ReadBegun(prog, b)' => ReadBegun(prog, b)
  BY <1>1, <1>2, <1>6 DEF ReadBegun
<1>8. sync_queue' = Extended(sync_queue, h, <<a>>)
  <2>1. sync_queue[h] \in Seq(PktAddrs)
    BY DEF Family
  <2>2. Append(sync_queue[h], a) = sync_queue[h] \o <<a>>
    BY <1>3, <2>1, AppendIsConcat
  <2> QED BY <1>1, <2>2 DEF Extended
<1>9. a \notin Content(sync_queue)
  BY <1>4 DEF SignalInv
<1>10. <<a>> \in Seq(PktAddrs) /\ OnceIn(<<a>>) /\ Items(<<a>>) = {a}
  BY <1>3 DEF OnceIn, Items
<1>11. AllNew(<<a>>, sync_queue)
  BY <1>9, <1>10 DEF AllNew
<1>12. Once(sync_queue)' /\ Content(sync_queue)' = Content(sync_queue) \cup {a}
  <2> DEFINE s == <<a>>
  <2>1. /\ s \in Seq(PktAddrs) /\ OnceIn(s) /\ Items(s) = {a} /\ AllNew(s, sync_queue)
        /\ Once(sync_queue) /\ sync_queue' = Extended(sync_queue, h, s)
    BY <1>8, <1>10, <1>11 DEF SignalInv
  <2> HIDE DEF s
  <2>2. /\ Once(Extended(sync_queue, h, s))
        /\ Content(Extended(sync_queue, h, s)) = Content(sync_queue) \cup Items(s)
    BY <2>1, ExtendedFacts
  <2> QED BY <2>1, <2>2
<1>13. ~sync[a] /\ ~ReadBegun(prog, a)
  BY <1>3, <1>4 DEF SignalInv
<1>14. \A g \in Hosts : pc'[g] = "free" => pc[g] = "free"
  BY <1>1, <1>2
<1> HIDE DEF a
<1> QED BY <1>1, <1>6, <1>7, <1>12, <1>13, <1>14 DEF SignalInv

(* The flag of the oldest packet is raised. *)
LEMMA SignalsRaised ==
  ASSUME NEW prog \in Programs, TypeInv, TypeInv', [Next]_vars,
         EndInv(prog), SignalInv(prog), sync_queue \in Family(Hosts, PktAddrs),
         NEW h \in Hosts, SimNegedge(h), Sim!WriteComplete(h) => sync_queue[h] # <<>>
  PROVE  SignalInv(prog)'
<1>1. /\ sync' = IF Sim!WriteComplete(h)
                   THEN [sync EXCEPT ![Head(sync_queue[h])] = TRUE] ELSE sync
      /\ sync_queue' = [sync_queue EXCEPT ![h] =
                          IF Sim!WriteComplete(h) THEN Tail(sync_queue[h])
                            ELSE sync_queue[h]]
      /\ pc' = pc /\ pkt' = pkt
  BY NegedgeDoes DEF NegedgeBursts, NegedgeControl
<1>2. /\ \A a : Past(prog, "W", a)' <=> Past(prog, "W", a)
      /\ \A a : Past(prog, "R", a)' <=> Past(prog, "R", a)
  BY <1>1, PastStep DEF Takes
<1>3. \A a : ReadBegun(prog, a)' <=> ReadBegun(prog, a)
  BY <1>1, <1>2 DEF ReadBegun
<1>4. CASE ~Sim!WriteComplete(h)
  <2>1. UNCHANGED <<sync, sync_queue>>
    BY <1>1, <1>4 DEF Family
  <2> QED BY <1>1, <1>2, <1>3, <2>1, SignalsKept DEF SignalInv
<1>5. CASE Sim!WriteComplete(h)
  <2> DEFINE b == Head(sync_queue[h])
  <2>1. sync_queue' = Dropped(sync_queue, h)
    BY <1>1, <1>5 DEF Dropped, Rest
  <2>2. /\ Once(Dropped(sync_queue, h)) /\ b \in Content(sync_queue)
        /\ Content(Dropped(sync_queue, h)) = Content(sync_queue) \ {b}
    BY <1>5, DroppedFacts DEF SignalInv
  <2>3. Once(sync_queue)' /\ Content(sync_queue)' = Content(sync_queue) \ {b}
    BY <2>1, <2>2
  <2>4. b \in PktAddrs
    BY <1>5, TailFacts DEF Family
  <2>5. sync' = [sync EXCEPT ![b] = TRUE] /\ sync \in [PktAddrs -> BOOLEAN]
    BY <1>1, <1>5 DEF TypeInv, ControlTyped
  <2>6. Past(prog, "W", b) /\ ~ReadBegun(prog, b)
    BY <2>2, <2>4 DEF SignalInv
  <2> HIDE DEF b
  <2>7. \A a \in PktAddrs : /\ a # b => sync'[a] = sync[a]
                            /\ sync[a] => sync'[a]
                            /\ sync'[b] = TRUE
    BY <2>4, <2>5
  <2>8. \A g \in Hosts : pc[g] = "free" => pkt[g].addr \in PktAddrs
    BY DEF TypeInv, ControlTyped, Packet
  <2> QED BY <1>1, <1>2, <1>3, <2>2, <2>3, <2>6, <2>7, <2>8 DEF SignalInv
<1> QED BY <1>4, <1>5

(* The flag is cleared before the packet is read. *)
LEMMA SignalsUsed ==
  ASSUME PacketsOnce, NEW prog \in Programs, TypeInv, TypeInv', [Next]_vars,
         EndInv(prog), SignalInv(prog), NEW h \in Hosts, Sim!FreeSignal(h)
  PROVE  SignalInv(prog)'
<1> DEFINE a == pkt[h].addr
<1>1. /\ pc[h] = "free" /\ pc' = [pc EXCEPT ![h] = "read"] /\ pkt' = pkt
      /\ sync' = [sync EXCEPT ![a] = FALSE] /\ sync_queue' = sync_queue
  BY DEF Sim!FreeSignal, Sim!Step, Sim!bursts
<1>2. DOMAIN pc = Hosts /\ sync \in [PktAddrs -> BOOLEAN]
  BY DEF TypeInv, ControlTyped
<1>3. pkt[h].type = "R" /\ a \in PktAddrs
  BY <1>1 DEF TypeInv, ControlTyped, Packet
<1>4. \A g \in Hosts : ~Takes(g)
  BY <1>1, <1>2 DEF Takes, HoldsPacket
<1>5. /\ \A b : Past(prog, "W", b)' <=> Past(prog, "W", b)
      /\ \A b : Past(prog, "R", b)' <=> Past(prog, "R", b)
  BY <1>4, PastStep
<1>6. \A b : ReadBegun(prog, b)' <=> ReadBegun(prog, b) \/ b = a
  BY <1>1, <1>2, <1>5 DEF ReadBegun
<1>7. sync[a] /\ Past(prog, "W", a) /\ a \notin Content(sync_queue)
  BY <1>1, <1>3 DEF SignalInv
<1>8. ASSUME NEW g \in Hosts, pc'[g] = "free" PROVE pc[g] = "free" /\ pkt[g].addr # a
  <2>1. g # h /\ pc[g] = "free"
    BY <1>1, <1>2, <1>8
  <2>2. pkt[g].type = "R" /\ pkt[g].addr \in PktAddrs
    BY <2>1 DEF TypeInv, ControlTyped, Packet
  <2> QED BY <1>1, <1>3, <2>1, <2>2, InHandOnce DEF HoldsPacket
<1>9. Content(sync_queue)' = Content(sync_queue) /\ Once(sync_queue)' = Once(sync_queue)
  BY <1>1
<1> HIDE DEF a
<1>10. \A b \in PktAddrs : /\ b # a => sync'[b] = sync[b]
                           /\ sync'[a] = FALSE
  BY <1>1, <1>2, <1>3
<1>11. \A g \in Hosts : pc[g] = "free" => pkt[g].addr \in PktAddrs
  BY DEF TypeInv, ControlTyped, Packet
<1>12. \A g \in Hosts : pc'[g] = "free" => sync'[pkt'[g].addr]
  BY <1>1, <1>8, <1>10, <1>11 DEF SignalInv
<1>13. \A b \in PktAddrs : ReadBegun(prog, b) \/ b = a =>
         ~sync'[b] /\ Past(prog, "W", b) /\ b \notin Content(sync_queue)
  BY <1>7, <1>10 DEF SignalInv
<1>14. \A b \in PktAddrs : sync'[b] => Past(prog, "W", b) /\ b \notin Content(sync_queue)
  BY <1>10 DEF SignalInv
<1> QED BY <1>5, <1>6, <1>9, <1>12, <1>13, <1>14 DEF SignalInv

(* The signal invariant is kept by a step of another part of the system. *)
LEMMA SignalsIdle ==
  ASSUME NEW prog \in Programs, TypeInv, TypeInv', [Next]_vars, EndInv(prog),
         SignalInv(prog), UNCHANGED <<pc, pkt, sync, sync_queue>>
  PROVE  SignalInv(prog)'
<1>1. \A a : Past(prog, "R", a)' => Past(prog, "R", a)
  BY PastStep DEF Takes
<1>2. \A a : Past(prog, "W", a) => Past(prog, "W", a)'
  BY PastStays
<1>3. \A a : ReadBegun(prog, a)' => ReadBegun(prog, a)
  BY <1>1 DEF ReadBegun
<1>4. \A g \in Hosts : pc'[g] = "free" => pc[g] \in {"sync", "free"} /\ sync[pkt'[g].addr]
  BY DEF SignalInv
<1> QED BY <1>2, <1>3, <1>4, SignalsKept

(* A thread that leaves the flags alone starts no read. *)
LEMMA SignalsThread ==
  ASSUME NEW prog \in Programs, TypeInv, TypeInv', [Next]_vars, EndInv(prog),
         SignalInv(prog), NEW h \in Hosts, UNCHANGED <<sync, sync_queue>>,
         \A g \in Hosts : g # h => pc'[g] = pc[g] /\ pkt'[g] = pkt[g],
         pc'[h] # "read",
         pc'[h] = "free" => pc[h] \in {"sync", "free"} /\ sync[pkt'[h].addr],
         Takes(h) /\ pkt[h].type = "R" => pc[h] = "read"
  PROVE  SignalInv(prog)'
<1>1. \A g \in Hosts : Takes(g) => g = h
  BY DEF Takes
<1>2. \A a : Past(prog, "R", a)' => ReadBegun(prog, a)
  <2>1. \A a : Past(prog, "R", a)' <=>
                 Past(prog, "R", a) \/ \E g \in Hosts : Takes(g) /\ pkt[g].type = "R"
                                                                 /\ pkt[g].addr = a
    BY PastStep
  <2> QED BY <1>1, <2>1 DEF ReadBegun
<1>3. \A a : Past(prog, "W", a) => Past(prog, "W", a)'
  BY PastStays
<1>4. \A a : ReadBegun(prog, a)' => ReadBegun(prog, a)
  <2>1. \A a : ReadBegun(prog, a)' <=>
                 Past(prog, "R", a)' \/ \E g \in Hosts : pc'[g] = "read" /\ pkt'[g].addr = a
    BY DEF ReadBegun
  <2> QED BY <1>2, <2>1 DEF ReadBegun
<1>5. \A g \in Hosts : pc'[g] = "free" => pc[g] \in {"sync", "free"} /\ sync[pkt'[g].addr]
  BY DEF SignalInv
<1> QED BY <1>3, <1>4, <1>5, SignalsKept

(* Every step keeps the signal invariant. *)
LEMMA SignalStep ==
  ASSUME PacketsOnce, NEW prog \in Programs, TypeInv, TypeInv', FlowInv(prog), OnceInv,
         WritesInv, SignalInv(prog), [Next]_vars
  PROVE  SignalInv(prog)'
<1>1. EndInv(prog)
  BY DEF FlowInv
<1>2. sync_queue \in Family(Hosts, PktAddrs)
  BY DEF TypeInv, BurstsTyped, WritesInv, WritesAdd, Family
<1>3. DOMAIN pc = Hosts /\ DOMAIN pkt = Hosts
  BY DEF TypeInv, ControlTyped
<1>4. ASSUME NEW h \in Hosts, ReadCut(h) PROVE SignalInv(prog)'
  <2>1. /\ pc[h] = "read" /\ pc' = [pc EXCEPT ![h] = "poll"]
        /\ UNCHANGED <<pkt, sync, sync_queue>>
    BY <1>4, HandleReadDoes DEF ReadCut
  <2> QED BY <1>1, <1>3, <2>1, SignalsThread
<1>5. ASSUME NEW h \in Hosts, WriteCut(h) PROVE SignalInv(prog)'
  BY <1>1, <1>2, <1>5, SignalsCut
<1>6. ASSUME NEW h \in Hosts, SimNegedge(h) PROVE SignalInv(prog)'
  <2>1. OpenLoses(NegedgeAcks(h))
    BY <1>6, NegedgeLoses
  <2>2. Sim!WriteComplete(h) => sync_queue[h] # <<>>
    BY <2>1, SignalDue DEF WritesInv, Sim!WriteComplete
  <2> QED BY <1>1, <1>2, <1>6, <2>2, SignalsRaised
<1>7. ASSUME NEW h \in Hosts, Silent(h) PROVE SignalInv(prog)'
  <2>1. sync_queue' = sync_queue
    BY <1>7 DEF Silent, burstVars
  <2>2. CASE Send(h) \/ GetResponse(h)
    <3>1. UNCHANGED <<pc, pkt, sync>>
      BY <2>2 DEF Send, GetResponse, simVars
    <3> QED BY <1>1, <2>1, <3>1, SignalsIdle
  <2>3. CASE Receive(h)
    <3>1. /\ pc[h] \in {"first", "poll"} /\ sync' = sync
          /\ \E s \in {"sync", "write", "terminate"} : pc' = [pc EXCEPT ![h] = s]
          /\ \E p : pkt' = [pkt EXCEPT ![h] = p]
      BY <2>3 DEF Receive, Sim!Receive, Sim!Handler
    <3>2. /\ pc'[h] \in {"sync", "write", "terminate"} /\ ~Takes(h)
          /\ \A g \in Hosts : g # h => pc'[g] = pc[g] /\ pkt'[g] = pkt[g]
      BY <1>3, <3>1 DEF Takes, HoldsPacket
    <3> QED BY <1>1, <2>1, <3>1, <3>2, SignalsThread
  <2>4. CASE ThreadAlone(h)
    <3>1. CASE Sim!Spin(h) \/ Sim!Stop(h)
      <4>1. UNCHANGED <<pc, pkt, sync>>
        BY <3>1 DEF Sim!Spin, Sim!Stop
      <4> QED BY <1>1, <2>1, <4>1, SignalsIdle
    <3>2. CASE Sim!CheckSignal(h)
      <4>1. /\ pc[h] = "sync" /\ pc' = [pc EXCEPT ![h] = "free"] /\ pkt' = pkt
            /\ sync' = sync /\ sync[pkt[h].addr]
        BY <3>2 DEF Sim!CheckSignal, Sim!Step, Sim!global
      <4>2. ~Takes(h)
        BY <1>3, <4>1 DEF Takes, HoldsPacket
      <4> QED BY <1>1, <1>3, <2>1, <4>1, <4>2, SignalsThread
    <3>3. CASE Sim!FreeSignal(h)
      BY <1>1, <3>3, SignalsUsed
    <3>4. CASE Sim!HandleTerminate(h)
      <4>1. /\ pc[h] = "terminate" /\ pc' = [pc EXCEPT ![h] = "exiting"] /\ pkt' = pkt
            /\ sync' = sync
        BY <3>4 DEF Sim!HandleTerminate, Sim!Step, Sim!global
      <4>2. pkt[h].type # "R"
        BY <4>1 DEF TypeInv, ControlTyped
      <4> QED BY <1>1, <1>3, <2>1, <4>1, <4>2, SignalsThread
    <3>5. CASE Sim!LeaveCore(h)
      <4>1. /\ pc[h] = "exiting" /\ pc' = [pc EXCEPT ![h] = "exited"] /\ pkt' = pkt
            /\ sync' = sync
        BY <3>5 DEF Sim!LeaveCore, Sim!Step
      <4>2. ~Takes(h)
        BY <4>1 DEF Takes, HoldsPacket
      <4> QED BY <1>1, <1>3, <2>1, <4>1, <4>2, SignalsThread
    <3> QED BY <2>4, <3>1, <3>2, <3>3, <3>4, <3>5 DEF ThreadAlone
  <2> QED BY <1>7, <2>2, <2>3, <2>4 DEF Silent
<1>8. ASSUME NEW h \in Hosts, SimPosedge(h) \/ LinkForward(h) \/ LinkBackward(h)
      PROVE  SignalInv(prog)'
  <2>1. UNCHANGED <<pc, pkt, sync, sync_queue>>
    <3>1. SimPosedge(h) => UNCHANGED controlVars /\ UNCHANGED burstVars
      BY PosedgeDoes
    <3>2. LinkBackward(h) => UNCHANGED controlVars /\ UNCHANGED burstVars
      BY BackwardDoes
    <3>3. LinkForward(h) => UNCHANGED simVars
      BY DEF LinkForward
    <3> QED BY <1>8, <3>1, <3>2, <3>3 DEF controlVars, burstVars, simVars
  <2> QED BY <1>1, <2>1, SignalsIdle
<1>9. ASSUME UNCHANGED vars \/ SwitchForward \/ MemPosedge \/ SimulateDram \/ MemNegedge
             \/ SwitchBackward
      PROVE  SignalInv(prog)'
  <2>1. UNCHANGED simVars
    BY <1>9 DEF vars, SwitchForward, MemPosedge, SimulateDram, MemNegedge, SwitchBackward
  <2> QED BY <1>1, <2>1, SignalsIdle DEF simVars
<1> QED BY <1>4, <1>5, <1>6, <1>7, <1>8, <1>9, NextCases

(* At the start nothing is cut, signalled or read. *)
LEMMA SignalAtStart ==
  ASSUME Init, NEW prog \in Programs, \A h \in Hosts : trace[h] = prog[h]
  PROVE  SignalInv(prog)
<1>1. /\ \A h \in Hosts : sync_queue[h] = <<>> /\ pc[h] = "first"
      /\ \A a \in PktAddrs : ~sync[a]
  BY OpenAtStart DEF Init, Sim!Init
<1>2. Content(sync_queue) = {} /\ Once(sync_queue)
  <2>1. DOMAIN sync_queue = Hosts
    BY DEF Init, Sim!Init
  <2>2. \A h \in DOMAIN sync_queue : DOMAIN sync_queue[h] = {} /\ Items(sync_queue[h]) = {}
    BY <1>1, <2>1 DEF Items
  <2> QED BY <2>2 DEF Content, Once
<1>3. \A k, a : ~Past(prog, k, a)
  <2>1. \A h \in Hosts : prog[h] \in Seq(Packet) /\ ToCome(h) = prog[h]
    BY QueuesAtStart, HostAssumption
  <2>2. \A h \in Hosts : Taken(prog[h], ToCome(h)) = 0
    BY <2>1, EndAtStart
  <2> QED BY <2>2 DEF Past
<1> QED BY <1>1, <1>2, <1>3 DEF SignalInv, ReadBegun

(* A step keeps the invariants a clean stop rests on together. *)
LEMMA EndsStep ==
  ASSUME PacketsOnce, TracesEnd
  PROVE  EndHolds /\ [Next]_vars => EndHolds'
<1> SUFFICES ASSUME EndHolds, [Next]_vars PROVE EndHolds'
  OBVIOUS
<1>1. ThreadsHold /\ ThreadsHold'
  BY ThreadsStep DEF EndHolds
<1>2. TypeInv /\ TypeInv' /\ OnceInv /\ WritesInv
  BY <1>1 DEF ThreadsHold, ReadsHold, CountsHold, FlowHolds
<1>3. CoresInv'
  BY <1>2, CoresStep DEF EndHolds
<1>4. PICK prog \in Programs : FlowInv(prog) /\ SignalInv(prog)
  BY DEF EndHolds
<1>5. FlowInv(prog)'
  BY <1>2, <1>4, OnceIsOwn, FlowStep
<1>6. SignalInv(prog)'
  BY <1>2, <1>4, SignalStep
<1> QED BY <1>1, <1>3, <1>5, <1>6 DEF EndHolds

(* They hold in every reachable state. *)
LEMMA EndsAlways ==
  ASSUME PacketsOnce, TracesEnd
  PROVE  Spec => []EndHolds
<1>1. Init => ThreadsHold
  <2>1. Init => CountsHold
    BY TypeInvInit, FlowInit, OpenAtStart DEF CountsHold, FlowHolds
  <2> QED BY <2>1, ReadAtStart, ThreadAtStart DEF ThreadsHold, ReadsHold
<1>2. Init => \E prog \in Programs : FlowInv(prog) /\ SignalInv(prog)
  BY FlowInit, SignalAtStart
<1>3. Init => EndHolds
  BY <1>1, <1>2, CoresAtStart DEF EndHolds
<1>4. EndHolds /\ [Next]_vars => EndHolds'
  BY EndsStep
<1> QED BY <1>3, <1>4, PTL DEF Spec

(* When every trace is taken, every signal has been raised and used. *)
LEMMA SignalsDone ==
  ASSUME WritesRead, NEW prog \in Programs, SignalInv(prog),
         \A h \in Hosts : Taken(prog[h], ToCome(h)) = Len(prog[h])
  PROVE  \A a \in PktAddrs : ~sync[a] /\ a \notin Content(sync_queue)
<1> SUFFICES ASSUME NEW a \in PktAddrs, Past(prog, "W", a)
             PROVE  ~sync[a] /\ a \notin Content(sync_queue)
  BY DEF SignalInv
<1>1. \A h \in Hosts : DOMAIN prog[h] = 1 .. Taken(prog[h], ToCome(h))
  <2> TAKE h \in Hosts
  <2>1. prog[h] \in Seq(Packet)
    BY HostAssumption
  <2> QED BY <2>1, SeqFacts
<1>2. PICK h \in Hosts : \E i \in DOMAIN prog[h] : prog[h][i].type = "W" /\ prog[h][i].addr = a
  BY <1>1 DEF Past
<1>3. \E g \in Hosts : \E j \in DOMAIN prog[g] : prog[g][j].type = "R" /\ prog[g][j].addr = a
  BY <1>2 DEF WritesRead
<1>4. ReadBegun(prog, a)
  BY <1>1, <1>3 DEF ReadBegun, Past
<1> QED BY <1>4 DEF SignalInv

(* When sc_stop is called (sim_wrapper.cpp, periodic_process) nothing is  *)
(* left under way, although neither the thread that ends nor the DRAM     *)
(* thread that lets it looks at the queues of the wrappers, the ports and *)
(* the controller: the last thread to leave has read what it waited for,  *)
(* and every write has been waited for.                                   *)
THEOREM StopsClean ==
  ASSUME PacketsOnce, TracesEnd, WritesRead
  PROVE  Spec => []StopIsClean
<1>1. EndHolds => StopIsClean
  <2> SUFFICES ASSUME EndHolds, stopped
               PROVE  /\ Open = {}
                      /\ \A h \in Hosts : toSim[h] = <<>> /\ sync_queue[h] = <<>>
                                          /\ pc[h] = "exited"
                      /\ \A a \in PktAddrs : ~sync[a]
    BY DEF StopIsClean
  <2>1. /\ TypeInv /\ ReadInv /\ ThreadInv /\ OnceInv /\ WritesInv /\ CoresInv
        /\ \A h \in Hosts : ReadPhase(h)
    BY DEF EndHolds, ThreadsHold, ReadsHold, CountsHold, FlowHolds, ReadInv
  <2>2. PICK prog \in Programs : FlowInv(prog) /\ SignalInv(prog)
    BY DEF EndHolds
  <2>3. \A h \in Hosts : pc[h] = "exited"
    BY <2>1 DEF CoresInv, Running
  <2>4. \A h \in Hosts : ToCome(h) = <<>>
    BY <2>1, <2>3 DEF ThreadInv
  <2>5. \A h \in Hosts : toSim[h] = <<>>
    <3> TAKE h \in Hosts
    <3>1. InHand(h) = <<>> /\ toSim[h] \in Seq(Packet) /\ trace[h] \in Seq(Packet)
      BY <2>1, <2>3 DEF InHand, TypeInv, HostTyped
    <3>2. toSim[h] \o trace[h] \in Seq(Packet) /\ Len(toSim[h] \o trace[h]) = Len(toSim[h]) + Len(trace[h])
      BY <3>1, ConcatFacts
    <3>3. toSim[h] \o trace[h] = <<>>
      BY <2>4, <3>1, <3>2, ConcatEmptySeq DEF ToCome
    <3>4. Len(toSim[h]) \in Nat /\ Len(trace[h]) \in Nat /\ Len(<<>>) = 0
      BY <3>1, SeqFacts, EmptySeq
    <3>5. Len(toSim[h]) = 0
      BY <3>2, <3>3, <3>4
    <3> QED BY <3>1, <3>5, SeqFacts
  <2>6. \A a \in PktAddrs : ~sync[a] /\ a \notin Content(sync_queue)
    <3>1. \A h \in Hosts : Taken(prog[h], ToCome(h)) = Len(prog[h])
      <4> TAKE h \in Hosts
      <4>1. Len(prog[h]) \in Nat
        BY HostAssumption, SeqFacts
      <4>2. Len(ToCome(h)) = 0
        BY <2>4, EmptySeq
      <4> QED BY <4>1, <4>2 DEF Taken
    <3> QED BY <2>2, <3>1, SignalsDone
  <2>7. \A h \in Hosts : sync_queue[h] = <<>>
    <3> SUFFICES ASSUME NEW h \in Hosts, sync_queue[h] # <<>> PROVE FALSE
      OBVIOUS
    <3>1. sync_queue[h] \in Seq(PktAddrs) /\ DOMAIN sync_queue = Hosts
      BY <2>1 DEF WritesInv, WritesAdd, TypeInv, BurstsTyped
    <3>2. Head(sync_queue[h]) \in PktAddrs /\ Head(sync_queue[h]) \in Items(sync_queue[h])
      BY <3>1, TailFacts
    <3>3. Head(sync_queue[h]) \in Content(sync_queue)
      BY <3>1, <3>2, InContent
    <3> QED BY <2>6, <3>2, <3>3
  <2>8. \A h \in Hosts : OpenOf(h, "W") = {}
    <3> TAKE h \in Hosts
    <3> DEFINE w == wack_num[h]
               n == Cardinality(OpenOf(h, "W"))
    <3>1. PayloadNum * Len(sync_queue[h]) = w + n
      BY <2>1 DEF WritesInv, WritesAdd
    <3>2. Len(sync_queue[h]) = 0 /\ PayloadNum \in Nat
      BY <2>7, EmptySeq, TlmAssumption
    <3>3. w \in Nat /\ n \in Nat /\ IsFiniteSet(OpenOf(h, "W"))
      BY <2>1, OpenOfFinite, TlmAssumption DEF TypeInv, BurstsTyped, Slices
    <3> HIDE DEF w, n
    <3>4. n = 0
      BY <3>1, <3>2, <3>3
    <3> QED BY <3>3, <3>4, FS_EmptySet DEF n
  <2>9. \A h \in Hosts : OpenOf(h, "R") = {}
    <3> TAKE h \in Hosts
    <3>1. ReadParts(h) = 0
      BY <2>1, <2>3, <2>5 DEF ReadPhase, Idle, Asked, Syncing, Fetching, Replied, LastRead, Reading
    <3> QED BY <2>1, <3>1, ReadPartsTyped
  <2>10. Open = {}
    <3> SUFFICES ASSUME NEW p \in Open PROVE FALSE
      OBVIOUS
    <3>1. p \in Payload
      BY <2>1, <2>2, OpenKnown
    <3>2. p.id \in Hosts /\ p.cmd \in {"R", "W"}
      BY <3>1 DEF Payload
    <3>3. p \in OpenOf(p.id, p.cmd)
      BY DEF OpenOf
    <3> QED BY <2>8, <2>9, <3>2, <3>3
  <2> QED BY <2>3, <2>5, <2>6, <2>7, <2>10
<1> QED BY <1>1, EndsAlways, PTL

-----------------------------------------------------------------------------
(* Writes arrive in the order they were cut in *)

(* The addresses in a queue after a push or a pop. *)
LEMMA AddrsFacts ==
  ASSUME NEW S, NEW q \in Seq(S), NEW r \in Seq(S)
  PROVE  /\ AddrsIn(q \o r) = AddrsIn(q) \cup AddrsIn(r)
         /\ q # <<>> => AddrsIn(q) = {Head(q).addr} \cup AddrsIn(Tail(q))
         /\ \A x \in S : AddrsIn(Append(q, x)) = AddrsIn(q) \cup {x.addr}
         /\ AddrsIn(<<>>) = {}
         /\ \A a : a \in AddrsIn(q) <=> \E i \in DOMAIN q : q[i].addr = a
<1>1. Items(q \o r) = Items(q) \cup Items(r)
  BY ConcatFacts
<1>2. q # <<>> => Items(q) = {Head(q)} \cup Items(Tail(q))
  BY TailFacts
<1>3. \A x \in S : Items(Append(q, x)) = Items(q) \cup {x}
  BY AppendFacts
<1>4. Items(<<>>) = {}
  BY DEF Items
<1>5. \A a : a \in AddrsIn(q) <=> \E i \in DOMAIN q : q[i].addr = a
  BY DEF AddrsIn, Items
<1> QED BY <1>1, <1>2, <1>3, <1>4, <1>5 DEF AddrsIn

(* An address followed by one of a set is followed by one of a larger set. *)
LEMMA FollowsMore ==
  ASSUME NEW s, NEW a, NEW b, NEW X, NEW Y, X \subseteq Y, Follows(s, X, a, b)
  PROVE  Follows(s, Y, a, b)
BY DEF Follows

(* A pop keeps the order of the addresses that stay. *)
LEMMA FollowsTail ==
  ASSUME NEW S, NEW q \in Seq(S), q # <<>>, NEW X, NEW a, NEW b, Follows(q, X, a, b)
  PROVE  Follows(Tail(q), X, a, b)
<1> SUFFICES ASSUME NEW i \in DOMAIN Tail(q), Tail(q)[i].addr = a, b \notin X
             PROVE  \E j \in DOMAIN Tail(q) : j > i /\ Tail(q)[j].addr = b
  BY DEF Follows
<1> DEFINE n == Len(q)
           r == Tail(q)
<1>1. /\ r \in Seq(S) /\ n \in Nat \ {0} /\ Len(r) = n - 1
      /\ \A k \in 1 .. n - 1 : r[k] = q[k + 1]
  BY TailFacts
<1>2. DOMAIN r = 1 .. n - 1 /\ DOMAIN q = 1 .. n
  BY <1>1, SeqFacts
<1> HIDE DEF n, r
<1>3. i \in 1 .. n - 1 /\ i + 1 \in 1 .. n /\ q[i + 1].addr = a
  BY <1>1, <1>2 DEF r
<1>4. PICK j \in 1 .. n : j > i + 1 /\ q[j].addr = b
  BY <1>2, <1>3 DEF Follows
<1>5. j - 1 \in 1 .. n - 1 /\ j - 1 > i /\ (j - 1) + 1 = j
  BY <1>1, <1>3, <1>4
<1>6. r[j - 1].addr = b
  BY <1>1, <1>4, <1>5
<1> QED BY <1>2, <1>5, <1>6 DEF r

(* What is put behind s is not at a; it may be what has to follow. *)
LEMMA FollowsConcat ==
  ASSUME NEW S, NEW q \in Seq(S), NEW r \in Seq(S), NEW X, NEW a, NEW b,
         a \notin AddrsIn(r), Follows(q, X, a, b) \/ b \in AddrsIn(r)
  PROVE  Follows(q \o r, X, a, b)
<1> DEFINE p == q \o r
           n == Len(q)
           m == Len(r)
<1>1. /\ p \in Seq(S) /\ Len(p) = n + m
      /\ \A i \in 1 .. n : p[i] = q[i]
      /\ \A i \in 1 .. m : p[n + i] = r[i]
  BY ConcatFacts
<1>2. /\ n \in Nat /\ m \in Nat /\ DOMAIN q = 1 .. n /\ DOMAIN r = 1 .. m
      /\ DOMAIN p = 1 .. n + m
  BY <1>1, SeqFacts
<1>3. \A x : x \in AddrsIn(r) <=> \E i \in 1 .. m : r[i].addr = x
  BY <1>2, AddrsFacts
<1> SUFFICES ASSUME NEW i \in 1 .. n + m, p[i].addr = a, b \notin X
             PROVE  \E j \in 1 .. n + m : j > i /\ p[j].addr = b
  BY <1>2 DEF Follows
<1> HIDE DEF p, n, m
<1>4. i \in 1 .. n
  <2>1. CASE i > n
    <3>1. i - n \in 1 .. m /\ n + (i - n) = i
      BY <1>2, <2>1
    <3> QED BY <1>1, <1>3, <3>1
  <2> QED BY <1>2, <2>1
<1>5. q[i].addr = a
  BY <1>1, <1>4
<1>6. CASE Follows(q, X, a, b)
  <2>1. PICK j \in 1 .. n : j > i /\ q[j].addr = b
    BY <1>2, <1>4, <1>5, <1>6 DEF Follows
  <2>2. j \in 1 .. n + m /\ p[j] = q[j]
    BY <1>1, <1>2
  <2> QED BY <2>1, <2>2
<1>7. CASE b \in AddrsIn(r)
  <2>1. PICK j \in 1 .. m : r[j].addr = b
    BY <1>3, <1>7
  <2>2. n + j \in 1 .. n + m /\ n + j > i /\ p[n + j] = r[j]
    BY <1>1, <1>2, <1>4
  <2> QED BY <2>1, <2>2
<1> QED BY <1>6, <1>7

(* The first of r goes to the end of q. *)
LEMMA FollowsMove ==
  ASSUME NEW S, NEW q \in Seq(S), NEW r \in Seq(S), r # <<>>, NEW X, NEW a, NEW b,
         Follows(q, X \cup AddrsIn(r), a, b), Follows(r, X, a, b)
  PROVE  Follows(Append(q, Head(r)), X \cup AddrsIn(Tail(r)), a, b)
<1> DEFINE p == Append(q, Head(r))
           n == Len(q)
           m == Len(r)
<1>1. /\ Head(r) = r[1] /\ Head(r) \in S /\ m \in Nat \ {0} /\ DOMAIN r = 1 .. m
      /\ Tail(r) \in Seq(S) /\ AddrsIn(r) = {Head(r).addr} \cup AddrsIn(Tail(r))
      /\ \A i \in 1 .. m - 1 : Tail(r)[i] = r[i + 1]
      /\ DOMAIN Tail(r) = 1 .. m - 1
  <2>1. Tail(r) \in Seq(S) /\ Len(Tail(r)) = m - 1
    BY TailFacts
  <2>2. DOMAIN Tail(r) = 1 .. m - 1 /\ DOMAIN r = 1 .. m
    BY <2>1, SeqFacts
  <2> QED BY <2>1, <2>2, TailFacts, AddrsFacts
<1>2. /\ p \in Seq(S) /\ Len(p) = n + 1 /\ p[n + 1] = Head(r)
      /\ \A i \in 1 .. n : p[i] = q[i]
  BY <1>1, AppendFacts
<1>3. n \in Nat /\ DOMAIN q = 1 .. n /\ DOMAIN p = 1 .. n + 1
  BY <1>2, SeqFacts
<1>4. \A x : x \in AddrsIn(Tail(r)) <=> \E i \in 1 .. m - 1 : Tail(r)[i].addr = x
  <2> DEFINE t == Tail(r)
  <2>1. t \in Seq(S) /\ DOMAIN t = 1 .. m - 1
    BY <1>1
  <2> HIDE DEF t, m
  <2>2. \A x : x \in AddrsIn(t) <=> \E i \in DOMAIN t : t[i].addr = x
    BY DEF AddrsIn, Items
  <2> QED BY <2>1, <2>2 DEF t
<1> HIDE DEF p, n, m
<1> SUFFICES ASSUME NEW i \in 1 .. n + 1, p[i].addr = a,
                    b \notin X, b \notin AddrsIn(Tail(r))
             PROVE  \E j \in 1 .. n + 1 : j > i /\ p[j].addr = b
  BY <1>3 DEF Follows, p
<1>5. CASE i = n + 1
  <2>1. r[1].addr = a /\ 1 \in 1 .. m
    BY <1>1, <1>2, <1>5
  <2>2. PICK j \in 1 .. m : j > 1 /\ r[j].addr = b
    BY <1>1, <2>1 DEF Follows
  <2>3. j - 1 \in 1 .. m - 1 /\ (j - 1) + 1 = j
    BY <1>1, <2>2
  <2>4. Tail(r)[j - 1].addr = b
    BY <1>1, <2>2, <2>3
  <2> QED BY <1>4, <2>3, <2>4
<1>6. CASE i \in 1 .. n
  <2>1. q[i].addr = a
    BY <1>2, <1>6
  <2>2. b \in AddrsIn(r) \/ \E j \in 1 .. n : j > i /\ q[j].addr = b
    BY <1>3, <1>6, <2>1 DEF Follows
  <2>3. CASE b \in AddrsIn(r)
    <3>1. p[n + 1].addr = b
      BY <1>1, <1>2, <2>3
    <3> QED BY <1>3, <1>6, <3>1
  <2>4. CASE \E j \in 1 .. n : j > i /\ q[j].addr = b
    <3>1. PICK j \in 1 .. n : j > i /\ q[j].addr = b
      BY <2>4
    <3>2. j \in 1 .. n + 1 /\ p[j] = q[j]
      BY <1>2, <1>3
    <3> QED BY <3>1, <3>2
  <2> QED BY <2>2, <2>3, <2>4
<1> QED BY <1>3, <1>5, <1>6

(* The steps of the system, grouped by what they do to writes on their way to the
   memory. *)
LEMMA WaySteps ==
  ASSUME TypeInv, [Next]_vars
  PROVE  WayStill \/ WayOut \/ \E h \in Hosts : WayCut(h) \/ WayOnward(h) \/ WayDown(h)
<1>1. DOMAIN pc = Hosts
  BY DEF TypeInv, ControlTyped
<1>2. \A h \in Hosts : /\ pc[h] \in {"sync", "free", "read"} => pkt[h].type = "R"
                       /\ pc[h] = "write" => pkt[h].type = "W"
                       /\ pc[h] = "terminate" => pkt[h].type = "T"
                       /\ pkt[h] \in Packet
  BY DEF TypeInv, ControlTyped
<1>3. ASSUME UNCHANGED pc PROVE NoCut
  BY <1>3 DEF NoCut, Takes
<1>4. ASSUME NEW h \in Hosts, pc[h] # "write", \A g \in Hosts : g # h => pc'[g] = pc[g]
      PROVE  NoCut
  BY <1>2, <1>4 DEF NoCut, Takes, HoldsPacket
<1>5. ASSUME NEW h \in Hosts, Silent(h) PROVE WayStill
  <2>1. UNCHANGED <<w_queue, fw_w, c_w, mem_data, sync_queue>>
    BY <1>5 DEF Silent, payloadVars, burstVars, linkVars, switchVars, memVars
  <2>2. CASE Send(h) \/ GetResponse(h)
    <3>1. UNCHANGED pc
      BY <2>2 DEF Send, GetResponse, simVars
    <3> QED BY <1>3, <2>1, <3>1 DEF WayStill
  <2>3. CASE Receive(h)
    <3>1. pc[h] # "write" /\ \A g \in Hosts : g # h => pc'[g] = pc[g]
      BY <1>1, <2>3 DEF Receive, Sim!Receive
    <3> QED BY <1>4, <2>1, <3>1 DEF WayStill
  <2>4. CASE ThreadAlone(h)
    <3>1. CASE Sim!Spin(h) \/ Sim!Stop(h)
      <4>1. UNCHANGED pc
        BY <3>1 DEF Sim!Spin, Sim!Stop
      <4> QED BY <1>3, <2>1, <4>1 DEF WayStill
    <3>2. CASE ~(Sim!Spin(h) \/ Sim!Stop(h))
      <4>1. pc[h] # "write" /\ \A g \in Hosts : g # h => pc'[g] = pc[g]
        BY <1>1, <2>4, <3>2 DEF ThreadAlone, Sim!CheckSignal, Sim!FreeSignal,
                                Sim!HandleTerminate, Sim!LeaveCore, Sim!Step
      <4> QED BY <1>4, <2>1, <4>1 DEF WayStill
    <3> QED BY <3>1, <3>2
  <2> QED BY <1>5, <2>2, <2>3, <2>4 DEF Silent
<1>6. ASSUME NEW h \in Hosts, ReadCut(h) PROVE WayStill
  <2>1. /\ pc[h] = "read" /\ pc' = [pc EXCEPT ![h] = "poll"]
        /\ UNCHANGED <<w_queue, sync_queue, fw_w, c_w, mem_data>>
    BY <1>6, HandleReadDoes DEF ReadCut, linkVars, switchVars, memVars
  <2>2. pc[h] # "write" /\ \A g \in Hosts : g # h => pc'[g] = pc[g]
    BY <1>1, <2>1
  <2> QED BY <1>4, <2>1, <2>2 DEF WayStill
<1>7. ASSUME NEW h \in Hosts, WriteCut(h) PROVE WayCut(h)
  <2>1. /\ pc[h] = "write" /\ pc' = [pc EXCEPT ![h] = "poll"]
        /\ w_queue' = [w_queue EXCEPT ![h] = w_queue[h] \o WritePayloads(h, pkt[h])]
        /\ sync_queue' = [sync_queue EXCEPT ![h] = Append(sync_queue[h], pkt[h].addr)]
        /\ UNCHANGED <<fw_w, c_w, mem_data>>
    BY <1>7, HandleWriteDoes DEF WriteCut, linkVars, switchVars, memVars
  <2>2. Takes(h) /\ \A g \in Hosts : Takes(g) => g = h
    BY <1>1, <2>1 DEF Takes, HoldsPacket
  <2> QED BY <1>2, <1>7, <2>1, <2>2 DEF WayCut
<1>8. ASSUME NEW h \in Hosts, SimNegedge(h) PROVE WayOnward(h)
  <2>1. NegedgeQueues(h) /\ NegedgeBursts(h) /\ NegedgeControl(h)
    BY <1>8, NegedgeDoes
  <2>2. UNCHANGED pc
    BY <2>1 DEF NegedgeControl
  <2>3. NoCut
    BY <1>3, <2>2
  <2> QED BY <1>8, <2>1, <2>3 DEF WayOnward, NegedgeQueues, NegedgeBursts, switchVars, memVars
<1>9. ASSUME NEW h \in Hosts, LinkForward(h) PROVE WayStill \/ WayDown(h)
  <2>1. UNCHANGED <<pc, w_queue, sync_queue, mem_data>>
    BY <1>9, ForwardDoes DEF simVars, memVars
  <2>2. NoCut
    BY <1>3, <2>1
  <2> QED BY <1>9, <2>1, <2>2, ForwardDoes DEF WayStill, WayDown
<1>10. ASSUME SwitchForward PROVE WayStill \/ WayOut
  <2>1. UNCHANGED <<pc, w_queue, sync_queue, fw_w>>
    BY <1>10, SwitchForwardDoes DEF simVars, linkVars
  <2>2. NoCut
    BY <1>3, <2>1
  <2> QED BY <1>10, <2>1, <2>2, SwitchForwardDoes DEF WayStill, WayOut
<1>11. ASSUME NEW h \in Hosts, SimPosedge(h) \/ LinkBackward(h) PROVE WayStill
  <2>1. CASE SimPosedge(h)
    <3>1. UNCHANGED <<pc, w_queue, sync_queue, fw_w, c_w, mem_data>>
      BY <2>1, PosedgeDoes DEF PosedgeQueues, burstVars, controlVars, switchVars, memVars
    <3> QED BY <1>3, <3>1 DEF WayStill
  <2>2. CASE LinkBackward(h)
    <3>1. UNCHANGED <<pc, w_queue, sync_queue, fw_w, c_w, mem_data>>
      BY <2>2, BackwardDoes DEF burstVars, controlVars, switchVars, memVars
    <3> QED BY <1>3, <3>1 DEF WayStill
  <2> QED BY <1>11, <2>1, <2>2
<1>12. ASSUME UNCHANGED vars \/ MemPosedge \/ SimulateDram \/ MemNegedge \/ SwitchBackward
       PROVE  WayStill
  <2>1. UNCHANGED simVars
    BY <1>12 DEF vars, MemPosedge, SimulateDram, MemNegedge, SwitchBackward
  <2>2. UNCHANGED <<fw_w, c_w, mem_data>>
    <3>1. UNCHANGED vars => UNCHANGED <<fw_w, c_w, mem_data>>
      BY DEF vars, linkVars, switchVars, memVars
    <3>2. MemPosedge => UNCHANGED <<fw_w, c_w, mem_data>>
      BY MemPosedgeDoes DEF linkVars, switchVars
    <3>3. SimulateDram => UNCHANGED <<fw_w, c_w, mem_data>>
      BY SimulateDramDoes DEF linkVars, switchVars
    <3>4. MemNegedge => UNCHANGED <<fw_w, c_w, mem_data>>
      BY MemNegedgeDoes DEF linkVars, switchVars
    <3>5. SwitchBackward => UNCHANGED <<fw_w, c_w, mem_data>>
      BY SwitchBackwardDoes DEF memVars
    <3> QED BY <1>12, <3>1, <3>2, <3>3, <3>4, <3>5
  <2> QED BY <1>3, <2>1, <2>2 DEF WayStill, simVars
<1> QED BY <1>5, <1>6, <1>7, <1>8, <1>9, <1>10, <1>11, <1>12, NextCases

(* A packet address together with a slice is one payload of one write. *)
LEMMA WritesOnce ==
  ASSUME PacketsOnce, NEW prog \in Programs, EndInv(prog), NEW g \in Hosts, NEW h \in Hosts,
         NEW v \in Writes(prog, g), NEW w \in Writes(prog, h),
         NEW i \in Slices, NEW j \in Slices, v.addr + i = w.addr + j
  PROVE  g = h /\ v = w
<1>1. \A f \in Hosts : /\ prog[f] \in Seq(Packet)
                       /\ \A k \in 1 .. Taken(prog[f], ToCome(f)) : k \in DOMAIN prog[f]
  <2> TAKE f \in Hosts
  <2>1. prog[f] \in Seq(Packet)
    BY HostAssumption
  <2>2. DOMAIN prog[f] = 1 .. Len(prog[f]) /\ Len(prog[f]) \in Nat
    BY <2>1, SeqFacts
  <2>3. IsEndOf(ToCome(f), prog[f])
    BY DEF EndInv
  <2>4. Len(ToCome(f)) \in Nat
    BY <2>3, SeqFacts DEF IsEndOf
  <2>5. Taken(prog[f], ToCome(f)) <= Len(prog[f]) /\ Taken(prog[f], ToCome(f)) \in Int
    BY <2>2, <2>4 DEF Taken
  <2> DEFINE t == Taken(prog[f], ToCome(f))
             n == Len(prog[f])
  <2> HIDE DEF t, n
  <2>6. \A k \in 1 .. t : k \in 1 .. n
    BY <2>2, <2>5 DEF t, n
  <2> QED BY <2>1, <2>2, <2>6 DEF t, n
<1>2. PICK k \in DOMAIN prog[g] : v = prog[g][k] /\ prog[g][k].type = "W"
  BY <1>1 DEF Writes
<1>3. PICK m \in DOMAIN prog[h] : w = prog[h][m] /\ prog[h][m].type = "W"
  BY <1>1 DEF Writes
<1>4. v.addr + i \in PacketAddrs(v.addr) /\ w.addr + j \in PacketAddrs(w.addr)
  BY DEF PacketAddrs
<1>5. Overlap(prog[g][k], prog[h][m])
  BY <1>2, <1>3, <1>4 DEF Overlap
<1> QED BY <1>2, <1>3, <1>5 DEF PacketsOnce

(* The writes a host has handled are write packets of its program. *)
LEMMA WritesTyped ==
  ASSUME NEW prog \in Programs, EndInv(prog), NEW h \in Hosts, NEW w \in Writes(prog, h)
  PROVE  w \in Packet /\ w.type = "W" /\ w.addr \in PktAddrs /\ w.tag \in Tags
<1>1. prog[h] \in Seq(Packet) /\ IsEndOf(ToCome(h), prog[h])
  BY HostAssumption DEF EndInv
<1>2. DOMAIN prog[h] = 1 .. Len(prog[h]) /\ Len(prog[h]) \in Nat /\ Len(ToCome(h)) \in Nat
  BY <1>1, SeqFacts DEF IsEndOf
<1> DEFINE t == Taken(prog[h], ToCome(h))
           n == Len(prog[h])
<1>3. t \in Int /\ t <= n /\ n \in Nat
  BY <1>2 DEF Taken
<1> HIDE DEF t, n
<1>4. \A k \in 1 .. t : k \in 1 .. n
  BY <1>3
<1>5. PICK k \in 1 .. n : w = prog[h][k] /\ prog[h][k].type = "W"
  BY <1>4 DEF Writes, t
<1>6. w \in Packet /\ w.type = "W"
  BY <1>1, <1>5, SeqFacts DEF n
<1> QED BY <1>6 DEF Packet

(* A host has handled one write more when it cuts one, and no more in any other
   step. *)
LEMMA WritesNext ==
  ASSUME PacketsOnce, NEW prog \in Programs, TypeInv, TypeInv', [Next]_vars, EndInv(prog)
  PROVE  /\ NoCut => \A h \in Hosts : Writes(prog, h)' = Writes(prog, h)
         /\ \A h \in Hosts : WayCut(h) =>
              /\ Writes(prog, h)' = Writes(prog, h) \cup {pkt[h]}
              /\ \A g \in Hosts : g # h => Writes(prog, g)' = Writes(prog, g)
<1> DEFINE t(h) == Taken(prog[h], ToCome(h))
<1>1. \A h \in Hosts : /\ t(h) \in Nat /\ t(h)' = IF Takes(h) THEN t(h) + 1 ELSE t(h)
                       /\ Takes(h) => prog[h][t(h) + 1] = pkt[h]
  BY EndStep DEF Takes
<1>2. \A h \in Hosts : /\ Writes(prog, h) = {prog[h][i] : i \in {j \in 1 .. t(h) : prog[h][j].type = "W"}}
                       /\ Writes(prog, h)' = {prog[h][i] : i \in {j \in 1 .. t(h)' : prog[h][j].type = "W"}}
  BY DEF Writes
<1> HIDE DEF t
<1>3. \A h \in Hosts : ~Takes(h) => Writes(prog, h)' = Writes(prog, h)
  BY <1>1, <1>2
<1>4. ASSUME NEW h \in Hosts, Takes(h)
      PROVE  Writes(prog, h)' = Writes(prog, h) \cup (IF pkt[h].type = "W" THEN {pkt[h]} ELSE {})
  <2>1. \A i : i \in 1 .. t(h)' <=> i \in 1 .. t(h) \/ i = t(h) + 1
    BY <1>1, <1>4
  <2> QED BY <1>1, <1>2, <1>4, <2>1
<1>5. NoCut => \A h \in Hosts : Writes(prog, h)' = Writes(prog, h)
  BY <1>3, <1>4 DEF NoCut
<1>6. ASSUME NEW h \in Hosts, WayCut(h)
      PROVE  /\ Writes(prog, h)' = Writes(prog, h) \cup {pkt[h]}
             /\ \A g \in Hosts : g # h => Writes(prog, g)' = Writes(prog, g)
  BY <1>3, <1>4, <1>6 DEF WayCut
<1> QED BY <1>5, <1>6

(* What is at an address on the way of the writes is a payload of the one *)
(* write at it.                                                           *)
LEMMA WayOwner ==
  ASSUME PacketsOnce, NEW prog \in Programs, EndInv(prog), NEW p \in Payload, p.cmd = "W",
         Known(prog, p), NEW h \in Hosts, NEW w \in Writes(prog, h), NEW i \in Slices,
         p.addr = w.addr + i
  PROVE  p.id = h /\ p.data = <<w.tag, i>>
<1>1. p.id \in Hosts
  BY DEF Payload
<1>2. PICK k \in 1 .. Taken(prog[p.id], ToCome(p.id)) : Covers(prog[p.id][k], p)
  BY DEF Known
<1> DEFINE v == prog[p.id][k]
<1>3. v.type = "W" /\ p.addr \in PacketAddrs(v.addr) /\ p.data = <<v.tag, p.addr - v.addr>>
  BY <1>2 DEF Covers
<1>4. v \in Writes(prog, p.id)
  BY <1>2, <1>3 DEF Writes
<1>5. PICK j \in Slices : p.addr = v.addr + j
  BY <1>3 DEF PacketAddrs
<1> HIDE DEF v
<1>6. p.id = h /\ v = w
  BY <1>1, <1>4, <1>5, WritesOnce
<1>7. w.addr \in Nat /\ i \in Nat
  <2>1. w.addr \in PktAddrs
    BY WritesTyped
  <2>2. w.addr \in Nat
    BY <2>1, TlmAssumption
  <2>3. i \in Nat
    BY TlmAssumption DEF Slices
  <2> QED BY <2>2, <2>3
<1>8. p.addr - w.addr = i
  BY <1>7
<1> QED BY <1>3, <1>6, <1>8

(* The payloads on their way to the memory are known writes. *)
LEMMA WayFits ==
  ASSUME NEW prog \in Programs, TypeInv, FlowInv(prog), NEW h \in Hosts
  PROVE  /\ \A p \in Items(w_queue[h]) \cup Items(fw_w[h]) :
              p \in Payload /\ p.cmd = "W" /\ p.id = h /\ Known(prog, p)
         /\ \A p \in Items(c_w) : p \in Payload /\ p.cmd = "W" /\ Known(prog, p)
<1>1. /\ <<"w_queue", h>> \in Places /\ <<"fw_w", h>> \in Places /\ NoOf("c_w") \in Places
      /\ Queues[<<"w_queue", h>>] = w_queue[h] /\ Queues[<<"fw_w", h>>] = fw_w[h]
      /\ Queues[NoOf("c_w")] = c_w
  BY AtPlaces DEF PlacesRead, Places, HostPlaces, SharedPlaces, NoOf
<1>2. h # NoHost
  BY TlmAssumption
<1>3. /\ w_queue[h] \in Seq(Fits(prog, <<"w_queue", h>>))
      /\ fw_w[h] \in Seq(Fits(prog, <<"fw_w", h>>))
      /\ c_w \in Seq(Fits(prog, NoOf("c_w")))
  BY <1>1 DEF FlowInv
<1>4. /\ Items(w_queue[h]) \subseteq Fits(prog, <<"w_queue", h>>)
      /\ Items(fw_w[h]) \subseteq Fits(prog, <<"fw_w", h>>)
      /\ Items(c_w) \subseteq Fits(prog, NoOf("c_w"))
  BY <1>3, SeqFacts
<1> QED BY <1>2, <1>4 DEF Fits, WritePlaces, NoOf

(* The packet being cut has no payload in common with those cut before. *)
LEMMA CutApart ==
  ASSUME PacketsOnce, NEW prog \in Programs, TypeInv, TypeInv', [Next]_vars, EndInv(prog),
         NEW h \in Hosts, WayCut(h), NEW g \in Hosts, NEW v \in Writes(prog, g),
         NEW i \in Slices, NEW j \in Slices
  PROVE  v.addr + i # pkt[h].addr + j
<1> SUFFICES ASSUME v.addr + i = pkt[h].addr + j PROVE FALSE
  OBVIOUS
<1> DEFINE t(f) == Taken(prog[f], ToCome(f))
<1>1. /\ t(h) \in Nat /\ t(h) + 1 \in 1 .. Len(prog[h]) /\ prog[h][t(h) + 1] = pkt[h]
  BY EndStep DEF WayCut, Takes
<1>2. prog[g] \in Seq(Packet) /\ prog[h] \in Seq(Packet)
  BY HostAssumption
<1>3. DOMAIN prog[g] = 1 .. Len(prog[g]) /\ DOMAIN prog[h] = 1 .. Len(prog[h]) /\ Len(prog[g]) \in Nat
  BY <1>2, SeqFacts
<1>4. PICK k \in 1 .. t(g) : v = prog[g][k] /\ prog[g][k].type = "W"
  BY DEF Writes
<1>5. t(g) \in Nat /\ t(g) <= Len(prog[g])
  BY <1>2, EndTail DEF EndInv, IsEndOf, Taken
<1>6. v.addr + i \in PacketAddrs(v.addr) /\ pkt[h].addr + j \in PacketAddrs(pkt[h].addr)
  BY DEF PacketAddrs
<1>7. Overlap(prog[g][k], prog[h][t(h) + 1])
  BY <1>1, <1>4, <1>6 DEF Overlap, WayCut
<1> DEFINE n == Len(prog[g])
<1> HIDE DEF t, n
<1>8. k \in 1 .. n
  BY <1>3, <1>5 DEF n
<1>9. g = h /\ k = t(h) + 1
  BY <1>1, <1>3, <1>7, <1>8 DEF PacketsOnce, n
<1> QED BY <1>1, <1>9

(* A write packet is cut at the addresses it covers. *)
LEMMA CutAddrs ==
  ASSUME NEW h \in Hosts, NEW q \in Packet, q.type = "W"
  PROVE  AddrsIn(WritePayloads(h, q)) = PacketAddrs(q.addr)
<1> DEFINE s == WritePayloads(h, q)
<1>1. q.addr \in Nat
  BY TlmAssumption DEF Packet
<1>2. DOMAIN s = 1 .. PayloadNum /\ \A i \in 1 .. PayloadNum : s[i].addr = q.addr + i - 1
  BY DEF WritePayloads
<1>3. AddrsIn(s) = {s[i].addr : i \in 1 .. PayloadNum}
  BY <1>2 DEF AddrsIn, Items
<1> HIDE DEF s
<1>4. ASSUME NEW x \in AddrsIn(s) PROVE x \in PacketAddrs(q.addr)
  <2>1. PICK i \in 1 .. PayloadNum : x = q.addr + i - 1
    BY <1>2, <1>3
  <2>2. i - 1 \in Slices /\ x = q.addr + (i - 1)
    BY <1>1, <2>1, TlmAssumption DEF Slices
  <2> QED BY <2>2 DEF PacketAddrs
<1>5. ASSUME NEW x \in PacketAddrs(q.addr) PROVE x \in AddrsIn(s)
  <2>1. PICK i \in Slices : x = q.addr + i
    BY DEF PacketAddrs
  <2>2. i + 1 \in 1 .. PayloadNum /\ q.addr + (i + 1) - 1 = x
    BY <1>1, <2>1, TlmAssumption DEF Slices
  <2>3. s[i + 1].addr = x
    BY <1>2, <2>2
  <2> QED BY <1>3, <2>2, <2>3
<1> QED BY <1>4, <1>5 DEF s

(* An order on the way stays. *)
LEMMA OrderKept ==
  ASSUME PacketsOnce, NEW prog \in Programs, TypeInv, TypeInv', [Next]_vars, FlowInv(prog),
         NEW h \in Hosts, NEW v \in Writes(prog, h), NEW s \in Slices, NEW b,
         InOrder(h, v.addr + s, b)
  PROVE  InOrder(h, v.addr + s, b)'
<1> DEFINE a == v.addr + s
<1>1. EndInv(prog)
  BY DEF FlowInv
<1>2. /\ w_queue \in [Hosts -> Seq(Payload)] /\ fw_w \in [Hosts -> Seq(Payload)]
      /\ c_w \in Seq(Payload)
  BY DEF TypeInv, QueuesTyped, LinkTyped, SwitchTyped
<1>3. w_queue[h] \in Seq(Payload) /\ fw_w[h] \in Seq(Payload)
  BY <1>2
<1>4. /\ Follows(w_queue[h], {}, a, b)
      /\ Follows(fw_w[h], AddrsIn(w_queue[h]), a, b)
      /\ Follows(c_w, AddrsIn(w_queue[h]) \cup AddrsIn(fw_w[h]), a, b)
  BY DEF InOrder
<1>5. \A x : x \in Items(c_w) \/ (\E g \in Hosts : x \in Items(fw_w[g])) =>
        (x.addr = a => x \in Payload /\ x.id = h)
  BY <1>1, WayFits, WayOwner
<1> DEFINE w == w_queue'[h]
           f == fw_w'[h]
<1>6. InOrder(h, a, b)' <=> /\ Follows(w, {}, a, b) /\ Follows(f, AddrsIn(w), a, b)
                            /\ Follows(c_w', AddrsIn(w) \cup AddrsIn(f), a, b)
  BY DEF InOrder
<1>a. \A j \in Slices : \A g \in Hosts : WayCut(g) => a # pkt[g].addr + j
  BY <1>1, CutApart
<1> HIDE DEF a
<1>7. ASSUME WayStill PROVE InOrder(h, a, b)'
  BY <1>4, <1>6, <1>7 DEF WayStill
<1>8. ASSUME WayOut PROVE InOrder(h, a, b)'
  <2>1. w = w_queue[h] /\ f = fw_w[h] /\ c_w # <<>> /\ c_w' = Tail(c_w)
    BY <1>8 DEF WayOut
  <2>2. Follows(Tail(c_w), AddrsIn(w_queue[h]) \cup AddrsIn(fw_w[h]), a, b)
    BY <1>2, <1>4, <2>1, FollowsTail
  <2> QED BY <1>4, <1>6, <2>1, <2>2
<1>9. ASSUME NEW g \in Hosts, WayDown(g) PROVE InOrder(h, a, b)'
  <2> DEFINE x == Head(fw_w[g])
  <2>1. /\ fw_w[g] # <<>> /\ fw_w' = [fw_w EXCEPT ![g] = Tail(fw_w[g])]
        /\ c_w' = Append(c_w, x) /\ w = w_queue[h]
    BY <1>9 DEF WayDown
  <2>2. CASE g = h
    <3>1. f = Tail(fw_w[h])
      BY <1>2, <2>1, <2>2
    <3>2. Follows(Tail(fw_w[h]), AddrsIn(w_queue[h]), a, b)
      BY <1>3, <1>4, <2>1, <2>2, FollowsTail
    <3>3. Follows(Append(c_w, Head(fw_w[h])), AddrsIn(w_queue[h]) \cup AddrsIn(Tail(fw_w[h])), a, b)
      BY <1>2, <1>3, <1>4, <2>1, <2>2, FollowsMove
    <3> QED BY <1>4, <1>6, <2>1, <2>2, <3>1, <3>2, <3>3
  <2>3. CASE g # h
    <3>1. f = fw_w[h]
      BY <1>2, <2>1, <2>3
    <3>2. x \in Payload /\ x \in Items(fw_w[g])
      BY <1>2, <2>1, TailFacts
    <3>3. x.addr # a
      <4>1. x.id = g
        BY <3>2, WayFits
      <4> QED BY <1>5, <2>3, <3>2, <4>1
    <3>4. Follows(c_w \o <<x>>, AddrsIn(w_queue[h]) \cup AddrsIn(fw_w[h]), a, b)
      <4> DEFINE r == <<x>>
      <4>1. r \in Seq(Payload) /\ AddrsIn(r) = {x.addr}
        BY <3>2 DEF AddrsIn, Items
      <4> HIDE DEF r, x
      <4> QED BY <1>2, <1>4, <3>3, <4>1, FollowsConcat DEF r
    <3>5. c_w' = c_w \o <<x>>
      BY <1>2, <2>1, <3>2, AppendIsConcat
    <3> QED BY <1>4, <1>6, <2>1, <3>1, <3>4, <3>5
  <2> QED BY <2>2, <2>3
<1>10. ASSUME NEW g \in Hosts, WayOnward(g) PROVE InOrder(h, a, b)'
  <2>1. /\ w_queue' = [w_queue EXCEPT ![g] = Rest(w_queue[g])]
        /\ fw_w' = [fw_w EXCEPT ![g] = fw_w[g] \o Front(w_queue[g])]
        /\ c_w' = c_w
    BY <1>10 DEF WayOnward
  <2>2. CASE g # h \/ w_queue[h] = <<>>
    <3>1. w = w_queue[h] /\ f = fw_w[h]
      <4>1. CASE g # h
        BY <1>2, <2>1, <4>1
      <4>2. CASE g = h /\ w_queue[h] = <<>>
        <5>1. Front(w_queue[h]) = <<>> /\ Rest(w_queue[h]) = w_queue[h]
          BY <1>3, <4>2, QueueHelpers DEF Rest
        <5>2. fw_w[h] \o <<>> = fw_w[h]
          BY <1>3, ConcatEmptySeq
        <5> QED BY <1>2, <2>1, <4>2, <5>1, <5>2
      <4> QED BY <2>2, <4>1, <4>2
    <3> QED BY <1>4, <1>6, <2>1, <3>1
  <2>3. CASE g = h /\ w_queue[h] # <<>>
    <3> DEFINE x == Head(w_queue[h])
    <3>1. x \in Payload /\ Front(w_queue[h]) = <<x>> /\ Rest(w_queue[h]) = Tail(w_queue[h])
      BY <1>3, <2>3, QueueHelpers DEF Rest
    <3>2. fw_w[h] \o <<x>> = Append(fw_w[h], x)
      BY <1>3, <3>1, AppendIsConcat
    <3>3. w = Tail(w_queue[h]) /\ f = Append(fw_w[h], x)
      BY <1>2, <2>1, <2>3, <3>1, <3>2
    <3>4. Follows(w, {}, a, b)
      BY <1>3, <1>4, <2>3, <3>3, FollowsTail
    <3>5. Follows(f, AddrsIn(w), a, b)
      <4>1. {} \cup AddrsIn(w_queue[h]) = AddrsIn(w_queue[h]) /\ {} \cup AddrsIn(Tail(w_queue[h])) = AddrsIn(w)
        BY <3>3
      <4>2. Follows(fw_w[h], {} \cup AddrsIn(w_queue[h]), a, b)
        BY <1>4, <4>1
      <4>3. Follows(Append(fw_w[h], x), {} \cup AddrsIn(Tail(w_queue[h])), a, b)
        BY <1>3, <1>4, <2>3, <4>2, FollowsMove
      <4> QED BY <3>3, <4>1, <4>3
    <3>6. AddrsIn(w) \cup AddrsIn(f) = AddrsIn(w_queue[h]) \cup AddrsIn(fw_w[h])
      <4>1. AddrsIn(w_queue[h]) = {x.addr} \cup AddrsIn(w)
        BY <1>3, <2>3, <3>3, AddrsFacts
      <4>2. AddrsIn(f) = AddrsIn(fw_w[h]) \cup {x.addr}
        BY <1>3, <3>1, <3>3, AddrsFacts
      <4> QED BY <4>1, <4>2
    <3> QED BY <1>4, <1>6, <2>1, <3>4, <3>5, <3>6
  <2> QED BY <2>2, <2>3
<1>11. ASSUME NEW g \in Hosts, WayCut(g) PROVE InOrder(h, a, b)'
  <2>1. /\ w_queue' = [w_queue EXCEPT ![g] = w_queue[g] \o WritePayloads(g, pkt[g])]
        /\ c_w' = c_w /\ f = fw_w[h] /\ pkt[g] \in Packet /\ pkt[g].type = "W"
    BY <1>11 DEF WayCut
  <2>2. CASE g # h
    <3>1. w = w_queue[h]
      BY <1>2, <2>1, <2>2
    <3> QED BY <1>4, <1>6, <2>1, <3>1
  <2>3. CASE g = h
    <3> DEFINE r == WritePayloads(h, pkt[h])
    <3>1. w = w_queue[h] \o r
      BY <1>2, <2>1, <2>3
    <3>2. r \in Seq(Payload) /\ AddrsIn(r) = PacketAddrs(pkt[h].addr)
      BY <2>1, <2>3, CutTyped, CutAddrs
    <3>3. a \notin AddrsIn(r)
      BY <1>a, <1>11, <2>3, <3>2 DEF PacketAddrs
    <3> HIDE DEF r
    <3>4. Follows(w, {}, a, b)
      BY <1>3, <1>4, <3>1, <3>2, <3>3, FollowsConcat
    <3>5. AddrsIn(w_queue[h]) \subseteq AddrsIn(w)
      BY <1>3, <3>1, <3>2, AddrsFacts
    <3>6. Follows(f, AddrsIn(w), a, b)
      BY <1>4, <2>1, <3>5, FollowsMore
    <3>7. Follows(c_w, AddrsIn(w) \cup AddrsIn(f), a, b)
      BY <1>4, <2>1, <3>5, FollowsMore
    <3> QED BY <1>6, <2>1, <3>4, <3>6, <3>7
  <2> QED BY <2>2, <2>3
<1> QED BY <1>7, <1>8, <1>9, <1>10, <1>11, WaySteps DEF a

(* A write on its way is open and its ack has not come back. *)
LEMMA WayOpen ==
  ASSUME TypeInv, OnceInv, NEW h \in Hosts,
         NEW x \in Items(w_queue[h]) \cup Items(fw_w[h]) \cup Items(c_w)
  PROVE  x \in Open /\ x \notin Items(wack_queue[h])
<1>1. x \in Open
  BY DEF Open, InFlight
<1>2. x \notin Items(wack_queue[h])
  <2>1. /\ <<"w_queue", h>> \in Places /\ <<"fw_w", h>> \in Places /\ NoOf("c_w") \in Places
        /\ <<"wack_queue", h>> \in Places
        /\ Queues[<<"w_queue", h>>] = w_queue[h] /\ Queues[<<"fw_w", h>>] = fw_w[h]
        /\ Queues[NoOf("c_w")] = c_w /\ Queues[<<"wack_queue", h>>] = wack_queue[h]
        /\ DOMAIN Queues = Places
    BY AtPlaces DEF PlacesRead, Places, HostPlaces, SharedPlaces, NoOf
  <2>2. PICK l \in Places : x \in Items(Queues[l]) /\ l # <<"wack_queue", h>>
    BY <2>1 DEF NoOf
  <2>3. ASSUME x \in Items(Queues[<<"wack_queue", h>>]) PROVE FALSE
    BY <2>1, <2>2, <2>3 DEF OnceInv, Once, Items
  <2> QED BY <2>1, <2>3
<1> QED BY <1>1, <1>2

(* Someone at each place of the way is an open write of the host. *)
LEMMA WayPayload ==
  ASSUME PacketsOnce, NEW prog \in Programs, TypeInv, FlowInv(prog), OnceInv,
         NEW h \in Hosts, NEW w \in Writes(prog, h), NEW s \in Slices, w.addr + s \in Way(h)
  PROVE  \E x \in OpenOf(h, "W") : x.addr = w.addr + s /\ x \notin Items(wack_queue[h])
<1>1. PICK x \in Items(w_queue[h]) \cup Items(fw_w[h]) \cup Items(c_w) : x.addr = w.addr + s
  BY DEF Way, AddrsIn
<1>2. x \in Open /\ x \notin Items(wack_queue[h])
  BY WayOpen
<1>3. x \in Payload /\ x.cmd = "W" /\ Known(prog, x)
  BY WayFits
<1>4. x.id = h
  BY <1>1, <1>3, WayOwner DEF FlowInv
<1> QED BY <1>1, <1>2, <1>3, <1>4 DEF OpenOf

(* An address ordered before one still on its way is followed by it. *)
LEMMA OrderedWay ==
  ASSUME NEW h \in Hosts, TypeInv, NEW a, NEW b, InOrder(h, a, b), a \in Way(h)
  PROVE  b \in Way(h)
<1>1. w_queue[h] \in Seq(Payload) /\ fw_w[h] \in Seq(Payload) /\ c_w \in Seq(Payload)
  BY DEF TypeInv, QueuesTyped, LinkTyped, SwitchTyped
<1>2. ASSUME NEW q \in Seq(Payload), a \in AddrsIn(q), NEW X, Follows(q, X, a, b)
      PROVE  b \in X \/ b \in AddrsIn(q)
  <2>1. \A x : x \in AddrsIn(q) <=> \E i \in DOMAIN q : q[i].addr = x
    BY AddrsFacts
  <2> QED BY <1>2, <2>1 DEF Follows
<1> QED BY <1>1, <1>2 DEF InOrder, Way

(* The signal that is raised belongs to the oldest packet, and PayloadNum *)
(* acknowledgements have been counted since the last one, whosever they   *)
(* were.  If a payload of the oldest packet were still on its way, all of *)
(* the later packets would be behind it, and more payloads open than the  *)
(* count allows.                                                          *)
LEMMA SignalledIn ==
  ASSUME PacketsOnce, NEW prog \in Programs, TypeInv, TypeInv', FlowInv(prog), OnceInv, WritesInv,
         Once(sync_queue), SourceInv(prog), OrderInv,
         NEW h \in Hosts, SimNegedge(h), Sim!WriteComplete(h), NEW s \in Slices
  PROVE  sync_queue[h] # <<>> /\ Head(sync_queue[h]) + s \notin Way(h)
<1> DEFINE q == sync_queue[h]
           n == Len(q)
           p == Head(wack_queue[h])
           O == OpenOf(h, "W")
           T == O \ {p}
           D == ((2 .. n) \X Slices) \cup {<<1, s>>}
<1>1. /\ q \in Seq(PktAddrs) /\ PayloadNum * n = wack_num[h] + Cardinality(O)
      /\ WritesAdd(h)
  BY DEF WritesInv, WritesAdd
<1>2. wack_queue[h] # <<>> /\ wack_num[h] + 1 = PayloadNum
  BY DEF Sim!WriteComplete
<1>3. OpenLoses(NegedgeAcks(h))
  BY NegedgeLoses
<1>4. q # <<>>
  BY <1>1, <1>2, <1>3, SignalDue
<1>5. n \in Nat \ {0} /\ DOMAIN q = 1 .. n /\ Head(q) = q[1]
  BY <1>1, <1>4, TailFacts, SeqFacts
<1>6. p \in O /\ p \in Items(wack_queue[h])
  <2>1. wack_queue[h] \in Seq(Payload)
    BY DEF TypeInv, QueuesTyped
  <2>2. Items(Front(wack_queue[h])) = {p}
    BY <1>2, <2>1, FrontItems
  <2>3. Items(Front(wack_queue[h])) \subseteq O
    BY <1>3, OpenOfLoses
  <2> QED BY <1>2, <2>1, <2>2, <2>3, TailFacts
<1>7. IsFiniteSet(T) /\ Cardinality(T) = Cardinality(O) - 1 /\ Cardinality(O) \in Nat
  BY <1>6, OpenOfFinite, FS_RemoveElement
<1>8. Cardinality(T) = PayloadNum * (n - 1)
  <2>1. PayloadNum * (n - 1) = PayloadNum * n - PayloadNum /\ PayloadNum * n \in Nat
        /\ PayloadNum \in Nat
    BY <1>5, Products, TlmAssumption
  <2>2. wack_num[h] \in Nat
    BY DEF TypeInv, BurstsTyped, Slices
  <2> DEFINE x == PayloadNum * n
             y == PayloadNum * (n - 1)
  <2>3. x \in Nat /\ y = x - PayloadNum /\ x = wack_num[h] + Cardinality(O)
    BY <1>1, <2>1
  <2> HIDE DEF x, y, O, T
  <2>4. Cardinality(T) = y
    BY <1>2, <1>7, <2>1, <2>2, <2>3
  <2> QED BY <2>4 DEF y
<1>9. IsFiniteSet(D) /\ Cardinality(D) = PayloadNum * (n - 1) + 1
  <2>1. IsFiniteSet(Slices) /\ Cardinality(Slices) = PayloadNum
    <3>1. PayloadNum \in Nat \ {0}
      BY TlmAssumption
    <3>2. 0 \in Int /\ PayloadNum - 1 \in Int /\ ~(0 > PayloadNum - 1)
      BY <3>1
    <3>3. IsFiniteSet(0 .. PayloadNum - 1) /\ Cardinality(0 .. PayloadNum - 1) = (PayloadNum - 1) - 0 + 1
      BY <3>2, FS_Interval
    <3> QED BY <3>1, <3>3 DEF Slices
  <2>2. IsFiniteSet(2 .. n) /\ Cardinality(2 .. n) = n - 1
    <3> HIDE DEF n
    <3>1. IsFiniteSet(2 .. n) /\ Cardinality(2 .. n) = IF 2 > n THEN 0 ELSE n - 2 + 1
      BY <1>5, FS_Interval
    <3> QED BY <1>5, <3>1
  <2>3. IsFiniteSet((2 .. n) \X Slices) /\ Cardinality((2 .. n) \X Slices) = (n - 1) * PayloadNum
    BY <2>1, <2>2, FS_Product
  <2>4. <<1, s>> \notin (2 .. n) \X Slices
    BY <1>5
  <2>5. IsFiniteSet(D) /\ Cardinality(D) = (n - 1) * PayloadNum + 1
    <3> DEFINE E == (2 .. n) \X Slices
               d == <<1, s>>
    <3> HIDE DEF E, d
    <3>1. IsFiniteSet(E \cup {d}) /\ Cardinality(E \cup {d}) = Cardinality(E) + 1
      BY <2>3, <2>4, FS_AddElement DEF E, d
    <3> QED BY <2>3, <3>1 DEF E, d
  <2>6. (n - 1) * PayloadNum = PayloadNum * (n - 1)
    BY <1>5, TlmAssumption
  <2> QED BY <2>5, <2>6
<1> SUFFICES ASSUME q[1] + s \in Way(h) PROVE FALSE
  BY <1>4, <1>5
<1>10. ASSUME NEW d \in D
       PROVE  /\ d[1] \in DOMAIN q /\ d[2] \in Slices /\ d = <<d[1], d[2]>>
              /\ q[d[1]] + d[2] \in Way(h)
  <2>1. CASE d = <<1, s>>
    BY <1>5, <2>1
  <2>2. CASE d \in (2 .. n) \X Slices
    <3>1. /\ d[1] \in 2 .. n /\ d[2] \in Slices /\ d = <<d[1], d[2]>>
      BY <2>2
    <3>2. d[1] \in DOMAIN q /\ 1 \in DOMAIN q /\ 1 < d[1]
      BY <1>5, <3>1
    <3>3. InOrder(h, q[1] + s, q[d[1]] + d[2])
      BY <3>1, <3>2 DEF OrderInv
    <3>4. q[d[1]] + d[2] \in Way(h)
      BY <3>3, OrderedWay
    <3> QED BY <3>1, <3>2, <3>4
  <2> QED BY <2>1, <2>2
<1>11. ASSUME NEW d \in D PROVE \E x \in T : x.addr = q[d[1]] + d[2]
  <2>1. d[1] \in DOMAIN q /\ d[2] \in Slices /\ q[d[1]] + d[2] \in Way(h)
    BY <1>10
  <2>2. PICK w \in Writes(prog, h) : w.addr = q[d[1]]
    BY <2>1 DEF SourceInv
  <2>3. \E x \in O : x.addr = w.addr + d[2] /\ x \notin Items(wack_queue[h])
    BY <2>1, <2>2, WayPayload
  <2> QED BY <1>6, <2>2, <2>3
<1> DEFINE f == [d \in D |-> CHOOSE x \in T : x.addr = q[d[1]] + d[2]]
<1>12. f \in [D -> T] /\ \A d \in D : f[d].addr = q[d[1]] + d[2]
  <2> HIDE DEF T, D, q
  <2> QED BY <1>11
<1>13. ASSUME NEW d \in D, NEW e \in D, f[d] = f[e] PROVE d = e
  <2>1. /\ d[1] \in DOMAIN q /\ d[2] \in Slices /\ d = <<d[1], d[2]>>
        /\ e[1] \in DOMAIN q /\ e[2] \in Slices /\ e = <<e[1], e[2]>>
    BY <1>10
  <2>2. q[d[1]] + d[2] = q[e[1]] + e[2]
    BY <1>12, <1>13
  <2>3. PICK v \in Writes(prog, h) : v.addr = q[d[1]]
    BY <2>1 DEF SourceInv
  <2>4. PICK w \in Writes(prog, h) : w.addr = q[e[1]]
    BY <2>1 DEF SourceInv
  <2>5. v = w
    BY <2>1, <2>2, <2>3, <2>4, WritesOnce DEF FlowInv
  <2>6. d[1] = e[1]
    <3>1. h \in DOMAIN sync_queue
      BY DEF TypeInv, BurstsTyped
    <3> QED BY <2>1, <2>3, <2>4, <2>5, <3>1 DEF Once
  <2>7. d[2] = e[2]
    <3>1. q[d[1]] \in PktAddrs
      BY <1>1, <1>5, <2>1, SeqFacts
    <3>2. q[d[1]] \in Nat
      BY <3>1, TlmAssumption
    <3>3. d[2] \in Nat /\ e[2] \in Nat
      BY <2>1, TlmAssumption DEF Slices
    <3> QED BY <2>2, <2>6, <3>2, <3>3
  <2> QED BY <2>1, <2>6, <2>7
<1> HIDE DEF D, T, f
<1>14. Cardinality(T) < Cardinality(D)
  <2>1. PayloadNum * (n - 1) \in Nat
    BY <1>7, <1>8, FS_CardinalityType
  <2> QED BY <1>8, <1>9, <2>1
<1>15. \E d, e \in D : d # e /\ f[d] = f[e]
  BY <1>7, <1>9, <1>12, <1>14, FS_PigeonHole
<1> QED BY <1>13, <1>15

(* The synchronisation queues hold packet addresses. *)
LEMMA SyncTyped ==
  ASSUME TypeInv, WritesInv
  PROVE  sync_queue \in [Hosts -> Seq(PktAddrs)]
BY DEF TypeInv, BurstsTyped, WritesInv, WritesAdd

(* What a step makes of a queue of due signals. *)
LEMMA SyncMoves ==
  ASSUME NEW prog \in Programs, TypeInv, TypeInv', FlowInv(prog), OnceInv, WritesInv,
         [Next]_vars, NEW h \in Hosts
  PROVE  \/ sync_queue'[h] = sync_queue[h] /\ ~WayCut(h)
         \/ WayCut(h) /\ sync_queue'[h] = Append(sync_queue[h], pkt[h].addr)
         \/ /\ SimNegedge(h) /\ Sim!WriteComplete(h) /\ NoCut
            /\ sync_queue[h] # <<>> /\ sync_queue'[h] = Tail(sync_queue[h])
<1>1. sync_queue \in [Hosts -> Seq(PktAddrs)]
  BY SyncTyped
<1>2. ASSUME WayStill \/ WayOut \/ \E g \in Hosts : WayDown(g)
      PROVE  sync_queue'[h] = sync_queue[h] /\ ~WayCut(h)
  BY <1>2 DEF WayStill, WayOut, WayDown, NoCut, WayCut
<1>3. ASSUME NEW g \in Hosts, WayOnward(g), g # h \/ ~Sim!WriteComplete(g)
      PROVE  sync_queue'[h] = sync_queue[h] /\ ~WayCut(h)
  BY <1>1, <1>3 DEF WayOnward, NoCut, WayCut
<1>4. ASSUME WayOnward(h), Sim!WriteComplete(h)
      PROVE  /\ SimNegedge(h) /\ Sim!WriteComplete(h) /\ NoCut
             /\ sync_queue[h] # <<>> /\ sync_queue'[h] = Tail(sync_queue[h])
  <2>1. SimNegedge(h) /\ NoCut /\ sync_queue'[h] = Tail(sync_queue[h])
    BY <1>1, <1>4 DEF WayOnward
  <2>2. OpenLoses(NegedgeAcks(h))
    BY <2>1, NegedgeLoses
  <2>3. sync_queue[h] # <<>>
    BY <1>4, <2>2, SignalDue DEF WritesInv, Sim!WriteComplete
  <2> QED BY <1>4, <2>1, <2>3
<1>5. ASSUME NEW g \in Hosts, WayCut(g), g # h
      PROVE  sync_queue'[h] = sync_queue[h] /\ ~WayCut(h)
  BY <1>1, <1>5 DEF WayCut
<1>6. WayCut(h) => sync_queue'[h] = Append(sync_queue[h], pkt[h].addr)
  BY <1>1 DEF WayCut
<1> QED BY <1>2, <1>3, <1>4, <1>5, <1>6, WaySteps

(* The writes a host has handled only grow. *)
LEMMA WritesGrow ==
  ASSUME PacketsOnce, NEW prog \in Programs, TypeInv, TypeInv', [Next]_vars, EndInv(prog),
         NEW h \in Hosts
  PROVE  /\ Writes(prog, h) \subseteq Writes(prog, h)'
         /\ ~WayCut(h) => Writes(prog, h)' = Writes(prog, h)
         /\ WayCut(h) => Writes(prog, h)' = Writes(prog, h) \cup {pkt[h]}
<1>1. CASE NoCut
  BY <1>1, WritesNext DEF WayCut, NoCut
<1>2. CASE ~NoCut
  <2>1. PICK g \in Hosts : WayCut(g)
    BY <1>2, WaySteps DEF WayStill, WayOut, WayOnward, WayDown
  <2>2. g # h => ~WayCut(h)
    BY <2>1 DEF WayCut
  <2> QED BY <2>1, <2>2, WritesNext
<1> QED BY <1>1, <1>2

(* A step keeps every queued synchronisation behind a write its host has handled.
   *)
LEMMA SourceStep ==
  ASSUME PacketsOnce, NEW prog \in Programs, TypeInv, TypeInv', FlowInv(prog), OnceInv,
         WritesInv, SourceInv(prog), [Next]_vars
  PROVE  SourceInv(prog)'
<1> SUFFICES ASSUME NEW h \in Hosts, NEW k \in DOMAIN sync_queue'[h]
             PROVE  \E w \in Writes(prog, h)' : w.addr = sync_queue'[h][k]
  BY DEF SourceInv
<1> DEFINE q == sync_queue[h]
<1>1. q \in Seq(PktAddrs) /\ DOMAIN q = 1 .. Len(q) /\ Len(q) \in Nat
  BY SyncTyped, SeqFacts
<1>2. Writes(prog, h) \subseteq Writes(prog, h)'
      /\ (WayCut(h) => pkt[h] \in Writes(prog, h)')
  BY WritesGrow DEF FlowInv
<1>3. \A i \in DOMAIN q : \E w \in Writes(prog, h) : w.addr = q[i]
  BY DEF SourceInv
<1>4. CASE sync_queue'[h] = q
  BY <1>2, <1>3, <1>4
<1>5. CASE WayCut(h) /\ sync_queue'[h] = Append(q, pkt[h].addr)
  <2>1. pkt[h].addr \in PktAddrs
    BY <1>5 DEF WayCut, Packet
  <2> DEFINE r == Append(q, pkt[h].addr)
             n == Len(q)
  <2>2. /\ r \in Seq(PktAddrs) /\ Len(r) = n + 1 /\ r[n + 1] = pkt[h].addr
        /\ \A i \in 1 .. n : r[i] = q[i]
    BY <1>1, <2>1, AppendFacts
  <2>3. DOMAIN r = 1 .. n + 1
    BY <2>2, SeqFacts
  <2> HIDE DEF n, r
  <2>4. k = n + 1 \/ k \in DOMAIN q
    BY <1>1, <1>5, <2>3 DEF n, r
  <2>5. CASE k = n + 1
    <3>1. sync_queue'[h][k] = pkt[h].addr
      BY <1>5, <2>2, <2>5 DEF r
    <3> QED BY <1>2, <1>5, <3>1
  <2>6. CASE k \in DOMAIN q
    <3>1. sync_queue'[h][k] = q[k]
      BY <1>1, <1>5, <2>2, <2>6 DEF r, n
    <3> QED BY <1>2, <1>3, <2>6, <3>1
  <2> QED BY <2>4, <2>5, <2>6
<1>6. CASE q # <<>> /\ sync_queue'[h] = Tail(q)
  <2>1. k \in 1 .. Len(q) - 1 /\ Tail(q)[k] = q[k + 1]
    BY <1>1, <1>6, TailFacts, SeqFacts
  <2>2. k + 1 \in DOMAIN q
    BY <1>1, <2>1
  <2>3. PICK w \in Writes(prog, h) : w.addr = q[k + 1]
    BY <1>3, <2>2
  <2> QED BY <1>2, <1>6, <2>1, <2>3
<1> QED BY <1>4, <1>5, <1>6, SyncMoves

(* The payloads of the packet being cut come behind everything else. *)
LEMMA CutBehind ==
  ASSUME PacketsOnce, NEW prog \in Programs, TypeInv, TypeInv', [Next]_vars, FlowInv(prog),
         NEW h \in Hosts, WayCut(h), NEW v \in Writes(prog, h), NEW s \in Slices,
         NEW u \in Slices, NEW b, b = pkt[h].addr + u
  PROVE  InOrder(h, v.addr + s, b)'
<1> DEFINE a == v.addr + s
           r == WritePayloads(h, pkt[h])
           w == w_queue'[h]
           f == fw_w'[h]
<1>1. InOrder(h, a, b)' <=> /\ Follows(w, {}, a, b) /\ Follows(f, AddrsIn(w), a, b)
                            /\ Follows(c_w', AddrsIn(w) \cup AddrsIn(f), a, b)
  BY DEF InOrder
<1>2. w_queue[h] \in Seq(Payload) /\ r \in Seq(Payload) /\ AddrsIn(r) = PacketAddrs(pkt[h].addr)
  BY CutTyped, CutAddrs DEF WayCut, TypeInv, QueuesTyped
<1>3. w = w_queue[h] \o r
  BY DEF WayCut, TypeInv, QueuesTyped
<1>4. b \in AddrsIn(r)
  BY <1>2 DEF PacketAddrs
<1>5. a \notin AddrsIn(r)
  <2>1. \A j \in Slices : a # pkt[h].addr + j
    BY CutApart DEF FlowInv
  <2> QED BY <1>2, <2>1 DEF PacketAddrs
<1> HIDE DEF a, r
<1>6. Follows(w, {}, a, b)
  BY <1>2, <1>3, <1>4, <1>5, FollowsConcat
<1>7. b \in AddrsIn(w)
  BY <1>2, <1>3, <1>4, AddrsFacts
<1>8. Follows(f, AddrsIn(w), a, b) /\ Follows(c_w', AddrsIn(w) \cup AddrsIn(f), a, b)
  BY <1>7 DEF Follows
<1> QED BY <1>1, <1>6, <1>8 DEF a

(* A step keeps the writes of a host in the order of its synchronisation queue. *)
LEMMA OrderStep ==
  ASSUME PacketsOnce, NEW prog \in Programs, TypeInv, TypeInv', FlowInv(prog), OnceInv,
         WritesInv, SourceInv(prog), OrderInv, [Next]_vars
  PROVE  OrderInv'
<1> SUFFICES ASSUME NEW h \in Hosts, NEW k \in DOMAIN sync_queue'[h],
                    NEW m \in DOMAIN sync_queue'[h], k < m, NEW s \in Slices, NEW u \in Slices
             PROVE  (InOrder(h, sync_queue[h][k] + s, sync_queue[h][m] + u))'
  BY DEF OrderInv
<1> SUFFICES ASSUME NEW a, NEW b, a = sync_queue'[h][k] + s, b = sync_queue'[h][m] + u
             PROVE  InOrder(h, a, b)'
  BY DEF InOrder
<1> DEFINE q == sync_queue[h]
           n == Len(q)
<1>1. q \in Seq(PktAddrs) /\ DOMAIN q = 1 .. n /\ n \in Nat
  BY SyncTyped, SeqFacts
<1>2. ASSUME NEW i \in DOMAIN q, NEW j \in DOMAIN q, i < j, a = q[i] + s, b = q[j] + u
      PROVE  InOrder(h, a, b)'
  <2>1. PICK w \in Writes(prog, h) : w.addr = q[i]
    BY DEF SourceInv
  <2>2. InOrder(h, w.addr + s, b)
    BY <1>2, <2>1 DEF OrderInv
  <2>3. InOrder(h, w.addr + s, b)'
    BY <2>2, OrderKept
  <2> QED BY <1>2, <2>1, <2>3
<1>3. CASE sync_queue'[h] = q
  BY <1>2, <1>3
<1>4. CASE WayCut(h) /\ sync_queue'[h] = Append(q, pkt[h].addr)
  <2>1. pkt[h].addr \in PktAddrs
    BY <1>4 DEF WayCut, Packet
  <2> DEFINE r == Append(q, pkt[h].addr)
  <2>2. /\ r \in Seq(PktAddrs) /\ Len(r) = n + 1 /\ r[n + 1] = pkt[h].addr
        /\ \A i \in 1 .. n : r[i] = q[i]
    BY <1>1, <2>1, AppendFacts
  <2>3. DOMAIN r = 1 .. n + 1
    BY <2>2, SeqFacts
  <2>4. r = sync_queue'[h]
    BY <1>4
  <2> HIDE DEF n, r
  <2>5. k \in 1 .. n
    BY <1>1, <2>3, <2>4
  <2>6. CASE m \in 1 .. n
    BY <1>1, <1>2, <2>2, <2>4, <2>5, <2>6
  <2>7. CASE m = n + 1
    <3>1. PICK w \in Writes(prog, h) : w.addr = q[k]
      BY <1>1, <2>5 DEF SourceInv
    <3>2. a = w.addr + s /\ b = pkt[h].addr + u
      BY <2>2, <2>4, <2>5, <2>7, <3>1
    <3>3. InOrder(h, w.addr + s, b)'
      BY <1>4, <3>2, CutBehind
    <3> QED BY <3>2, <3>3
  <2> QED BY <1>1, <2>3, <2>4, <2>6, <2>7
<1>5. CASE q # <<>> /\ sync_queue'[h] = Tail(q)
  <2> DEFINE r == Tail(q)
  <2>1. /\ r \in Seq(PktAddrs) /\ Len(r) = n - 1 /\ n \in Nat \ {0}
        /\ \A i \in 1 .. n - 1 : r[i] = q[i + 1]
    BY <1>1, <1>5, TailFacts
  <2>2. DOMAIN r = 1 .. n - 1
    BY <2>1, SeqFacts
  <2>3. r = sync_queue'[h]
    BY <1>5
  <2> HIDE DEF n, r
  <2>4. k \in 1 .. n - 1 /\ m \in 1 .. n - 1 /\ k + 1 < m + 1
    BY <2>1, <2>2, <2>3
  <2>5. k + 1 \in DOMAIN q /\ m + 1 \in DOMAIN q
    BY <1>1, <2>1, <2>4
  <2>6. a = q[k + 1] + s /\ b = q[m + 1] + u
    BY <2>1, <2>3, <2>4
  <2> QED BY <1>2, <2>4, <2>5, <2>6
<1> QED BY <1>3, <1>4, <1>5, SyncMoves

(* What is on the way stays on it, unless the store is written. *)
LEMMA WayGrows ==
  ASSUME TypeInv, [Next]_vars, ~WayOut, NEW h \in Hosts
  PROVE  Way(h) \subseteq Way(h)' /\ mem_data' = mem_data
<1> DEFINE w == w_queue'[h]
           f == fw_w'[h]
<1>1. /\ w_queue \in [Hosts -> Seq(Payload)] /\ fw_w \in [Hosts -> Seq(Payload)]
      /\ c_w \in Seq(Payload) /\ w_queue[h] \in Seq(Payload) /\ fw_w[h] \in Seq(Payload)
  BY DEF TypeInv, QueuesTyped, LinkTyped, SwitchTyped
<1>2. /\ Way(h) = AddrsIn(w_queue[h]) \cup AddrsIn(fw_w[h]) \cup AddrsIn(c_w)
      /\ Way(h)' = AddrsIn(w) \cup AddrsIn(f) \cup AddrsIn(c_w')
  BY DEF Way
<1>3. CASE WayStill
  BY <1>2, <1>3 DEF WayStill
<1>4. ASSUME NEW g \in Hosts, WayCut(g) PROVE Way(h) \subseteq Way(h)' /\ mem_data' = mem_data
  <2>1. /\ w_queue' = [w_queue EXCEPT ![g] = w_queue[g] \o WritePayloads(g, pkt[g])]
        /\ f = fw_w[h] /\ c_w' = c_w /\ mem_data' = mem_data
        /\ WritePayloads(g, pkt[g]) \in Seq(Payload)
    BY <1>4, CutTyped DEF WayCut
  <2>2. CASE g # h
    BY <1>1, <1>2, <2>1, <2>2
  <2>3. CASE g = h
    <3>1. AddrsIn(w) = AddrsIn(w_queue[h]) \cup AddrsIn(WritePayloads(g, pkt[g]))
      BY <1>1, <2>1, <2>3, AddrsFacts
    <3> QED BY <1>2, <2>1, <3>1
  <2> QED BY <2>2, <2>3
<1>5. ASSUME NEW g \in Hosts, WayOnward(g) PROVE Way(h) \subseteq Way(h)' /\ mem_data' = mem_data
  <2>1. /\ w_queue' = [w_queue EXCEPT ![g] = Rest(w_queue[g])]
        /\ fw_w' = [fw_w EXCEPT ![g] = fw_w[g] \o Front(w_queue[g])]
        /\ c_w' = c_w /\ mem_data' = mem_data
    BY <1>5 DEF WayOnward
  <2>2. CASE g # h
    BY <1>1, <1>2, <2>1, <2>2
  <2>3. CASE g = h
    <3>1. w = Rest(w_queue[h]) /\ f = fw_w[h] \o Front(w_queue[h])
      BY <1>1, <2>1, <2>3
    <3>2. CASE w_queue[h] = <<>>
      <4>1. Front(w_queue[h]) = <<>> /\ Rest(w_queue[h]) = w_queue[h]
        BY <1>1, <3>2, QueueHelpers DEF Rest
      <4>2. fw_w[h] \o <<>> = fw_w[h]
        BY <1>1, ConcatEmptySeq
      <4> QED BY <1>2, <2>1, <3>1, <4>1, <4>2
    <3>3. CASE w_queue[h] # <<>>
      <4> DEFINE x == Head(w_queue[h])
      <4>1. x \in Payload /\ Front(w_queue[h]) = <<x>> /\ Rest(w_queue[h]) = Tail(w_queue[h])
        BY <1>1, <3>3, QueueHelpers DEF Rest
      <4>2. f = Append(fw_w[h], x)
        BY <1>1, <3>1, <4>1, AppendIsConcat
      <4>3. AddrsIn(w_queue[h]) = {x.addr} \cup AddrsIn(w)
        BY <1>1, <3>1, <3>3, <4>1, AddrsFacts
      <4>4. AddrsIn(f) = AddrsIn(fw_w[h]) \cup {x.addr}
        BY <1>1, <4>1, <4>2, AddrsFacts
      <4> QED BY <1>2, <2>1, <4>3, <4>4
    <3> QED BY <3>2, <3>3
  <2> QED BY <2>2, <2>3
<1>6. ASSUME NEW g \in Hosts, WayDown(g) PROVE Way(h) \subseteq Way(h)' /\ mem_data' = mem_data
  <2> DEFINE x == Head(fw_w[g])
  <2>1. /\ fw_w' = [fw_w EXCEPT ![g] = Tail(fw_w[g])] /\ fw_w[g] # <<>>
        /\ c_w' = Append(c_w, x) /\ w = w_queue[h] /\ mem_data' = mem_data
    BY <1>6 DEF WayDown
  <2>2. x \in Payload
    BY <1>1, <2>1, TailFacts
  <2>3. AddrsIn(c_w') = AddrsIn(c_w) \cup {x.addr}
    BY <1>1, <2>1, <2>2, AddrsFacts
  <2>4. CASE g # h
    BY <1>1, <1>2, <2>1, <2>3, <2>4
  <2>5. CASE g = h
    <3>1. f = Tail(fw_w[h])
      BY <1>1, <2>1, <2>5
    <3>2. AddrsIn(fw_w[h]) = {x.addr} \cup AddrsIn(f)
      BY <1>1, <2>1, <2>5, <3>1, AddrsFacts
    <3> QED BY <1>2, <2>1, <2>3, <3>2
  <2> QED BY <2>4, <2>5
<1> QED BY <1>3, <1>4, <1>5, <1>6, WaySteps

(* A payload leaves the way when it is stored, and is the only one for its *)
(* place in the store.                                                     *)
LEMMA StoredOut ==
  ASSUME PacketsOnce, NEW prog \in Programs, TypeInv, FlowInv(prog), WayOut,
         NEW h \in Hosts, NEW w \in Writes(prog, h), NEW s \in Slices
  PROVE  /\ mem_data[w.addr + s] = <<w.tag, s>> => mem_data'[w.addr + s] = <<w.tag, s>>
         /\ w.addr + s \in Way(h) =>
              mem_data'[w.addr + s] = <<w.tag, s>> \/ w.addr + s \in Way(h)'
<1> DEFINE a == w.addr + s
           x == Head(c_w)
<1>1. /\ c_w # <<>> /\ c_w' = Tail(c_w) /\ mem_data' = [mem_data EXCEPT ![x.addr] = x.data]
      /\ w_queue' = w_queue /\ fw_w' = fw_w
  BY DEF WayOut
<1>2. c_w \in Seq(Payload) /\ mem_data \in [Addrs -> Cells]
  BY DEF TypeInv, SwitchTyped, MemTyped
<1>3. x \in Payload /\ x \in Items(c_w)
  BY <1>1, <1>2, TailFacts
<1>4. x.cmd = "W" /\ Known(prog, x) /\ x.addr \in Addrs
  BY <1>3, WayFits DEF Payload
<1>5. x.addr = a => x.data = <<w.tag, s>>
  BY <1>3, <1>4, WayOwner DEF FlowInv
<1>6. AddrsIn(c_w) = {x.addr} \cup AddrsIn(c_w')
  BY <1>1, <1>2, AddrsFacts
<1>7. Way(h) \subseteq Way(h)' \cup {x.addr}
  <2>1. /\ Way(h) = AddrsIn(w_queue[h]) \cup AddrsIn(fw_w[h]) \cup AddrsIn(c_w)
        /\ Way(h)' = AddrsIn(w_queue[h]) \cup AddrsIn(fw_w[h]) \cup AddrsIn(c_w')
    BY <1>1 DEF Way
  <2> QED BY <1>6, <2>1
<1>8. x.addr = a => mem_data'[a] = <<w.tag, s>>
  BY <1>1, <1>2, <1>4, <1>5
<1>9. x.addr # a => mem_data'[a] = mem_data[a]
  BY <1>1, <1>2, <1>4
<1> QED BY <1>7, <1>8, <1>9

(* A step keeps each part of a handled write on its way or stored. *)
LEMMA StoreStep ==
  ASSUME PacketsOnce, NEW prog \in Programs, TypeInv, TypeInv', FlowInv(prog), OnceInv,
         WritesInv, Once(sync_queue), SourceInv(prog), OrderInv, StoreInv(prog), [Next]_vars
  PROVE  StoreInv(prog)'
<1> SUFFICES ASSUME NEW h \in Hosts, NEW w \in Writes(prog, h)', NEW s \in Slices
             PROVE  \/ mem_data'[w.addr + s] = <<w.tag, s>>
                    \/ w.addr \in Items(sync_queue'[h]) /\ w.addr + s \in Way(h)'
  BY DEF StoreInv
<1> DEFINE q == sync_queue[h]
<1>1. q \in Seq(PktAddrs)
  BY SyncTyped
<1>2. CASE WayOut
  <2>1. sync_queue' = sync_queue /\ w \in Writes(prog, h)
    <3>1. sync_queue' = sync_queue /\ ~WayCut(h)
      BY <1>2 DEF WayOut, WayCut, NoCut
    <3> QED BY <3>1, WritesGrow DEF FlowInv
  <2> QED BY <1>2, <2>1, StoredOut DEF StoreInv
<1>3. CASE ~WayOut
  <2>1. Way(h) \subseteq Way(h)' /\ mem_data' = mem_data
    BY <1>3, WayGrows
  <2>2. CASE sync_queue'[h] = q /\ ~WayCut(h)
    BY <2>1, <2>2, WritesGrow DEF StoreInv, FlowInv
  <2>3. CASE WayCut(h) /\ sync_queue'[h] = Append(q, pkt[h].addr)
    <3>1. pkt[h].addr \in PktAddrs
      BY <2>3 DEF WayCut, Packet
    <3>2. Items(sync_queue'[h]) = Items(q) \cup {pkt[h].addr}
      BY <1>1, <2>3, <3>1, AppendFacts
    <3>3. CASE w \in Writes(prog, h)
      BY <2>1, <3>2, <3>3 DEF StoreInv
    <3>4. CASE w = pkt[h]
      <4> DEFINE r == WritePayloads(h, pkt[h])
      <4>1. /\ w_queue[h] \in Seq(Payload) /\ r \in Seq(Payload)
            /\ AddrsIn(r) = PacketAddrs(w.addr) /\ w_queue'[h] = w_queue[h] \o r
        BY <2>3, <3>4, CutTyped, CutAddrs DEF WayCut, TypeInv, QueuesTyped
      <4> HIDE DEF r
      <4>2. w.addr + s \in AddrsIn(w_queue'[h])
        BY <4>1, AddrsFacts DEF PacketAddrs
      <4>3. w.addr + s \in Way(h)'
        BY <4>2 DEF Way
      <4> QED BY <3>2, <3>4, <4>3
    <3> QED BY <2>3, <3>3, <3>4, WritesGrow DEF FlowInv
  <2>4. CASE /\ SimNegedge(h) /\ Sim!WriteComplete(h) /\ NoCut
             /\ q # <<>> /\ sync_queue'[h] = Tail(q)
    <3>1. w \in Writes(prog, h)
      <4>1. ~WayCut(h)
        BY <2>4 DEF NoCut, WayCut
      <4> QED BY <4>1, WritesGrow DEF FlowInv
    <3>2. Items(q) = {Head(q)} \cup Items(sync_queue'[h])
      BY <1>1, <2>4, TailFacts
    <3>3. Head(q) + s \notin Way(h)
      BY <2>4, SignalledIn
    <3>4. CASE mem_data[w.addr + s] = <<w.tag, s>>
      BY <2>1, <3>4
    <3>5. CASE w.addr \in Items(q) /\ w.addr + s \in Way(h)
      BY <2>1, <3>2, <3>3, <3>5
    <3> QED BY <3>1, <3>4, <3>5 DEF StoreInv
  <2> QED BY <2>2, <2>3, <2>4, SyncMoves
<1> QED BY <1>2, <1>3

(* A step keeps the storage invariants together. *)
LEMMA StoresStep ==
  ASSUME PacketsOnce
  PROVE  StoreHolds /\ [Next]_vars => StoreHolds'
<1> SUFFICES ASSUME StoreHolds, [Next]_vars PROVE StoreHolds'
  OBVIOUS
<1>1. CountsHold'
  BY CountsStep DEF StoreHolds
<1>2. TypeInv /\ TypeInv' /\ OnceInv /\ WritesInv /\ OrderInv
  BY <1>1 DEF StoreHolds, CountsHold, FlowHolds
<1>3. PICK prog \in Programs : /\ FlowInv(prog) /\ SignalInv(prog)
                               /\ SourceInv(prog) /\ StoreInv(prog)
  BY DEF StoreHolds
<1>4. FlowInv(prog)'
  BY <1>2, <1>3, OnceIsOwn, FlowStep
<1>5. SignalInv(prog)'
  BY <1>2, <1>3, SignalStep
<1>6. SourceInv(prog)'
  BY <1>2, <1>3, SourceStep
<1>7. OrderInv'
  BY <1>2, <1>3, OrderStep
<1>8. Once(sync_queue)
  BY <1>3 DEF SignalInv
<1>9. StoreInv(prog)'
  BY <1>2, <1>3, <1>8, StoreStep
<1> QED BY <1>1, <1>4, <1>5, <1>6, <1>7, <1>9 DEF StoreHolds

(* At the start no host has handled a write. *)
LEMMA StoreAtStart ==
  ASSUME Init, NEW prog \in Programs, \A h \in Hosts : trace[h] = prog[h]
  PROVE  OrderInv /\ SourceInv(prog) /\ StoreInv(prog)
<1>1. \A h \in Hosts : sync_queue[h] = <<>> /\ DOMAIN sync_queue[h] = {}
  BY OpenAtStart
<1>2. \A h \in Hosts : Writes(prog, h) = {}
  <2> TAKE h \in Hosts
  <2>1. prog[h] \in Seq(Packet) /\ ToCome(h) = prog[h]
    BY QueuesAtStart, HostAssumption
  <2>2. Taken(prog[h], ToCome(h)) = 0
    BY <2>1, EndAtStart
  <2> QED BY <2>2 DEF Writes
<1> QED BY <1>1, <1>2 DEF OrderInv, SourceInv, StoreInv

(* The storage invariants hold in every reachable state. *)
LEMMA StoresAlways ==
  ASSUME PacketsOnce
  PROVE  Spec => []StoreHolds
<1>1. Init => CountsHold
  BY TypeInvInit, FlowInit, OpenAtStart DEF CountsHold, FlowHolds
<1>2. Init => StoreHolds
  BY <1>1, FlowInit, SignalAtStart, StoreAtStart DEF StoreHolds
<1>3. StoreHolds /\ [Next]_vars => StoreHolds'
  BY StoresStep
<1> QED BY <1>2, <1>3, PTL DEF Spec

(* A raised flag of the SyncObject (sync_object.h) means the packet is in   *)
(* the backing store, all of it.  The flag is raised from a count of write  *)
(* acks that may be those of later packets (sim_wrapper.cpp, clock_negedge) *)
(* and the count is right because those payloads are behind the payloads    *)
(* of the packet: everything still to be stored is still to be counted.     *)
THEOREM SignalsAreStored ==
  ASSUME PacketsOnce
  PROVE  Spec => []SignalMeansStored
<1>1. StoreHolds => SignalMeansStored
  <2> SUFFICES ASSUME StoreHolds, NEW a \in PktAddrs, sync[a]
               PROVE  \E t \in Tags : \A i \in Slices : mem_data[a + i] = <<t, i>>
    BY DEF SignalMeansStored
  <2>1. PICK prog \in Programs : FlowInv(prog) /\ SignalInv(prog) /\ StoreInv(prog)
    BY DEF StoreHolds
  <2>2. TypeInv
    BY DEF StoreHolds, CountsHold, FlowHolds
  <2>3. Past(prog, "W", a) /\ a \notin Content(sync_queue)
    BY <2>1 DEF SignalInv
  <2>4. PICK h \in Hosts : \E w \in Writes(prog, h) : w.addr = a
    BY <2>3 DEF Past, Writes
  <2>5. PICK w \in Writes(prog, h) : w.addr = a
    BY <2>4
  <2>6. a \notin Items(sync_queue[h])
    <3>1. h \in DOMAIN sync_queue
      BY <2>2 DEF TypeInv, BurstsTyped
    <3> QED BY <2>3, <3>1, InContent
  <2>7. \A i \in Slices : mem_data[a + i] = <<w.tag, i>>
    BY <2>1, <2>5, <2>6 DEF StoreInv
  <2>8. w.tag \in Tags
    BY <2>1, WritesTyped DEF FlowInv
  <2> QED BY <2>7, <2>8
<1> QED BY <1>1, StoresAlways, PTL

-----------------------------------------------------------------------------
(* An answer is made of the packet that was written *)

(* A host's answer is kept where none of its parts changes. *)
LEMMA AnswerKept ==
  ASSUME PacketsOnce, NEW prog \in Programs, TypeInv, TypeInv', [Next]_vars, EndInv(prog),
         NEW h \in Hosts, AnswerOf(prog, h), OpenOf(h, "R")' = OpenOf(h, "R"),
         packet_data'[h] = packet_data[h], toHost'[h] = toHost[h],
         pkt'[h] = pkt[h] \/ ~Busy(h)
  PROVE  AnswerOf(prog, h)'
<1>1. Busy(h)' <=> Busy(h)
  BY DEF Busy
<1> SUFFICES ASSUME Busy(h) PROVE AnswerOf(prog, h)'
  BY <1>1 DEF AnswerOf
<1>2. pkt'[h] = pkt[h]
  OBVIOUS
<1>3. Past(prog, "R", pkt[h].addr) /\ \A p \in OpenOf(h, "R") : p.addr \in PacketAddrs(pkt[h].addr)
  BY DEF AnswerOf
<1>4. PICK g \in Hosts : \E w \in Writes(prog, g) : MadeOf(h, w)
  BY DEF AnswerOf
<1>5. PICK w \in Writes(prog, g) : MadeOf(h, w)
  BY <1>4
<1>6. w \in Writes(prog, g)'
  BY WritesGrow
<1>7. MadeOf(h, w)'
  BY <1>2, <1>5 DEF MadeOf, Due
<1>8. PICK a : a = pkt[h].addr
  OBVIOUS
<1>9. Past(prog, "R", a)'
  BY <1>3, <1>8, PastStays
<1>10. (Past(prog, "R", pkt[h].addr))'
  BY <1>2, <1>8, <1>9 DEF Past
<1>11. (\E f \in Hosts : \E v \in Writes(prog, f) : MadeOf(h, v))'
  BY <1>6, <1>7
<1> QED BY <1>2, <1>3, <1>10, <1>11 DEF AnswerOf

(* The parts of a read packet are all the slices of its line. *)
LEMMA CutSlices ==
  ASSUME NEW h \in Hosts, NEW q \in Packet, q.type = "R", NEW t
  PROVE  /\ {<<t, p.addr - q.addr>> : p \in Items(ReadPayloads(h, q))} = {<<t, s>> : s \in Slices}
         /\ \A p \in Items(ReadPayloads(h, q)) : p.addr \in PacketAddrs(q.addr)
<1> DEFINE r == ReadPayloads(h, q)
<1>1. q.addr \in Nat
  BY TlmAssumption DEF Packet
<1>2. DOMAIN r = 1 .. PayloadNum /\ \A i \in 1 .. PayloadNum : r[i].addr = q.addr + i - 1
  BY DEF ReadPayloads
<1>3. Items(r) = {r[i] : i \in 1 .. PayloadNum}
  BY <1>2 DEF Items
<1> HIDE DEF r
<1>4. ASSUME NEW p \in Items(r)
      PROVE  \E s \in Slices : p.addr = q.addr + s /\ p.addr - q.addr = s
  <2>1. PICK i \in 1 .. PayloadNum : p = r[i]
    BY <1>3
  <2>2. i - 1 \in Slices /\ p.addr = q.addr + (i - 1)
    BY <1>1, <1>2, <2>1, TlmAssumption DEF Slices
  <2>3. p.addr - q.addr = i - 1
    BY <1>1, <2>2
  <2> QED BY <2>2, <2>3
<1>5. ASSUME NEW s \in Slices PROVE \E p \in Items(r) : p.addr - q.addr = s
  <2>1. s + 1 \in 1 .. PayloadNum /\ s \in Nat
    BY TlmAssumption DEF Slices
  <2>2. r[s + 1].addr = q.addr + s
    BY <1>1, <1>2, <2>1
  <2>3. r[s + 1].addr - q.addr = s
    BY <1>1, <2>1, <2>2
  <2> QED BY <1>3, <2>1, <2>3
<1>6. \A p \in Items(r) : p.addr \in PacketAddrs(q.addr)
  BY <1>4 DEF PacketAddrs
<1>7. {<<t, p.addr - q.addr>> : p \in Items(r)} = {<<t, s>> : s \in Slices}
  BY <1>4, <1>5
<1> QED BY <1>6, <1>7 DEF r

(* The write at an address whose read has begun is stored. *)
LEMMA ReadStored ==
  ASSUME NEW prog \in Programs, TypeInv, FlowInv(prog), SignalInv(prog), StoreInv(prog),
         NEW a \in PktAddrs, ReadBegun(prog, a)
  PROVE  /\ \E g \in Hosts : \E w \in Writes(prog, g) : w.addr = a
         /\ \A g \in Hosts : \A w \in Writes(prog, g) : w.addr = a =>
              \A s \in Slices : mem_data[a + s] = <<w.tag, s>>
<1>1. Past(prog, "W", a) /\ a \notin Content(sync_queue)
  BY DEF SignalInv
<1>2. DOMAIN sync_queue = Hosts
  BY DEF TypeInv, BurstsTyped
<1>3. \A g \in Hosts : a \notin Items(sync_queue[g])
  BY <1>1, <1>2, InContent
<1> QED BY <1>1, <1>3 DEF Past, Writes, StoreInv

(* A read is cut: all of its payloads are open, no part is gathered. *)
LEMMA AnswerCut ==
  ASSUME PacketsOnce, NEW prog \in Programs, TypeInv, TypeInv', [Next]_vars, FlowInv(prog),
         OnceInv, SignalInv(prog), StoreInv(prog), ReadInv, NEW h \in Hosts, ReadCut(h)
  PROVE  AnswerOf(prog, h)'
<1> DEFINE r == ReadPayloads(h, pkt[h])
<1>1. /\ pc[h] = "read" /\ pkt' = pkt /\ toHost' = toHost /\ packet_data' = packet_data
      /\ pkt[h].type = "R" /\ pkt[h] \in Packet /\ pkt[h].addr \in PktAddrs /\ Takes(h)
  <2>1. /\ pc[h] = "read" /\ pc' = [pc EXCEPT ![h] = "poll"] /\ UNCHANGED <<pkt, packet_data, toHost>>
    BY HandleReadDoes DEF ReadCut, hostVars
  <2>2. /\ pkt[h].type = "R" /\ pkt[h] \in Packet /\ DOMAIN pc = Hosts
    BY <2>1 DEF TypeInv, ControlTyped
  <2>3. pkt[h].addr \in PktAddrs
    BY <2>2 DEF Packet
  <2> QED BY <2>1, <2>2, <2>3 DEF Takes, HoldsPacket
<1>2. toHost[h] = <<>> /\ OpenOf(h, "R") = {} /\ packet_data[h] = <<>>
  <2>1. Syncing(h)
    BY <1>1 DEF ReadInv, ReadPhase, Idle, Asked, Fetching, Replied, Reading
  <2> QED BY <2>1, ReadPartsTyped DEF Syncing
<1>3. OpenOf(h, "R")' = Items(r)
  <2>1. /\ r \in Seq(Payload) /\ OnceIn(r)
        /\ \A p \in Items(r) : p.id = h /\ p.cmd = "R"
    BY <1>1, CutTyped, CutsDiffer, CutKnown DEF FlowInv
  <2>2. OpenAdds(r)
    BY CutOpens
  <2> HIDE DEF r
  <2>3. OpenOf(h, "R")' = OpenOf(h, "R") \cup Items(r)
    BY <2>1, <2>2, OpenOfAdds
  <2> QED BY <1>2, <2>3
<1>4. PICK a \in PktAddrs : a = pkt[h].addr
  BY <1>1
<1>5. ReadBegun(prog, a)
  BY <1>1, <1>4 DEF ReadBegun
<1>6. PICK g \in Hosts : \E w \in Writes(prog, g) : w.addr = a
  BY <1>5, ReadStored
<1>7. PICK w \in Writes(prog, g) : w.addr = a
  BY <1>6
<1>8. w \in Writes(prog, g)'
  BY <1>7, WritesGrow DEF FlowInv
<1>9. MadeOf(h, w)'
  <2>1. {<<w.tag, p.addr - pkt[h].addr>> : p \in Items(r)} = AllOf(w)
    BY <1>1, CutSlices DEF AllOf
  <2>2. Due(h, w)' = AllOf(w)
    BY <1>3, <1>4, <1>7, <2>1 DEF Due
  <2>3. Items(packet_data'[h]) = {}
    BY <1>1, <1>2 DEF Items
  <2> QED BY <1>1, <1>2, <1>4, <1>7, <2>2, <2>3 DEF MadeOf, AllOf
<1>10. (Past(prog, "R", pkt[h].addr))'
  <2>1. Past(prog, "R", a)'
    BY <1>1, <1>4, PastStep DEF FlowInv
  <2> QED BY <1>1, <1>4, <2>1 DEF Past
<1>11. \A p \in Items(r) : p.addr \in PacketAddrs(pkt'[h].addr)
  BY <1>1, CutSlices
<1>12. (\E f \in Hosts : \E v \in Writes(prog, f) : MadeOf(h, v))'
  BY <1>8, <1>9
<1> QED BY <1>3, <1>10, <1>11, <1>12 DEF AnswerOf

(* A part is fetched through the payload: it is the slice the write left *)
(* at its address.                                                       *)
LEMMA PartFetched ==
  ASSUME NEW prog \in Programs, TypeInv, TypeInv', FlowInv(prog), OnceInv, SignalInv(prog),
         StoreInv(prog), NEW h \in Hosts, AnswerOf(prog, h), toHost[h] = <<>>, SimNegedge(h),
         rack_queue[h] # <<>>
  PROVE  \E g \in Hosts : \E w \in Writes(prog, g) :
           /\ w.addr = pkt[h].addr
           /\ Sim!Gathered(h) \in Seq(Cells)
           /\ Items(Sim!Gathered(h)) \cup Due(h, w)' = AllOf(w)
<1> DEFINE p == Head(rack_queue[h])
           d == packet_data[h]
<1>1. OpenOf(h, "R")' = OpenOf(h, "R") \ {p} /\ p \in OpenOf(h, "R")
  <2>1. OpenLoses(NegedgeAcks(h)) /\ rack_queue[h] \in Seq(Payload)
    BY NegedgeLoses DEF TypeInv, QueuesTyped
  <2>2. Items(Front(rack_queue[h])) = {p}
    BY <2>1, FrontItems
  <2> QED BY <2>1, <2>2, OpenOfLoses
<1>2. Past(prog, "R", pkt[h].addr) /\ p.addr \in PacketAddrs(pkt[h].addr)
  BY <1>1 DEF AnswerOf, Busy
<1>3. PICK g \in Hosts : \E w \in Writes(prog, g) : MadeOf(h, w)
  BY <1>1 DEF AnswerOf, Busy
<1>4. PICK w \in Writes(prog, g) : MadeOf(h, w)
  BY <1>3
<1>5. w.addr = pkt[h].addr /\ Items(d) \cup Due(h, w) = AllOf(w)
  BY <1>4 DEF MadeOf
<1>6. w.addr \in PktAddrs /\ w.tag \in Tags
  BY WritesTyped DEF FlowInv
<1>7. PICK s \in Slices : p.addr = w.addr + s
  BY <1>2, <1>5 DEF PacketAddrs
<1>8. mem_data[p.addr] = <<w.tag, s>>
  <2>1. ReadBegun(prog, w.addr)
    BY <1>2, <1>5 DEF ReadBegun
  <2> QED BY <1>6, <1>7, <2>1, ReadStored
<1>9. p.addr - w.addr = s
  <2>1. w.addr \in Nat
    BY <1>6, TlmAssumption
  <2>2. s \in Nat
    BY TlmAssumption DEF Slices
  <2> QED BY <1>7, <2>1, <2>2
<1>10. <<w.tag, s>> \in Cells
  BY <1>6 DEF Cells
<1>11. Sim!Gathered(h) = Append(d, <<w.tag, s>>) /\ d \in Seq(Cells)
  BY <1>8 DEF Sim!Gathered, TypeInv, BurstsTyped
<1>12. /\ Sim!Gathered(h) \in Seq(Cells)
       /\ Items(Sim!Gathered(h)) = Items(d) \cup {<<w.tag, s>>}
  <2> DEFINE x == <<w.tag, s>>
  <2>1. x \in Cells
    BY <1>10
  <2> HIDE DEF x
  <2>2. Append(d, x) \in Seq(Cells) /\ Items(Append(d, x)) = Items(d) \cup {x}
    BY <1>11, <2>1, AppendFacts
  <2> QED BY <1>11, <2>2 DEF x
<1>13. Due(h, w)' \cup {<<w.tag, s>>} = Due(h, w)
  <2>1. Due(h, w)' = {<<w.tag, x.addr - w.addr>> : x \in OpenOf(h, "R") \ {p}}
    BY <1>1 DEF Due
  <2>2. Due(h, w) = {<<w.tag, x.addr - w.addr>> : x \in OpenOf(h, "R")}
    BY DEF Due
  <2> DEFINE e(x) == <<w.tag, x.addr - w.addr>>
             O == OpenOf(h, "R")
  <2>3. e(p) = <<w.tag, s>>
    BY <1>9
  <2> HIDE DEF e, O, p
  <2>4. {e(x) : x \in O \ {p}} \cup {e(p)} = {e(x) : x \in O}
    BY <1>1 DEF O
  <2> QED BY <2>1, <2>2, <2>3, <2>4 DEF e, O
<1>14. Items(Sim!Gathered(h)) \cup Due(h, w)' = AllOf(w)
  BY <1>5, <1>12, <1>13
<1> QED BY <1>5, <1>12, <1>14

(* A falling edge that gathers a read ack keeps the answer a part of one write. *)
LEMMA AnswerNegedge ==
  ASSUME PacketsOnce, NEW prog \in Programs, TypeInv, TypeInv', [Next]_vars, FlowInv(prog),
         OnceInv, OnceInv', SignalInv(prog), StoreInv(prog), ReadInv, NEW h \in Hosts,
         AnswerOf(prog, h), SimNegedge(h)
  PROVE  AnswerOf(prog, h)'
<1>1. /\ pkt' = pkt /\ toHost'[h] = toHost[h] \o Response(h)
      /\ packet_data'[h] = IF Sim!ReadComplete(h) THEN <<>> ELSE Sim!Gathered(h)
      /\ toHost[h] \in Seq(Seq(Cells)) /\ packet_data[h] \in Seq(Cells)
      /\ rack_queue[h] \in Seq(Payload)
  <2>1. NegedgeControl(h) /\ NegedgeBursts(h)
    BY NegedgeDoes
  <2>2. /\ toHost \in [Hosts -> Seq(Seq(Cells))] /\ packet_data \in [Hosts -> Seq(Cells)]
        /\ rack_queue \in [Hosts -> Seq(Payload)]
    BY DEF TypeInv, HostTyped, BurstsTyped, QueuesTyped
  <2>3. pkt' = pkt /\ toHost' = [toHost EXCEPT ![h] = toHost[h] \o Response(h)]
    BY <2>1 DEF NegedgeControl
  <2>4. packet_data' = [packet_data EXCEPT ![h] =
                          IF Sim!ReadComplete(h) THEN <<>> ELSE Sim!Gathered(h)]
    BY <2>1 DEF NegedgeBursts
  <2> QED BY <2>2, <2>3, <2>4
<1>2. OpenLoses(NegedgeAcks(h))
  BY NegedgeLoses
<1>3. CASE rack_queue[h] = <<>>
  <2>1. ~Sim!ReadComplete(h) /\ Sim!Gathered(h) = packet_data[h] /\ Response(h) = <<>>
    BY <1>3 DEF Sim!ReadComplete, Sim!Gathered, Response
  <2>2. toHost'[h] = toHost[h] /\ packet_data'[h] = packet_data[h]
    BY <1>1, <2>1, ConcatEmptySeq
  <2>3. OpenOf(h, "R")' = OpenOf(h, "R")
    <3>1. Items(Front(rack_queue[h])) = {}
      BY <1>1, <1>3, FrontItems
    <3> QED BY <1>2, <3>1, OpenOfLoses
  <2> QED BY <1>1, <2>2, <2>3, AnswerKept DEF FlowInv
<1>4. CASE rack_queue[h] # <<>>
  <2> DEFINE p == Head(rack_queue[h])
             G == Sim!Gathered(h)
  <2>1. p \in OpenOf(h, "R") /\ OpenOf(h, "R")' = OpenOf(h, "R") \ {p}
    <3>1. Items(Front(rack_queue[h])) = {p}
      BY <1>1, <1>4, FrontItems
    <3> QED BY <1>2, <3>1, OpenOfLoses
  <2>2. Fetching(h)
    <3>1. ReadParts(h) # 0
      BY <2>1, ReadPartsTyped
    <3> QED BY <3>1 DEF ReadInv, ReadPhase, Idle, Asked, Syncing, Replied
  <2>3. toHost[h] = <<>>
    BY <2>2 DEF Fetching
  <2>4. PICK g \in Hosts : \E w \in Writes(prog, g) :
          /\ w.addr = pkt[h].addr /\ G \in Seq(Cells)
          /\ Items(G) \cup Due(h, w)' = AllOf(w)
    BY <1>4, <2>3, PartFetched
  <2>5. PICK w \in Writes(prog, g) :
          /\ w.addr = pkt[h].addr /\ G \in Seq(Cells)
          /\ Items(G) \cup Due(h, w)' = AllOf(w)
    BY <2>4
  <2>6. w \in Writes(prog, g)'
    BY WritesGrow DEF FlowInv
  <2>7. Past(prog, "R", pkt[h].addr) /\ \A x \in OpenOf(h, "R") : x.addr \in PacketAddrs(pkt[h].addr)
    BY <2>1 DEF AnswerOf, Busy
  <2>8. (Past(prog, "R", pkt[h].addr))'
    <3>1. PICK a : a = pkt[h].addr
      OBVIOUS
    <3>2. Past(prog, "R", a)'
      BY <2>7, <3>1, PastStays DEF FlowInv
    <3> QED BY <1>1, <3>1, <3>2 DEF Past
  <2>9. MadeOf(h, w)'
    <3>1. CASE ~Sim!ReadComplete(h)
      <4>1. Response(h) = <<>> /\ packet_data'[h] = G
        BY <1>1, <3>1 DEF Response
      <4>2. toHost'[h] = <<>>
        BY <1>1, <2>3, <4>1, ConcatEmptySeq
      <4> QED BY <1>1, <2>5, <4>1, <4>2 DEF MadeOf, AllOf
    <3>2. CASE Sim!ReadComplete(h)
      <4>1. Response(h) = <<G>> /\ packet_data'[h] = <<>> /\ Len(G) = PayloadNum
        BY <1>1, <3>2 DEF Response, Sim!ReadComplete
      <4>2. toHost'[h] = <<G>>
        BY <1>1, <2>3, <4>1
      <4>3. OpenOf(h, "R")' = {}
        <5>1. ReadParts(h)' = 0
          <6>1. ReadParts(h)' = ReadParts(h) - PayloadNum
            BY <3>2, NegedgeParts
          <6> QED BY <2>2, <6>1, TlmAssumption DEF Fetching
        <5>2. IsFiniteSet(OpenOf(h, "R")') /\ Cardinality(OpenOf(h, "R")') \in Nat
          BY OpenOfCountNext
        <5>3. Cardinality(OpenOf(h, "R")') = 0
          BY <4>1, <5>1, <5>2 DEF ReadParts
        <5> QED BY <5>2, <5>3, FS_EmptySet
      <4>4. Due(h, w)' = {}
        BY <4>3 DEF Due
      <4>5. Items(G) = AllOf(w)
        BY <2>5, <4>4
      <4>6. toHost'[h] # <<>> /\ Head(toHost'[h]) = G
        BY <4>2
      <4> QED BY <1>1, <2>5, <4>1, <4>5, <4>6 DEF MadeOf, AllOf
    <3> QED BY <3>1, <3>2
  <2>10. (\E f \in Hosts : \E v \in Writes(prog, f) : MadeOf(h, v))'
    BY <2>6, <2>9
  <2>11. \A x \in OpenOf(h, "R")' : x.addr \in PacketAddrs(pkt'[h].addr)
    BY <1>1, <2>1, <2>7
  <2> QED BY <2>8, <2>10, <2>11 DEF AnswerOf
<1> QED BY <1>3, <1>4

(* A thread's own step keeps the answers. *)
LEMMA AnswerSilent ==
  ASSUME PacketsOnce, NEW prog \in Programs, TypeInv, TypeInv', [Next]_vars, FlowInv(prog),
         OnceInv, OnceInv', ReadInv, NEW g \in Hosts, Silent(g), NEW h \in Hosts,
         AnswerOf(prog, h)
  PROVE  AnswerOf(prog, h)'
<1>1. OpenOf(h, "R")' = OpenOf(h, "R") /\ packet_data' = packet_data
  <2>1. OpenKept
    BY MovesKeep
  <2> QED BY <2>1, OpenOfKept DEF Silent, burstVars
<1>2. CASE h # g
  <2>1. SameView(h)
    BY <1>2, OthersView
  <2> QED BY <1>1, <2>1, AnswerKept DEF SameView, FlowInv
<1>3. CASE h = g /\ GetResponse(g)
  <2>1. /\ toHost[h] # <<>> /\ toHost' = [toHost EXCEPT ![h] = Tail(toHost[h])]
        /\ toHost \in [Hosts -> Seq(Seq(Cells))]
    BY <1>3 DEF GetResponse, Host!GetResponse, TypeInv, HostTyped
  <2>2. Len(toHost[h]) = 1 /\ OpenOf(h, "R") = {} /\ packet_data[h] = <<>>
    <3>1. Replied(h)
      BY <2>1 DEF ReadInv, ReadPhase, Idle, Asked, Syncing, Fetching
    <3> QED BY <3>1, ReadPartsTyped DEF Replied
  <2>3. toHost'[h] = <<>>
    <3>1. toHost'[h] = Tail(toHost[h])
      BY <2>1
    <3>2. Len(Tail(toHost[h])) = 0 /\ Tail(toHost[h]) \in Seq(Seq(Cells))
      BY <2>1, <2>2, TailFacts
    <3> QED BY <3>1, <3>2, SeqFacts
  <2>4. ~Busy(h)'
    BY <1>1, <2>2, <2>3 DEF Busy
  <2> QED BY <2>4 DEF AnswerOf
<1>4. CASE h = g /\ Receive(g)
  <2>1. toHost' = toHost /\ toSim[h] # <<>>
    BY <1>4 DEF Receive, Host!GiveRequest
  <2>2. ~Busy(h)
    <3>1. toHost[h] = <<>> /\ ReadParts(h) = 0
      BY <2>1 DEF ReadInv, ReadPhase, Idle, Asked, Syncing, Fetching, Replied, ReadInHand
    <3> QED BY <3>1, ReadPartsTyped DEF Busy
  <2> QED BY <1>1, <2>1, <2>2, AnswerKept DEF FlowInv
<1>5. CASE h = g /\ Send(g)
  <2>1. toHost' = toHost /\ pkt' = pkt
    BY <1>5 DEF Send, Host!Send, simVars
  <2> QED BY <1>1, <2>1, AnswerKept DEF FlowInv
<1>6. CASE h = g /\ ThreadAlone(g)
  <2>1. toHost' = toHost /\ pkt' = pkt
    BY <1>6 DEF ThreadAlone, hostVars, Sim!Spin, Sim!CheckSignal, Sim!FreeSignal,
                Sim!HandleTerminate, Sim!LeaveCore, Sim!Stop
  <2> QED BY <1>1, <2>1, AnswerKept DEF FlowInv
<1> QED BY <1>2, <1>3, <1>4, <1>5, <1>6 DEF Silent

(* Every step keeps the answers. *)
LEMMA AnswerStep ==
  ASSUME PacketsOnce, NEW prog \in Programs, TypeInv, TypeInv', FlowInv(prog), OnceInv,
         OnceInv', SignalInv(prog), StoreInv(prog), ReadInv, AnswerInv(prog), [Next]_vars
  PROVE  AnswerInv(prog)'
<1> SUFFICES ASSUME NEW h \in Hosts PROVE AnswerOf(prog, h)'
  BY DEF AnswerInv
<1>1. AnswerOf(prog, h) /\ EndInv(prog)
  BY DEF AnswerInv, FlowInv
<1>2. ASSUME OpenKept, UNCHANGED <<pkt, packet_data, toHost>> PROVE AnswerOf(prog, h)'
  BY <1>1, <1>2, OpenOfKept, AnswerKept
<1>3. ASSUME NEW g \in Hosts, Silent(g) PROVE AnswerOf(prog, h)'
  BY <1>1, <1>3, AnswerSilent
<1>4. ASSUME NEW g \in Hosts, ReadCut(g) \/ WriteCut(g), g # h \/ WriteCut(g)
      PROVE  AnswerOf(prog, h)'
  <2>1. UNCHANGED <<pkt, packet_data, toHost>>
    BY <1>4, HandleReadDoes, HandleWriteDoes DEF ReadCut, WriteCut, hostVars
  <2>2. pkt[g] \in Packet /\ (ReadCut(g) => pkt[g].type = "R") /\ (WriteCut(g) => pkt[g].type = "W")
    BY HandleReadDoes, HandleWriteDoes DEF ReadCut, WriteCut, TypeInv, ControlTyped
  <2>3. OpenOf(h, "R")' = OpenOf(h, "R")
    <3>1. CASE ReadCut(g) /\ g # h
      <4> DEFINE r == ReadPayloads(g, pkt[g])
      <4>1. /\ r \in Seq(Payload) /\ OnceIn(r) /\ OpenAdds(r)
            /\ \A p \in Items(r) : p.id = g /\ p.cmd = "R"
        BY <1>1, <2>2, <3>1, CutTyped, CutsDiffer, CutKnown, CutOpens
      <4> HIDE DEF r
      <4>2. \A f, c : <<f, c>> # <<g, "R">> => OpenOf(f, c)' = OpenOf(f, c)
        BY <4>1, OpenOfAdds
      <4>3. <<h, "R">> # <<g, "R">>
        BY <3>1
      <4> QED BY <4>2, <4>3
    <3>2. CASE WriteCut(g)
      <4> DEFINE r == WritePayloads(g, pkt[g])
      <4>1. /\ r \in Seq(Payload) /\ OnceIn(r) /\ OpenAdds(r)
            /\ \A p \in Items(r) : p.id = g /\ p.cmd = "W"
        BY <1>1, <2>2, <3>2, CutTyped, CutsDiffer, CutKnown, CutOpens
      <4> HIDE DEF r
      <4>2. \A f, c : <<f, c>> # <<g, "W">> => OpenOf(f, c)' = OpenOf(f, c)
        BY <4>1, OpenOfAdds
      <4>3. <<h, "R">> # <<g, "W">>
        BY SMT
      <4> QED BY <4>2, <4>3
    <3> QED BY <1>4, <3>1, <3>2
  <2> QED BY <1>1, <2>1, <2>3, AnswerKept
<1>5. ASSUME ReadCut(h) PROVE AnswerOf(prog, h)'
  BY <1>5, AnswerCut
<1>6. ASSUME SimNegedge(h) PROVE AnswerOf(prog, h)'
  BY <1>1, <1>6, AnswerNegedge
<1>7. ASSUME NEW g \in Hosts, g # h, SimNegedge(g) PROVE AnswerOf(prog, h)'
  <2>1. SameView(h)
    BY <1>7, OthersView
  <2>2. OpenOf(h, "R")' = OpenOf(h, "R")
    <3>1. OpenLoses(NegedgeAcks(g))
      BY <1>7, NegedgeLoses
    <3>2. \A f, c : <<f, c>> \notin {<<g, "R">>, <<g, "W">>} => OpenOf(f, c)' = OpenOf(f, c)
      BY <3>1, OpenOfLoses
    <3>3. <<h, "R">> \notin {<<g, "R">>, <<g, "W">>}
      BY <1>7
    <3> QED BY <3>2, <3>3
  <2>3. packet_data'[h] = packet_data[h]
    <3>1. NegedgeBursts(g)
      BY <1>7, NegedgeDoes
    <3> PICK v : v = IF Sim!ReadComplete(g) THEN <<>> ELSE Sim!Gathered(g)
      OBVIOUS
    <3>2. packet_data' = [packet_data EXCEPT ![g] = v]
      BY <3>1 DEF NegedgeBursts
    <3>3. packet_data \in [Hosts -> Seq(Cells)]
      BY DEF TypeInv, BurstsTyped
    <3> QED BY <1>7, <3>2, <3>3
  <2> QED BY <1>1, <2>1, <2>2, <2>3, AnswerKept DEF SameView
<1>8. ASSUME NEW g \in Hosts, SimPosedge(g) \/ LinkForward(g) \/ LinkBackward(g)
      PROVE  AnswerOf(prog, h)'
  <2>1. OpenKept
    BY <1>8, MovesKeep
  <2>2. UNCHANGED <<pkt, packet_data, toHost>>
    <3>1. SimPosedge(g) => UNCHANGED controlVars /\ UNCHANGED burstVars
      BY PosedgeDoes
    <3>2. LinkBackward(g) => UNCHANGED controlVars /\ UNCHANGED burstVars
      BY BackwardDoes
    <3>3. LinkForward(g) => UNCHANGED simVars /\ UNCHANGED hostVars
      BY DEF LinkForward
    <3> QED BY <1>8, <3>1, <3>2, <3>3 DEF controlVars, burstVars, simVars, hostVars
  <2> QED BY <1>2, <2>1, <2>2
<1>9. ASSUME UNCHANGED vars \/ SwitchForward \/ MemPosedge \/ SimulateDram \/ MemNegedge
             \/ SwitchBackward
      PROVE  AnswerOf(prog, h)'
  <2>1. UNCHANGED simVars /\ UNCHANGED hostVars
    BY <1>9 DEF vars, SwitchForward, MemPosedge, SimulateDram, MemNegedge, SwitchBackward
  <2>2. OpenKept
    BY <1>9, MovesKeep, DramKeeps
  <2> QED BY <1>2, <2>1, <2>2 DEF simVars, hostVars
<1> QED BY <1>3, <1>4, <1>5, <1>6, <1>7, <1>8, <1>9, NextCases

(* A step keeps the answer invariant and those it rests on together. *)
LEMMA AnswersStep ==
  ASSUME PacketsOnce
  PROVE  AnswersHold /\ [Next]_vars => AnswersHold'
<1> SUFFICES ASSUME AnswersHold, [Next]_vars PROVE AnswersHold'
  OBVIOUS
<1>1. ReadsHold /\ ReadsHold'
  BY ReadsStep DEF AnswersHold
<1>2. TypeInv /\ TypeInv' /\ OnceInv /\ OnceInv' /\ WritesInv /\ OrderInv /\ ReadInv
  BY <1>1 DEF AnswersHold, ReadsHold, CountsHold, FlowHolds
<1>3. PICK prog \in Programs : /\ FlowInv(prog) /\ SignalInv(prog) /\ SourceInv(prog)
                               /\ StoreInv(prog) /\ AnswerInv(prog)
  BY DEF AnswersHold
<1>4. FlowInv(prog)'
  BY <1>2, <1>3, OnceIsOwn, FlowStep
<1>5. SignalInv(prog)'
  BY <1>2, <1>3, SignalStep
<1>6. SourceInv(prog)'
  BY <1>2, <1>3, SourceStep
<1>7. OrderInv'
  BY <1>2, <1>3, OrderStep
<1>8. StoreInv(prog)'
  BY <1>2, <1>3, StoreStep DEF SignalInv
<1>9. AnswerInv(prog)'
  BY <1>2, <1>3, AnswerStep
<1> QED BY <1>1, <1>4, <1>5, <1>6, <1>7, <1>8, <1>9 DEF AnswersHold

(* They hold in every reachable state. *)
LEMMA AnswersAlways ==
  ASSUME PacketsOnce
  PROVE  Spec => []AnswersHold
<1>1. Init => ReadsHold
  <2>1. Init => CountsHold
    BY TypeInvInit, FlowInit, OpenAtStart DEF CountsHold, FlowHolds
  <2> QED BY <2>1, ReadAtStart DEF ReadsHold
<1>2. ASSUME Init, NEW prog \in Programs PROVE AnswerInv(prog)
  <2>1. \A h \in Hosts : toHost[h] = <<>> /\ packet_data[h] = <<>> /\ Open = {}
    BY <1>2, OpenAtStart DEF Init, Host!Init
  <2>2. \A h \in Hosts : ~Busy(h)
    BY <2>1 DEF Busy, OpenOf
  <2> QED BY <2>2 DEF AnswerInv, AnswerOf
<1>3. Init => AnswersHold
  BY <1>1, <1>2, FlowInit, SignalAtStart, StoreAtStart DEF AnswersHold
<1>4. AnswersHold /\ [Next]_vars => AnswersHold'
  BY AnswersStep
<1> QED BY <1>3, <1>4, PTL DEF Spec

(* A read is answered once, with all the parts of the packet written at  *)
(* its address: clock_negedge (sim_wrapper.cpp) counts and collects them *)
(* by number, from acks that crossed the DRAM and three queues.          *)
THEOREM AnswersComplete ==
  ASSUME PacketsOnce
  PROVE  Spec => []ReadReturnsData
<1>1. AnswersHold => ReadReturnsData
  <2> SUFFICES ASSUME AnswersHold, NEW h \in Hosts, toHost[h] # <<>>
               PROVE  /\ Len(toHost[h]) = 1
                      /\ \E p \in awaiting[h], t \in Tags :
                           /\ t \in TagsWrittenAt(p.addr)
                           /\ Len(Head(toHost[h])) = PayloadNum
                           /\ Items(Head(toHost[h])) = {<<t, i>> : i \in Slices}
    BY DEF ReadReturnsData
  <2>1. PICK prog \in Programs : FlowInv(prog) /\ AnswerInv(prog)
    BY DEF AnswersHold
  <2>2. Replied(h)
    BY DEF AnswersHold, ReadsHold, ReadInv, ReadPhase, Idle, Asked, Syncing, Fetching
  <2>3. Len(toHost[h]) = 1 /\ awaiting[h] = {pkt[h]}
    BY <2>2 DEF Replied, ReadInHand
  <2>4. AnswerOf(prog, h) /\ Busy(h)
    BY <2>1 DEF AnswerInv, Busy
  <2>5. PICK g \in Hosts : \E w \in Writes(prog, g) : MadeOf(h, w)
    BY <2>4 DEF AnswerOf
  <2>6. PICK w \in Writes(prog, g) : MadeOf(h, w)
    BY <2>5
  <2>7. w.tag \in Tags /\ w.type = "W" /\ w.addr = pkt[h].addr
    BY <2>1, <2>6, WritesTyped DEF FlowInv, MadeOf
  <2>8. w.tag \in TagsWrittenAt(pkt[h].addr)
    <3>1. w \in Items(prog[g])
      <4>1. prog[g] \in Seq(Packet) /\ IsEndOf(ToCome(g), prog[g])
        BY <2>1, HostAssumption DEF FlowInv, EndInv
      <4>2. /\ DOMAIN prog[g] = 1 .. Len(prog[g]) /\ Len(prog[g]) \in Nat
            /\ Len(ToCome(g)) \in Nat
        BY <4>1, SeqFacts DEF IsEndOf
      <4> DEFINE t == Taken(prog[g], ToCome(g))
                 n == Len(prog[g])
      <4>3. t \in Int /\ t <= n /\ n \in Nat
        BY <4>2 DEF Taken
      <4> HIDE DEF t, n
      <4>4. \A k \in 1 .. t : k \in 1 .. n
        BY <4>3
      <4> QED BY <4>2, <4>4 DEF Writes, Items, t, n
    <3> QED BY <2>7, <3>1 DEF TagsWrittenAt
  <2>9. Len(Head(toHost[h])) = PayloadNum /\ Items(Head(toHost[h])) = {<<w.tag, i>> : i \in Slices}
    BY <2>6 DEF MadeOf, AllOf
  <2> QED BY <2>3, <2>7, <2>8, <2>9
<1> QED BY <1>1, AnswersAlways, PTL
-----------------------------------------------------------------------------
(* The simulator implements mailboxes *)

(* A packet stored whole is what the mapping finds at its address. *)
LEMMA StoredIs ==
  \A a \in PktAddrs, t \in Tags : Whole(a, t) => Stored(a) = t /\ t # Nothing
<1> SUFFICES ASSUME NEW a \in PktAddrs, NEW t \in Tags, Whole(a, t)
             PROVE  Stored(a) = t /\ t # Nothing
  OBVIOUS
<1>1. t # NoData /\ \A i \in Slices : <<t, i>> # NoData
  BY DataAssumption
<1>2. 0 \in Slices /\ a + 0 = a
  BY TlmAssumption DEF Slices
<1>3. mem_data[a] = <<t, 0>>
  BY <1>2 DEF Whole
<1>4. mem_data[a][1] = t
  BY <1>3
<1>5. ~ \E i \in Slices : mem_data[a + i] = NoData \/ mem_data[a + i] # <<mem_data[a][1], i>>
  BY <1>1, <1>4 DEF Whole
<1> QED BY <1>1, <1>4, <1>5 DEF Stored, Nothing

(* StoredIs after a step. *)
LEMMA StoredIsNext ==
  (\A a \in PktAddrs, t \in Tags : Whole(a, t) => Stored(a) = t /\ t # Nothing)'
<1>1. \A a \in PktAddrs, t \in Tags : Whole(a, t) => Stored(a) = t /\ t # Nothing
  BY StoredIs
<1> QED BY <1>1, PTL

(* What is stored whole at the address of a write that was cut stays so. *)
LEMMA WholeStays ==
  ASSUME PacketsOnce, NEW prog \in Programs, TypeInv, [Next]_vars, FlowInv(prog),
         NEW g \in Hosts, NEW w \in Writes(prog, g), Whole(w.addr, w.tag)
  PROVE  Whole(w.addr, w.tag)'
<1>1. CASE WayOut
  <2> SUFFICES ASSUME NEW i \in Slices PROVE mem_data'[w.addr + i] = <<w.tag, i>>
    BY DEF Whole
  <2>1. mem_data[w.addr + i] = <<w.tag, i>>
    BY DEF Whole
  <2> QED BY <1>1, <2>1, StoredOut
<1>2. CASE ~WayOut
  <2>1. mem_data' = mem_data
    BY <1>2, WayGrows
  <2> QED BY <2>1 DEF Whole
<1> QED BY <1>1, <1>2

(* A raised flag, or a read that has cleared it, stands for a packet that *)
(* is stored whole.                                                       *)
LEMMA FullIsWhole ==
  ASSUME NEW prog \in Programs, Mail(prog), NEW a \in PktAddrs,
         sync[a] \/ ReadBegun(prog, a)
  PROVE  /\ \E g \in Hosts : \E w \in Writes(prog, g) : w.addr = a
         /\ \A g \in Hosts : \A w \in Writes(prog, g) :
              w.addr = a => w.tag \in Tags /\ Whole(a, w.tag)
<1>1. Past(prog, "W", a) /\ a \notin Content(sync_queue)
  BY DEF Mail, SignalInv
<1>2. DOMAIN sync_queue = Hosts
  BY DEF Mail, TypeInv, BurstsTyped
<1>3. \A g \in Hosts : a \notin Items(sync_queue[g])
  BY <1>1, <1>2, InContent
<1>4. \A g \in Hosts : \A w \in Writes(prog, g) : w.addr = a => Whole(a, w.tag)
  BY <1>3 DEF Mail, StoreInv, Whole
<1>5. \A g \in Hosts : \A w \in Writes(prog, g) : w.tag \in Tags
  BY WritesTyped DEF Mail, FlowInv
<1> QED BY <1>1, <1>4, <1>5 DEF Past, Writes

(* Such a packet is read the same after every step. *)
LEMMA FullStays ==
  ASSUME PacketsOnce, NEW prog \in Programs, Mail(prog), [Next]_vars,
         NEW a \in PktAddrs, sync[a] \/ ReadBegun(prog, a)
  PROVE  Stored(a)' = Stored(a) /\ Stored(a) # Nothing /\ Stored(a) \in Tags
<1>1. PICK g \in Hosts : \E w \in Writes(prog, g) : w.addr = a
  BY FullIsWhole
<1>2. PICK w \in Writes(prog, g) : w.addr = a
  BY <1>1
<1>3. w.tag \in Tags /\ Whole(w.addr, w.tag)
  BY <1>2, FullIsWhole
<1>4. Whole(w.addr, w.tag)'
  BY <1>3, WholeStays DEF Mail
<1>5. PICK t \in Tags : t = w.tag
  BY <1>3
<1>6. Whole(a, t) /\ Whole(a, t)'
  BY <1>2, <1>3, <1>4, <1>5 DEF Whole
<1>7. Stored(a) = t /\ t # Nothing
  BY <1>6, StoredIs
<1>8. Stored(a)' = t
  BY <1>6, StoredIsNext
<1> QED BY <1>7, <1>8

(* A read that is open has cleared the flag of its address. *)
LEMMA OpenHasBegun ==
  ASSUME NEW prog \in Programs, Mail(prog), NEW h \in Hosts, ReadOpen(h)
  PROVE  pkt[h].addr \in PktAddrs /\ ReadBegun(prog, pkt[h].addr)
<1>1. pkt[h] \in Packet /\ pkt[h].type = "R"
  BY DEF Mail, TypeInv, ControlTyped, ReadOpen
<1>2. pkt[h].addr \in PktAddrs
  BY <1>1 DEF Packet
<1>3. CASE pc[h] = "read"
  BY <1>2, <1>3 DEF ReadBegun
<1>4. CASE pc[h] = "poll"
  <2>1. Fetching(h)
    BY <1>4 DEF Mail, ReadInv, ReadPhase, Idle, Asked, Syncing, Replied, Reading, LastRead, ReadOpen
  <2>2. ReadParts(h) # 0
    BY <2>1, TlmAssumption DEF Fetching
  <2>3. OpenOf(h, "R") # {} \/ packet_data[h] # <<>>
    <3> SUFFICES ASSUME OpenOf(h, "R") = {}, packet_data[h] = <<>> PROVE FALSE
      OBVIOUS
    <3>1. Cardinality(OpenOf(h, "R")) = 0 /\ Len(packet_data[h]) = 0
      BY FS_EmptySet
    <3>2. ReadParts(h) = 0
      BY <3>1 DEF ReadParts
    <3> QED BY <2>2, <3>2
  <2>4. AnswerOf(prog, h) /\ Busy(h)
    BY <2>3 DEF Mail, AnswerInv, Busy
  <2> QED BY <1>2, <2>4 DEF AnswerOf, ReadBegun
<1> QED BY <1>3, <1>4 DEF ReadOpen

(* A box changes only with its flag. *)
LEMMA BoxStays ==
  ASSUME PacketsOnce, NEW prog \in Programs, Mail(prog), [Next]_vars,
         NEW a \in PktAddrs, sync'[a] = sync[a]
  PROVE  BoxOf(a)' = BoxOf(a)
<1>1. CASE sync[a]
  BY <1>1, FullStays DEF BoxOf
<1>2. CASE ~sync[a]
  BY <1>2 DEF BoxOf, Nothing
<1> QED BY <1>1, <1>2

(* What a host's read holds changes only when the read opens or closes. *)
LEMMA HeldStays ==
  ASSUME PacketsOnce, NEW prog \in Programs, Mail(prog), [Next]_vars,
         NEW h \in Hosts, ReadOpen(h)' <=> ReadOpen(h),
         ReadOpen(h) => pkt'[h] = pkt[h]
  PROVE  HeldBy(h)' = HeldBy(h)
<1>1. CASE ReadOpen(h)
  <2>1. PICK a \in PktAddrs : a = pkt[h].addr
    BY <1>1, OpenHasBegun
  <2>2. ReadBegun(prog, a)
    BY <1>1, <2>1, OpenHasBegun DEF ReadBegun
  <2>3. Stored(a)' = Stored(a)
    BY <2>2, FullStays
  <2>4. Stored(pkt[h].addr) = Stored(a)
    BY <2>1
  <2>5. Stored(pkt[h].addr)' = Stored(a)'
    BY <1>1, <2>1 DEF Stored
  <2> QED BY <1>1, <2>3, <2>4, <2>5 DEF HeldBy
<1>2. CASE ~ReadOpen(h)
  BY <1>2 DEF HeldBy, Nothing
<1> QED BY <1>1, <1>2

(* Parts that are all the slices of one packet are read as that packet. *)
LEMMA AnsweredIs ==
  ASSUME NEW parts \in Seq(Cells), Len(parts) = PayloadNum, NEW t,
         Items(parts) = {<<t, s>> : s \in Slices}
  PROVE  Answered(parts) = t
<1>1. 1 \in DOMAIN parts
  BY TlmAssumption
<1>2. parts[1] \in Items(parts)
  BY <1>1 DEF Items
<1>3. PICK s \in Slices : parts[1] = <<t, s>>
  BY <1>2
<1>4. parts[1][1] = t
  BY <1>3
<1>5. {t} \X Slices = {<<t, i>> : i \in Slices}
  OBVIOUS
<1>6. {parts[i] : i \in DOMAIN parts} = {parts[1][1]} \X Slices
  BY <1>4, <1>5 DEF Items
<1> QED BY <1>4, <1>6 DEF Answered

(* The answer that waits for a host is the packet written at the address *)
(* of its read.                                                          *)
LEMMA AnswerIs ==
  \A prog \in Programs, h \in Hosts :
    Mail(prog) /\ toHost[h] # <<>> =>
      \E g \in Hosts : \E w \in Writes(prog, g) :
        w.addr = pkt[h].addr /\ w.tag \in Tags /\ AnswerTo(h) = w.tag
<1> SUFFICES ASSUME NEW prog \in Programs, NEW h \in Hosts, Mail(prog), toHost[h] # <<>>
             PROVE  \E g \in Hosts : \E w \in Writes(prog, g) :
                      w.addr = pkt[h].addr /\ w.tag \in Tags /\ AnswerTo(h) = w.tag
  OBVIOUS
<1>1. AnswerOf(prog, h) /\ Busy(h)
  BY DEF Mail, AnswerInv, Busy
<1>2. PICK g \in Hosts : \E w \in Writes(prog, g) : MadeOf(h, w)
  BY <1>1 DEF AnswerOf
<1>3. PICK w \in Writes(prog, g) : MadeOf(h, w)
  BY <1>2
<1>4. w.tag \in Tags
  BY WritesTyped DEF Mail, FlowInv
<1>5. toHost[h] \in Seq(Seq(Cells))
  BY DEF Mail, TypeInv, HostTyped
<1> DEFINE parts == Head(toHost[h])
<1>6. parts \in Seq(Cells)
  BY <1>5
<1>7. Len(parts) = PayloadNum /\ Items(parts) = {<<w.tag, s>> : s \in Slices}
  BY <1>3 DEF MadeOf, AllOf
<1> HIDE DEF parts
<1>8. Answered(parts) = w.tag
  BY <1>6, <1>7, AnsweredIs
<1>9. w.addr = pkt[h].addr
  BY <1>3 DEF MadeOf
<1> QED BY <1>4, <1>8, <1>9 DEF AnswerTo, parts

(* AnswerIs after a step. *)
LEMMA AnswerIsNext ==
  (\A prog \in Programs, h \in Hosts :
     Mail(prog) /\ toHost[h] # <<>> =>
       \E g \in Hosts : \E w \in Writes(prog, g) :
         w.addr = pkt[h].addr /\ w.tag \in Tags /\ AnswerTo(h) = w.tag)'
<1>1. \A prog \in Programs, h \in Hosts :
        Mail(prog) /\ toHost[h] # <<>> =>
          \E g \in Hosts : \E w \in Writes(prog, g) :
            w.addr = pkt[h].addr /\ w.tag \in Tags /\ AnswerTo(h) = w.tag
  BY AnswerIs
<1> QED BY <1>1, PTL

(* A flag that is raised by a step stands for a box that is filled. *)
LEMMA BoxFilled ==
  \A prog \in Programs, a \in PktAddrs :
    Mail(prog) /\ sync[a] => BoxOf(a) \in Tags /\ BoxOf(a) # Nothing
<1> SUFFICES ASSUME NEW prog \in Programs, NEW a \in PktAddrs, Mail(prog), sync[a]
             PROVE  BoxOf(a) \in Tags /\ BoxOf(a) # Nothing
  OBVIOUS
<1>1. PICK g \in Hosts : \E w \in Writes(prog, g) : w.addr = a
  BY FullIsWhole
<1>2. PICK w \in Writes(prog, g) : w.addr = a
  BY <1>1
<1>3. w.tag \in Tags /\ Whole(a, w.tag)
  BY <1>2, FullIsWhole
<1>4. Stored(a) = w.tag /\ w.tag # Nothing
  BY <1>3, StoredIs
<1> QED BY <1>3, <1>4 DEF BoxOf

(* BoxFilled after a step. *)
LEMMA BoxFilledNext ==
  (\A prog \in Programs, a \in PktAddrs :
     Mail(prog) /\ sync[a] => BoxOf(a) \in Tags /\ BoxOf(a) # Nothing)'
<1>1. \A prog \in Programs, a \in PktAddrs :
        Mail(prog) /\ sync[a] => BoxOf(a) \in Tags /\ BoxOf(a) # Nothing
  BY BoxFilled
<1> QED BY <1>1, PTL

(* The mapped variables keep their values where every box, or every host, *)
(* does.                                                                  *)
LEMMA MappedKept ==
  /\ (\A a \in PktAddrs : BoxOf(a)' = BoxOf(a)) => Boxed' = Boxed
  /\ (\A h \in Hosts : HeldBy(h)' = HeldBy(h)) => Helds' = Helds
  /\ (\A h \in Hosts : AnswerTo(h)' = AnswerTo(h)) => AnswersTo' = AnswersTo
BY DEF Boxed, Helds, AnswersTo

(* ... and change at one place where the others do not. *)
LEMMA MappedChanged ==
  /\ \A a \in PktAddrs :
       (\A b \in PktAddrs : b # a => BoxOf(b)' = BoxOf(b)) =>
         \A t : BoxOf(a)' = t => Boxed' = [Boxed EXCEPT ![a] = t]
  /\ \A h \in Hosts :
       (\A g \in Hosts : g # h => HeldBy(g)' = HeldBy(g)) =>
         \A t : HeldBy(h)' = t => Helds' = [Helds EXCEPT ![h] = t]
  /\ \A h \in Hosts :
       (\A g \in Hosts : g # h => AnswerTo(g)' = AnswerTo(g)) =>
         \A t : AnswerTo(h)' = t => AnswersTo' = [AnswersTo EXCEPT ![h] = t]
<1>1. ASSUME NEW a \in PktAddrs, \A b \in PktAddrs : b # a => BoxOf(b)' = BoxOf(b),
             NEW t, BoxOf(a)' = t
      PROVE  Boxed' = [Boxed EXCEPT ![a] = t]
  BY <1>1 DEF Boxed
<1>2. ASSUME NEW h \in Hosts, \A g \in Hosts : g # h => HeldBy(g)' = HeldBy(g),
             NEW t, HeldBy(h)' = t
      PROVE  Helds' = [Helds EXCEPT ![h] = t]
  BY <1>2 DEF Helds
<1>3. ASSUME NEW h \in Hosts, \A g \in Hosts : g # h => AnswerTo(g)' = AnswerTo(g),
             NEW t, AnswerTo(h)' = t
      PROVE  AnswersTo' = [AnswersTo EXCEPT ![h] = t]
  BY <1>3 DEF AnswersTo
<1> QED BY <1>1, <1>2, <1>3

(* The steps of Mailbox, in the mapped variables. *)
LEMMA MailboxSteps ==
  /\ Boxed' = Boxed /\ Helds' = Helds /\ AnswersTo' = AnswersTo => UNCHANGED Boxes!vars
  /\ \A a \in PktAddrs : \A t : Boxes!Put(a, t) <=>
       /\ Boxed[a] = Nothing /\ Boxed' = [Boxed EXCEPT ![a] = t]
       /\ Helds' = Helds /\ AnswersTo' = AnswersTo
  /\ \A h \in Hosts, a \in PktAddrs : Boxes!Take(h, a) <=>
       /\ Boxed[a] # Nothing /\ Helds[h] = Nothing /\ AnswersTo[h] = Nothing
       /\ Helds' = [Helds EXCEPT ![h] = Boxed[a]]
       /\ Boxed' = [Boxed EXCEPT ![a] = Nothing] /\ AnswersTo' = AnswersTo
  /\ \A h \in Hosts : Boxes!Answer(h) <=>
       /\ Helds[h] # Nothing /\ AnswersTo' = [AnswersTo EXCEPT ![h] = Helds[h]]
       /\ Helds' = [Helds EXCEPT ![h] = Nothing] /\ Boxed' = Boxed
  /\ \A h \in Hosts, a \in PktAddrs : \A t : Boxes!AnswerAndPut(h, a, t) <=>
       /\ Helds[h] # Nothing /\ Boxed[a] = Nothing
       /\ AnswersTo' = [AnswersTo EXCEPT ![h] = Helds[h]]
       /\ Helds' = [Helds EXCEPT ![h] = Nothing] /\ Boxed' = [Boxed EXCEPT ![a] = t]
  /\ \A h \in Hosts : Boxes!Collect(h) <=>
       /\ AnswersTo[h] # Nothing /\ AnswersTo' = [AnswersTo EXCEPT ![h] = Nothing]
       /\ Boxed' = Boxed /\ Helds' = Helds
<1> USE DEF Boxed, Helds, AnswersTo, BoxOf, HeldBy, AnswerTo
<1>1. Boxed' = Boxed /\ Helds' = Helds /\ AnswersTo' = AnswersTo => UNCHANGED Boxes!vars
  BY DEF Boxes!vars
<1>2. \A a \in PktAddrs : \A t : Boxes!Put(a, t) <=>
       /\ Boxed[a] = Nothing /\ Boxed' = [Boxed EXCEPT ![a] = t]
       /\ Helds' = Helds /\ AnswersTo' = AnswersTo
  BY DEF Boxes!Put
<1>3. \A h \in Hosts, a \in PktAddrs : Boxes!Take(h, a) <=>
       /\ Boxed[a] # Nothing /\ Helds[h] = Nothing /\ AnswersTo[h] = Nothing
       /\ Helds' = [Helds EXCEPT ![h] = Boxed[a]]
       /\ Boxed' = [Boxed EXCEPT ![a] = Nothing] /\ AnswersTo' = AnswersTo
  BY DEF Boxes!Take
<1>4. \A h \in Hosts : Boxes!Answer(h) <=>
       /\ Helds[h] # Nothing /\ AnswersTo' = [AnswersTo EXCEPT ![h] = Helds[h]]
       /\ Helds' = [Helds EXCEPT ![h] = Nothing] /\ Boxed' = Boxed
  BY DEF Boxes!Answer
<1>5. \A h \in Hosts, a \in PktAddrs : \A t : Boxes!AnswerAndPut(h, a, t) <=>
       /\ Helds[h] # Nothing /\ Boxed[a] = Nothing
       /\ AnswersTo' = [AnswersTo EXCEPT ![h] = Helds[h]]
       /\ Helds' = [Helds EXCEPT ![h] = Nothing] /\ Boxed' = [Boxed EXCEPT ![a] = t]
  BY DEF Boxes!AnswerAndPut
<1>6. \A h \in Hosts : Boxes!Collect(h) <=>
       /\ AnswersTo[h] # Nothing /\ AnswersTo' = [AnswersTo EXCEPT ![h] = Nothing]
       /\ Boxed' = Boxed /\ Helds' = Helds
  BY DEF Boxes!Collect
<1> QED BY <1>1, <1>2, <1>3, <1>4, <1>5, <1>6

(* The entries of the mapped variables. *)
LEMMA MappedAt ==
  /\ \A a \in PktAddrs : Boxed[a] = BoxOf(a)
  /\ \A h \in Hosts : Helds[h] = HeldBy(h) /\ AnswersTo[h] = AnswerTo(h)
BY DEF Boxed, Helds, AnswersTo

(* A host whose read neither opens nor closes keeps its part of the map. *)
LEMMA HostStays ==
  ASSUME PacketsOnce, NEW prog \in Programs, Mail(prog), [Next]_vars,
         NEW h \in Hosts, ReadOpen(h)' <=> ReadOpen(h),
         ReadOpen(h) => pkt'[h] = pkt[h], toHost'[h] = toHost[h]
  PROVE  HeldBy(h)' = HeldBy(h) /\ AnswerTo(h)' = AnswerTo(h)
<1>1. HeldBy(h)' = HeldBy(h)
  BY HeldStays
<1>2. AnswerTo(h)' = AnswerTo(h)
  BY DEF AnswerTo, Answered, Nothing
<1> QED BY <1>1, <1>2

(* A step after which a host's process and its wrapper's thread are where *)
(* they were.                                                             *)
LEMMA SameViewStays ==
  ASSUME PacketsOnce, NEW prog \in Programs, Mail(prog), [Next]_vars,
         NEW h \in Hosts, SameView(h)
  PROVE  HeldBy(h)' = HeldBy(h) /\ AnswerTo(h)' = AnswerTo(h)
<1>1. ReadOpen(h)' <=> ReadOpen(h)
  BY DEF SameView, ReadOpen
<1> QED BY <1>1, HostStays DEF SameView

(* A step that neither raises nor clears a flag, nor opens, answers or *)
(* collects a read, is no step of the mailboxes.                       *)
LEMMA MailRests ==
  ASSUME PacketsOnce, NEW prog \in Programs, Mail(prog), [Next]_vars, sync' = sync,
         \A h \in Hosts : /\ ReadOpen(h)' <=> ReadOpen(h)
                          /\ ReadOpen(h) => pkt'[h] = pkt[h]
                          /\ toHost'[h] = toHost[h]
  PROVE  UNCHANGED Boxes!vars
<1>1. \A a \in PktAddrs : BoxOf(a)' = BoxOf(a)
  BY BoxStays
<1>2. \A h \in Hosts : HeldBy(h)' = HeldBy(h) /\ AnswerTo(h)' = AnswerTo(h)
  BY HostStays
<1> QED BY <1>1, <1>2, MappedKept, MailboxSteps

(* What lets a step of one host's thread rest: the others keep their view. *)
LEMMA OneRests ==
  ASSUME PacketsOnce, NEW prog \in Programs, Mail(prog), [Next]_vars, NEW g \in Hosts,
         Silent(g) \/ ReadCut(g) \/ WriteCut(g), sync' = sync,
         ReadOpen(g)' <=> ReadOpen(g), ReadOpen(g) => pkt'[g] = pkt[g],
         toHost'[g] = toHost[g]
  PROVE  UNCHANGED Boxes!vars
<1>1. ASSUME NEW h \in Hosts, h # g
      PROVE  SameView(h)
  BY <1>1, OthersView DEF Mail
<1>2. \A h \in Hosts : /\ ReadOpen(h)' <=> ReadOpen(h)
                       /\ ReadOpen(h) => pkt'[h] = pkt[h]
                       /\ toHost'[h] = toHost[h]
  <2> TAKE h \in Hosts
  <2>1. CASE h = g
    BY <2>1
  <2>2. CASE h # g
    BY <1>1, <2>2 DEF SameView, ReadOpen
  <2> QED BY <2>1, <2>2
<1> QED BY <1>2, MailRests

(* The thread clears the flag (handle_wait_packet): the read takes the *)
(* packet out of its box.                                              *)
LEMMA FreeTakes ==
  ASSUME PacketsOnce, NEW prog \in Programs, Mail(prog), Mail(prog)', [Next]_vars,
         NEW h \in Hosts, Silent(h), Sim!FreeSignal(h), hostVars' = hostVars
  PROVE  \E a \in PktAddrs : Boxes!Take(h, a)
<1>1. /\ pc[h] = "free" /\ pc' = [pc EXCEPT ![h] = "read"] /\ pkt' = pkt
      /\ sync' = [sync EXCEPT ![pkt[h].addr] = FALSE]
      /\ UNCHANGED <<trace, awaiting, toSim, toHost>>
  BY DEF Sim!FreeSignal, Sim!Step, hostVars
<1>2. DOMAIN pc = Hosts /\ sync \in [PktAddrs -> BOOLEAN] /\ pkt[h] \in Packet
  BY DEF Mail, TypeInv, ControlTyped
<1>3. Syncing(h)
  BY <1>1 DEF Mail, ReadInv, ReadPhase, Idle, Asked, Fetching, Replied, Reading
<1>4. ReadInHand(h) /\ toHost[h] = <<>>
  BY <1>3 DEF Syncing
<1>5. pkt[h].addr \in PktAddrs
  BY <1>2, <1>4 DEF ReadInHand, Packet
<1>6. PICK a \in PktAddrs : a = pkt[h].addr
  BY <1>5
<1>7. sync[a] /\ ~sync'[a] /\ \A b \in PktAddrs : b # a => sync'[b] = sync[b]
  <2>1. sync[a]
    BY <1>1, <1>6 DEF Mail, SignalInv
  <2> QED BY <1>1, <1>2, <1>6, <2>1
<1>8. BoxOf(a) = Stored(a) /\ Stored(a)' = Stored(a) /\ Stored(a) # Nothing
  BY <1>7, FullStays DEF BoxOf
<1>9. ~ReadOpen(h)
  BY <1>1 DEF ReadOpen
<1>10. ReadOpen(h)'
  BY <1>1, <1>2, <1>4 DEF ReadOpen, ReadInHand
<1>11. HeldBy(h) = Nothing /\ AnswerTo(h) = Nothing /\ AnswerTo(h)' = Nothing
  BY <1>1, <1>4, <1>9 DEF HeldBy, AnswerTo, Nothing
<1>12. HeldBy(h)' = BoxOf(a)
  <2>1. Stored(pkt[h].addr)' = Stored(a)'
    BY <1>1, <1>6 DEF Stored
  <2> QED BY <1>8, <1>10, <2>1 DEF HeldBy
<1>13. BoxOf(a)' = Nothing
  BY <1>7 DEF BoxOf, Nothing
<1>14. \A b \in PktAddrs : b # a => BoxOf(b)' = BoxOf(b)
  BY <1>7, BoxStays
<1>15. \A g \in Hosts : g # h => HeldBy(g)' = HeldBy(g) /\ AnswerTo(g)' = AnswerTo(g)
  <2> SUFFICES ASSUME NEW g \in Hosts, g # h
               PROVE  HeldBy(g)' = HeldBy(g) /\ AnswerTo(g)' = AnswerTo(g)
    OBVIOUS
  <2>1. SameView(g)
    BY OthersView DEF Mail
  <2> QED BY <2>1, SameViewStays
<1>16. Boxed' = [Boxed EXCEPT ![a] = Nothing]
  BY <1>13, <1>14, MappedChanged
<1>17. Helds' = [Helds EXCEPT ![h] = BoxOf(a)]
  BY <1>12, <1>15, MappedChanged
<1>18. AnswersTo' = AnswersTo
  BY <1>11, <1>15, MappedKept
<1>19. Boxed[a] = BoxOf(a) /\ Helds[h] = Nothing /\ AnswersTo[h] = Nothing
  BY <1>11, MappedAt
<1>20. Boxed[a] # Nothing
  BY <1>8, <1>19
<1> QED BY <1>16, <1>17, <1>18, <1>19, <1>20, MailboxSteps

(* A host process takes its answer out of the ring (readPacketData). *)
LEMMA ResponseCollects ==
  ASSUME PacketsOnce, NEW prog \in Programs, Mail(prog), [Next]_vars,
         NEW h \in Hosts, Silent(h), GetResponse(h)
  PROVE  Boxes!Collect(h)
<1>1. /\ toHost[h] # <<>> /\ toHost' = [toHost EXCEPT ![h] = Tail(toHost[h])]
      /\ awaiting' = [awaiting EXCEPT ![h] = {}] /\ sync' = sync
  BY DEF GetResponse, Host!GetResponse, simVars
<1>2. toHost \in [Hosts -> Seq(Seq(Cells))] /\ DOMAIN awaiting = Hosts
  BY DEF Mail, TypeInv, HostTyped
<1>3. Len(toHost[h]) = 1
  <2>1. Replied(h)
    BY <1>1 DEF Mail, ReadInv, ReadPhase, Idle, Asked, Syncing, Fetching
  <2> QED BY <2>1 DEF Replied
<1>4. toHost'[h] = <<>>
  <2>1. toHost'[h] = Tail(toHost[h]) /\ toHost[h] \in Seq(Seq(Cells))
    BY <1>1, <1>2
  <2>2. Len(Tail(toHost[h])) = 0 /\ Tail(toHost[h]) \in Seq(Seq(Cells))
    BY <1>1, <1>3, <2>1, TailFacts
  <2> QED BY <2>1, <2>2, SeqFacts
<1>5. ~ReadOpen(h) /\ ~ReadOpen(h)'
  BY <1>1, <1>2 DEF ReadOpen
<1>6. HeldBy(h)' = HeldBy(h)
  BY <1>5, HeldStays
<1>7. AnswerTo(h)' = Nothing
  BY <1>4 DEF AnswerTo, Nothing
<1>8. AnswerTo(h) # Nothing
  <2>1. AnswerTo(h) \in Tags
    BY <1>1, AnswerIs
  <2> QED BY <2>1, DataAssumption DEF Nothing
<1>9. \A g \in Hosts : g # h => HeldBy(g)' = HeldBy(g) /\ AnswerTo(g)' = AnswerTo(g)
  <2> SUFFICES ASSUME NEW g \in Hosts, g # h
               PROVE  HeldBy(g)' = HeldBy(g) /\ AnswerTo(g)' = AnswerTo(g)
    OBVIOUS
  <2>1. SameView(g)
    BY OthersView DEF Mail
  <2> QED BY <2>1, SameViewStays
<1>10. Boxed' = Boxed
  BY <1>1, BoxStays, MappedKept
<1>11. Helds' = Helds
  BY <1>6, <1>9, MappedKept
<1>12. AnswersTo' = [AnswersTo EXCEPT ![h] = Nothing]
  BY <1>7, <1>9, MappedChanged
<1>13. AnswersTo[h] # Nothing
  BY <1>8, MappedAt
<1> QED BY <1>10, <1>11, <1>12, <1>13, MailboxSteps

(* The steps of a host process and of a wrapper's thread that move no *)
(* payload: two of them are steps of the mailboxes.                   *)
LEMMA SilentMail ==
  ASSUME PacketsOnce, NEW prog \in Programs, Mail(prog), Mail(prog)', [Next]_vars,
         NEW h \in Hosts, Silent(h)
  PROVE  [Boxes!Next]_(Boxes!vars)
<1>1. /\ DOMAIN pc = Hosts /\ DOMAIN pkt = Hosts /\ DOMAIN toSim = Hosts
      /\ DOMAIN awaiting = Hosts /\ toSim \in [Hosts -> Seq(Packet)]
  BY DEF Mail, TypeInv, HostTyped, ControlTyped
<1>2. CASE Send(h)
  <2>1. /\ awaiting[h] = {} /\ toHost' = toHost /\ sync' = sync
        /\ toSim' = [toSim EXCEPT ![h] = Append(toSim[h], Head(trace[h]))]
    BY <1>2 DEF Send, Host!Send, simVars
  <2>2. toSim'[h] # <<>>
    BY <1>1, <2>1
  <2>3. ~ReadOpen(h) /\ ~ReadOpen(h)'
    BY <2>1, <2>2 DEF ReadOpen
  <2> QED BY <2>1, <2>3, OneRests
<1>3. CASE GetResponse(h)
  <2>1. Boxes!Collect(h)
    BY <1>3, ResponseCollects
  <2> QED BY <2>1 DEF Boxes!Next
<1>4. CASE Receive(h)
  <2>1. /\ toSim[h] # <<>> /\ toHost' = toHost /\ sync' = sync
        /\ pc' = [pc EXCEPT ![h] = Sim!Handler(Head(toSim[h]))]
    BY <1>4 DEF Receive, Sim!Receive, Host!GiveRequest
  <2>2. pc'[h] \in {"sync", "write", "terminate"}
    BY <1>1, <2>1 DEF Sim!Handler
  <2>3. ~ReadOpen(h) /\ ~ReadOpen(h)'
    BY <2>1, <2>2 DEF ReadOpen
  <2> QED BY <2>1, <2>3, OneRests
<1>5. CASE ThreadAlone(h)
  <2>1. UNCHANGED <<trace, awaiting, toSim, toHost>>
    BY <1>5 DEF ThreadAlone, hostVars
  <2>2. CASE Sim!FreeSignal(h)
    <3>1. \E a \in PktAddrs : Boxes!Take(h, a)
      BY <2>1, <2>2, FreeTakes DEF hostVars
    <3> QED BY <3>1 DEF Boxes!Next
  <2>3. CASE Sim!Spin(h) \/ Sim!Stop(h)
    <3>1. sync' = sync /\ pc' = pc /\ pkt' = pkt
      BY <2>3 DEF Sim!Spin, Sim!Stop
    <3>2. ReadOpen(h)' <=> ReadOpen(h)
      BY <2>1, <3>1 DEF ReadOpen
    <3> QED BY <2>1, <3>1, <3>2, OneRests
  <2>4. CASE Sim!CheckSignal(h) \/ Sim!HandleTerminate(h) \/ Sim!LeaveCore(h)
    <3>1. /\ sync' = sync /\ pc[h] \in {"sync", "terminate", "exiting"}
          /\ \E to \in {"free", "exiting", "exited"} : pc' = [pc EXCEPT ![h] = to]
      BY <2>4 DEF Sim!CheckSignal, Sim!HandleTerminate, Sim!LeaveCore, Sim!Step, Sim!global
    <3>2. ~ReadOpen(h) /\ ~ReadOpen(h)'
      BY <1>1, <3>1 DEF ReadOpen
    <3> QED BY <2>1, <3>1, <3>2, OneRests
  <2> QED BY <1>5, <2>2, <2>3, <2>4 DEF ThreadAlone
<1> QED BY <1>2, <1>3, <1>4, <1>5 DEF Silent

(* Cutting a packet leaves the mailboxes: a read that is cut was open. *)
LEMMA CutMail ==
  ASSUME PacketsOnce, NEW prog \in Programs, Mail(prog), [Next]_vars,
         NEW h \in Hosts, ReadCut(h) \/ WriteCut(h)
  PROVE  UNCHANGED Boxes!vars
<1>1. DOMAIN pc = Hosts /\ pkt[h] \in Packet
  BY DEF Mail, TypeInv, ControlTyped
<1>2. /\ pc' = [pc EXCEPT ![h] = "poll"] /\ pkt' = pkt /\ sync' = sync
      /\ UNCHANGED <<trace, awaiting, toSim, toHost>>
      /\ ReadCut(h) => pc[h] = "read"
      /\ WriteCut(h) => pc[h] = "write"
  BY HandleReadDoes, HandleWriteDoes DEF ReadCut, WriteCut, hostVars
<1>3. WriteCut(h) => pkt[h].type = "W"
  BY <1>2 DEF Mail, TypeInv, ControlTyped
<1>4. ReadOpen(h)' <=> ReadOpen(h)
  BY <1>1, <1>2, <1>3 DEF ReadOpen
<1> QED BY <1>2, <1>4, OneRests

(* A falling edge (clock_negedge) answers a read when its last part comes, *)
(* and fills a box when the last ack of a write packet does.               *)
LEMMA NegedgeMail ==
  ASSUME PacketsOnce, NEW prog \in Programs, Mail(prog), Mail(prog)', [Next]_vars,
         NEW h \in Hosts, SimNegedge(h)
  PROVE  [Boxes!Next]_(Boxes!vars)
<1>1. /\ sync' = IF Sim!WriteComplete(h)
                   THEN [sync EXCEPT ![Head(sync_queue[h])] = TRUE] ELSE sync
      /\ toHost' = [toHost EXCEPT ![h] = toHost[h] \o Response(h)]
      /\ UNCHANGED <<pc, pkt, trace, awaiting, toSim>>
  BY NegedgeDoes DEF Mail, NegedgeControl
<1>2. /\ sync \in [PktAddrs -> BOOLEAN] /\ toHost \in [Hosts -> Seq(Seq(Cells))]
      /\ toHost[h] \in Seq(Seq(Cells))
  BY DEF Mail, TypeInv, HostTyped, ControlTyped
<1>3. \A g \in Hosts : g # h => HeldBy(g)' = HeldBy(g) /\ AnswerTo(g)' = AnswerTo(g)
  <2> SUFFICES ASSUME NEW g \in Hosts, g # h
               PROVE  HeldBy(g)' = HeldBy(g) /\ AnswerTo(g)' = AnswerTo(g)
    OBVIOUS
  <2>1. SameView(g)
    BY OthersView DEF Mail
  <2> QED BY <2>1, SameViewStays
<1>4. ASSUME ~Sim!ReadComplete(h)
      PROVE  Helds' = Helds /\ AnswersTo' = AnswersTo
  <2>1. Response(h) = <<>>
    BY <1>4 DEF Response
  <2>2. toHost'[h] = toHost[h]
    <3>1. toHost'[h] = toHost[h] \o <<>>
      BY <1>1, <1>2, <2>1
    <3> QED BY <1>2, <3>1, ConcatEmptySeq
  <2>3. ReadOpen(h)' <=> ReadOpen(h)
    BY <1>1, <2>2 DEF ReadOpen
  <2>4. HeldBy(h)' = HeldBy(h) /\ AnswerTo(h)' = AnswerTo(h)
    BY <1>1, <2>2, <2>3, HostStays
  <2> QED BY <1>3, <2>4, MappedKept
<1>5. ASSUME Sim!ReadComplete(h)
      PROVE  /\ Helds[h] # Nothing /\ Helds' = [Helds EXCEPT ![h] = Nothing]
             /\ AnswersTo' = [AnswersTo EXCEPT ![h] = Helds[h]]
  <2>1. Fetching(h)
    <3>1. Head(rack_queue[h]) \in OpenOf(h, "R")
      <4>1. rack_queue[h] # <<>> /\ rack_queue[h] \in Seq(Payload)
        BY <1>5 DEF Sim!ReadComplete, Mail, TypeInv, QueuesTyped
      <4>2. Items(Front(rack_queue[h])) = {Head(rack_queue[h])}
        BY <4>1, FrontItems
      <4>3. OpenLoses(NegedgeAcks(h))
        BY NegedgeLoses DEF Mail
      <4>4. Items(Front(rack_queue[h])) \subseteq OpenOf(h, "R")
        BY <4>3, OpenOfLoses DEF Mail
      <4> QED BY <4>2, <4>4
    <3>2. ReadParts(h) # 0
      BY <3>1, ReadPartsTyped DEF Mail
    <3> QED BY <3>2 DEF Mail, ReadInv, ReadPhase, Idle, Asked, Syncing, Replied
  <2>2. ReadOpen(h)
    BY <2>1 DEF ReadOpen, Fetching, ReadInHand
  <2>3. toHost'[h] = <<Sim!Gathered(h)>>
    <3>1. Response(h) = <<Sim!Gathered(h)>> /\ toHost[h] = <<>>
      BY <1>5, <2>1 DEF Response, Fetching
    <3> QED BY <1>1, <1>2, <3>1
  <2>4. toHost'[h] # <<>>
    BY <2>3
  <2>5. PICK g \in Hosts : \E w \in Writes(prog, g)' :
          w.addr = pkt'[h].addr /\ w.tag \in Tags /\ AnswerTo(h)' = w.tag
    BY <2>4, AnswerIsNext
  <2>6. PICK w \in Writes(prog, g)' :
          w.addr = pkt'[h].addr /\ w.tag \in Tags /\ AnswerTo(h)' = w.tag
    BY <2>5
  <2>7. w \in Writes(prog, g)
    <3>1. ~Takes(g)
      BY <1>1 DEF Takes
    <3>2. ~WayCut(g)
      BY <3>1 DEF WayCut
    <3> QED BY <3>2, WritesGrow DEF Mail, FlowInv
  <2>8. PICK a \in PktAddrs : a = pkt[h].addr
    BY <2>2, OpenHasBegun
  <2>9. ReadBegun(prog, a)
    BY <2>2, <2>8, OpenHasBegun DEF ReadBegun
  <2>10. w.addr = a /\ w.tag \in Tags
    BY <1>1, <2>6, <2>8
  <2>11. Whole(a, w.tag)
    BY <2>7, <2>9, <2>10, FullIsWhole
  <2>12. Stored(a) = w.tag /\ w.tag # Nothing
    BY <2>10, <2>11, StoredIs
  <2>13. HeldBy(h) = w.tag
    BY <2>2, <2>8, <2>12 DEF HeldBy
  <2>14. HeldBy(h)' = Nothing
    BY <2>4 DEF HeldBy, ReadOpen, Nothing
  <2>15. Helds[h] = w.tag
    BY <2>13, MappedAt
  <2>16. Helds' = [Helds EXCEPT ![h] = Nothing]
    BY <1>3, <2>14, MappedChanged
  <2>17. AnswersTo' = [AnswersTo EXCEPT ![h] = w.tag]
    BY <1>3, <2>6, MappedChanged
  <2> QED BY <2>12, <2>15, <2>16, <2>17
<1>6. ASSUME ~Sim!WriteComplete(h) PROVE Boxed' = Boxed
  <2>1. sync' = sync
    BY <1>1, <1>6
  <2> QED BY <2>1, BoxStays, MappedKept
<1>7. ASSUME Sim!WriteComplete(h)
      PROVE  \E a \in PktAddrs, t \in Tags :
               Boxed[a] = Nothing /\ Boxed' = [Boxed EXCEPT ![a] = t]
  <2>1. sync_queue[h] # <<>> /\ sync_queue[h] \in Seq(PktAddrs)
    <3>1. sync_queue[h] # <<>>
      <4>1. OpenLoses(NegedgeAcks(h))
        BY NegedgeLoses DEF Mail
      <4> QED BY <1>7, <4>1, SignalDue DEF Mail, WritesInv, Sim!WriteComplete
    <3> QED BY <3>1, SyncTyped DEF Mail
  <2>2. PICK a \in PktAddrs : a = Head(sync_queue[h])
    BY <2>1, TailFacts
  <2>3. a \in Content(sync_queue)
    <3>1. a \in Items(sync_queue[h])
      BY <2>1, <2>2, TailFacts
    <3>2. DOMAIN sync_queue = Hosts
      BY DEF Mail, TypeInv, BurstsTyped
    <3> QED BY <3>1, <3>2, InContent
  <2>4. ~sync[a]
    BY <2>3 DEF Mail, SignalInv
  <2>5. sync'[a] /\ \A b \in PktAddrs : b # a => sync'[b] = sync[b]
    BY <1>1, <1>2, <1>7, <2>2
  <2>6. BoxOf(a) = Nothing
    BY <2>4 DEF BoxOf
  <2>7. BoxOf(a)' \in Tags
    BY <2>5, BoxFilledNext
  <2>8. PICK t \in Tags : BoxOf(a)' = t
    BY <2>7
  <2>9. \A b \in PktAddrs : b # a => BoxOf(b)' = BoxOf(b)
    BY <2>5, BoxStays
  <2>10. Boxed' = [Boxed EXCEPT ![a] = t]
    BY <2>8, <2>9, MappedChanged
  <2>11. Boxed[a] = Nothing
    BY <2>6, MappedAt
  <2> QED BY <2>10, <2>11
<1>8. CASE ~Sim!ReadComplete(h) /\ ~Sim!WriteComplete(h)
  BY <1>4, <1>6, <1>8, MailboxSteps
<1>9. CASE Sim!ReadComplete(h) /\ ~Sim!WriteComplete(h)
  <2>1. Boxes!Answer(h)
    BY <1>5, <1>6, <1>9, MailboxSteps
  <2> QED BY <2>1 DEF Boxes!Next
<1>10. CASE Sim!WriteComplete(h)
  <2>1. PICK a \in PktAddrs, t \in Tags :
          Boxed[a] = Nothing /\ Boxed' = [Boxed EXCEPT ![a] = t]
    BY <1>7, <1>10
  <2>2. CASE ~Sim!ReadComplete(h)
    <3>1. Boxes!Put(a, t)
      BY <1>4, <2>1, <2>2, MailboxSteps
    <3> QED BY <3>1 DEF Boxes!Next, Boxes!Put
  <2>3. CASE Sim!ReadComplete(h)
    <3>1. Boxes!AnswerAndPut(h, a, t)
      BY <1>5, <2>1, <2>3, MailboxSteps
    <3>2. Helds[h] # Nothing
      BY <1>5, <2>3
    <3> QED BY <3>1, <3>2 DEF Boxes!Next, Helds, HeldBy
  <2> QED BY <2>2, <2>3
<1> QED BY <1>8, <1>9, <1>10

(* Every step of the simulator is one of the mailboxes, or none. *)
LEMMA MailStep ==
  ASSUME PacketsOnce, NEW prog \in Programs, Mail(prog), Mail(prog)', [Next]_vars
  PROVE  [Boxes!Next]_(Boxes!vars)
<1>1. ASSUME sync' = sync, UNCHANGED <<pc, pkt, awaiting, toSim, toHost>>
      PROVE  UNCHANGED Boxes!vars
  <2>1. \A h \in Hosts : ReadOpen(h)' <=> ReadOpen(h)
    BY <1>1 DEF ReadOpen
  <2> QED BY <1>1, <2>1, MailRests
<1>2. ASSUME NEW h \in Hosts, SimPosedge(h) \/ LinkForward(h) \/ LinkBackward(h)
      PROVE  UNCHANGED Boxes!vars
  <2>1. sync' = sync /\ UNCHANGED <<pc, pkt, awaiting, toSim, toHost>>
    <3>1. SimPosedge(h) => UNCHANGED controlVars
      BY PosedgeDoes
    <3>2. LinkBackward(h) => UNCHANGED controlVars /\ UNCHANGED hostVars
      BY BackwardDoes
    <3>3. LinkForward(h) => UNCHANGED simVars /\ UNCHANGED hostVars
      BY DEF LinkForward
    <3> QED BY <1>2, <3>1, <3>2, <3>3 DEF controlVars, simVars, hostVars
  <2> QED BY <1>1, <2>1
<1>3. ASSUME UNCHANGED vars \/ SwitchForward \/ MemPosedge \/ SimulateDram \/ MemNegedge
             \/ SwitchBackward
      PROVE  UNCHANGED Boxes!vars
  <2>1. UNCHANGED simVars /\ UNCHANGED hostVars
    BY <1>3 DEF vars, SwitchForward, MemPosedge, SimulateDram, MemNegedge, SwitchBackward
  <2> QED BY <1>1, <2>1 DEF simVars, hostVars
<1> QED BY <1>2, <1>3, SilentMail, CutMail, NegedgeMail, NextCases

(* A step keeps all of this for the programs that explain the state. *)
LEMMA MailStays ==
  ASSUME PacketsOnce, NEW prog \in Programs, Mail(prog), SourceInv(prog), OrderInv,
         ReadsHold', [Next]_vars
  PROVE  Mail(prog)'
<1>1. TypeInv' /\ OnceInv' /\ WritesInv' /\ ReadInv'
  BY DEF ReadsHold, CountsHold, FlowHolds
<1>2. FlowInv(prog)'
  BY <1>1, OnceIsOwn, FlowStep DEF Mail
<1>3. SignalInv(prog)'
  BY <1>1, SignalStep DEF Mail
<1>4. StoreInv(prog)'
  BY <1>1, StoreStep DEF Mail, SignalInv
<1>5. AnswerInv(prog)'
  BY <1>1, AnswerStep DEF Mail
<1> QED BY <1>1, <1>2, <1>3, <1>4, <1>5 DEF Mail

(* The simulator implements mailboxes when every packet is written and    *)
(* read once: no flag is raised twice before a read clears it, no read    *)
(* starts without one, and a read is answered with the packet that was    *)
(* stored when it cleared the flag (handle_wait_packet), although its     *)
(* payloads are fetched later, one by one, and the flag was raised from a *)
(* count of acks (sim_wrapper.cpp, clock_negedge).                        *)
THEOREM SimulatorIsMailboxes ==
  ASSUME PacketsOnce
  PROVE  Spec => ImplementsMailbox
<1>1. Init => Boxes!Init
  <2> SUFFICES ASSUME Init PROVE Boxes!Init
    OBVIOUS
  <2>1. \A a \in PktAddrs : ~sync[a]
    BY DEF Init, Sim!Init
  <2>2. \A h \in Hosts : toHost[h] = <<>> /\ awaiting[h] = {}
    BY DEF Init, Host!Init
  <2>3. [a \in PktAddrs |-> BoxOf(a)] = [a \in PktAddrs |-> Nothing]
    BY <2>1 DEF BoxOf
  <2>4. [h \in Hosts |-> HeldBy(h)] = [h \in Hosts |-> Nothing]
    BY <2>2 DEF HeldBy, ReadOpen
  <2>5. [h \in Hosts |-> AnswerTo(h)] = [h \in Hosts |-> Nothing]
    BY <2>2 DEF AnswerTo
  <2> QED BY <2>3, <2>4, <2>5 DEF Boxes!Init, BoxOf, HeldBy, AnswerTo
<1>2. AnswersHold /\ [Next]_vars => [Boxes!Next]_(Boxes!vars)
  <2> SUFFICES ASSUME AnswersHold, [Next]_vars PROVE [Boxes!Next]_(Boxes!vars)
    OBVIOUS
  <2>0. ReadsHold'
    BY ReadsStep DEF AnswersHold
  <2>1. PICK prog \in Programs : Mail(prog) /\ SourceInv(prog)
    BY DEF AnswersHold, ReadsHold, CountsHold, FlowHolds, Mail
  <2>2. Mail(prog)'
    BY <2>0, <2>1, MailStays DEF AnswersHold
  <2> QED BY <2>1, <2>2, MailStep
<1> QED BY <1>1, <1>2, AnswersAlways, PTL DEF Spec, ImplementsMailbox, Boxes!Spec
=============================================================================

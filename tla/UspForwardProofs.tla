-------------------------- MODULE UspForwardProofs --------------------------
(***************************************************************************)
(* The upstream port never pops an empty deque, and loses, repeats and     *)
(* reorders no request, for all sequences of requests the wrapper makes;   *)
(* and through both ports they reach the controller in order.              *)
(***************************************************************************)
EXTENDS PortsForward, SequenceTheorems, TLAPS

(* The payloads of one kind, and that they are payloads.                   *)
Kind(c) == {p \in Payload : p.cmd = c}

(* The requests of the port's two streams are payloads. *)
LEMMA ReqsArePayloads ==
  ReadReqs \in Seq(Payload) /\ WriteReqs \in Seq(Payload)
<1>1. ASSUME NEW c PROVE Seq(Kind(c)) \subseteq Seq(Payload)
  BY DEF Kind
<1> QED
  BY <1>1, UspForwardAssumption DEF Kind

(* Only the empty queue has no length. *)
LEMMA LenOfEmpty ==
  ASSUME NEW S, NEW q \in Seq(S)
  PROVE  Len(q) = 0 <=> q = <<>>
BY EmptySeq

(* The first element of a deque, and the others. *)
LEMMA HeadThenTail ==
  ASSUME NEW S, NEW q \in Seq(S), q # <<>>
  PROVE  /\ Len(q) \in Nat \ {0}
         /\ Head(q) \in S
         /\ Tail(q) \in Seq(S)
         /\ <<Head(q)>> \o Tail(q) = q
         /\ Front(q) = <<Head(q)>>
<1>1. Len(q) \in Nat \ {0}
  BY EmptySeq
<1>2. Head(q) \in S /\ Tail(q) \in Seq(S) /\ Tail(q) = SubSeq(q, 2, Len(q))
  BY HeadTailProperties, TailIsSubSeq
<1>3. q = SubSeq(q, 1, Len(q))
  BY SubSeqFull
<1>4. Head(q) = q[1]
  BY <1>1
<1>5. SubSeq(q, 1, Len(q)) = <<q[1]>> \o SubSeq(q, 1 + 1, Len(q))
  BY <1>1, SubSeqRecursiveFirst
<1>6. <<Head(q)>> \o Tail(q) = q
  BY <1>2, <1>3, <1>4, <1>5
<1>7. Front(q) = <<Head(q)>>
  <2>1. Front(q) = SubSeq(q, 1, 1)
    BY DEF Front
  <2>2. SubSeq(q, 1, 1) = <<q[1]>> \o SubSeq(q, 1 + 1, 1)
    BY <1>1, SubSeqRecursiveFirst
  <2>3. SubSeq(q, 1 + 1, 1) = <<>>
    BY SubSeqEmpty
  <2>4. <<q[1]>> \in Seq(S)
    BY <1>2, <1>4
  <2> QED
    BY <1>4, <2>1, <2>2, <2>3, <2>4, ConcatEmptySeq
<1> QED
  BY <1>1, <1>2, <1>6, <1>7

(* What front() and pop_front() give, of an empty deque too: both are of   *)
(* its type, and together they are the deque.                              *)
LEMMA FrontRest ==
  ASSUME NEW S, NEW q \in Seq(S)
  PROVE  /\ Front(q) \in Seq(S)
         /\ Rest(q) \in Seq(S)
         /\ Front(q) \o Rest(q) = q
         /\ Len(Front(q)) = IF q = <<>> THEN 0 ELSE 1
<1>1. CASE q = <<>>
  <2>1. Front(q) = <<>>
    BY <1>1, SubSeqEmpty DEF Front
  <2>2. Rest(q) = <<>>
    BY <1>1 DEF Rest
  <2>3. <<>> \o <<>> = <<>>
    BY ConcatEmptySeq, <1>1
  <2> QED
    BY <1>1, <2>1, <2>2, <2>3
<1>2. CASE q # <<>>
  <2>1. Rest(q) = Tail(q)
    BY <1>2 DEF Rest
  <2>2. /\ Head(q) \in S
        /\ Tail(q) \in Seq(S)
        /\ <<Head(q)>> \o Tail(q) = q
        /\ Front(q) = <<Head(q)>>
    BY <1>2, HeadThenTail
  <2>3. <<Head(q)>> \in Seq(S) /\ Len(<<Head(q)>>) = 1
    BY <2>2
  <2> QED
    BY <1>2, <2>1, <2>2, <2>3
<1> QED
  BY <1>1, <1>2

(* pending_queue holds one write: taking it leaves it empty.               *)
LEMMA OneTaken ==
  ASSUME NEW S, NEW q \in Seq(S), Len(q) = 1
  PROVE  Len(Front(q)) = 1 /\ Rest(q) = <<>>
<1>1. q # <<>>
  BY LenOfEmpty
<1>2. Tail(q) \in Seq(S) /\ Len(Tail(q)) = 0
  BY <1>1, HeadTailProperties
<1>3. Tail(q) = <<>>
  BY <1>2, LenOfEmpty
<1> QED
  BY <1>1, <1>3, FrontRest DEF Rest

(* The move of one request from a queue of the wrapper to one of the port. *)
LEMMA MovedRest ==
  ASSUME NEW S, NEW dst \in Seq(S), NEW q \in Seq(S)
  PROVE  /\ Moved(dst, q) \in Seq(S)
         /\ Moved(dst, q) \o Rest(q) = dst \o q
         /\ Len(Moved(dst, q)) >= Len(dst)
<1>1. CASE q = <<>>
  BY <1>1, LenProperties DEF Moved, Rest
<1>2. CASE q # <<>>
  <2>1. Head(q) \in S /\ Tail(q) \in Seq(S) /\ <<Head(q)>> \o Tail(q) = q
    BY <1>2, HeadThenTail
  <2>2. /\ Moved(dst, q) = Append(dst, Head(q))
        /\ Append(dst, Head(q)) = dst \o <<Head(q)>>
    BY <1>2, <2>1, AppendIsConcat DEF Moved
  <2>3. <<Head(q)>> \in Seq(S)
    BY <2>1
  <2>4. (dst \o <<Head(q)>>) \o Tail(q) = dst \o (<<Head(q)>> \o Tail(q))
    BY <2>1, <2>3, ConcatAssociative
  <2>5. /\ Append(dst, Head(q)) \in Seq(S)
        /\ Len(Append(dst, Head(q))) = Len(dst) + 1
        /\ Len(dst) \in Nat
    BY <2>1, AppendProperties, LenProperties
  <2>6. Rest(q) = Tail(q)
    BY <1>2 DEF Rest
  <2> QED
    BY <2>1, <2>2, <2>4, <2>5, <2>6
<1> QED
  BY <1>1, <1>2

(* Payloads in three queues, one behind the other. *)
LEMMA Associative ==
  ASSUME NEW p \in Seq(Payload), NEW q \in Seq(Payload), NEW r \in Seq(Payload)
  PROVE  (p \o q) \o r = p \o (q \o r)
BY ConcatAssociative

(* The pair of reads that leaves, and the reads that stay.                 *)
LEMMA ReadPair ==
  ASSUME NEW S, NEW q \in Seq(S), Len(q) >= r_msg
  PROVE  /\ SubSeq(q, 1, r_msg) \in Seq(S)
         /\ SubSeq(q, r_msg + 1, Len(q)) \in Seq(S)
         /\ SubSeq(q, 1, r_msg) \o SubSeq(q, r_msg + 1, Len(q)) = q
<1>1. Len(q) \in Nat /\ \A i \in 1 .. Len(q) : q[i] \in S
  BY LenProperties, ElementOfSeq
<1>2. SubSeq(q, 1, r_msg) \in Seq(S)
  <2>1. \A i \in 1 .. 2 : q[i] \in S
    BY <1>1 DEF r_msg
  <2> QED
    BY <2>1, SubSeqProperties DEF r_msg
<1>3. SubSeq(q, r_msg + 1, Len(q)) \in Seq(S)
  <2>1. \A i \in 3 .. Len(q) : q[i] \in S
    BY <1>1
  <2> QED
    BY <1>1, <2>1, SubSeqProperties DEF r_msg
<1>4. SubSeq(q, 1, 2) \o SubSeq(q, 2 + 1, Len(q)) = SubSeq(q, 1, Len(q))
  <2>1. /\ 1 \in 1 .. Len(q) + 1
        /\ 2 \in 1 - 1 .. Len(q)
        /\ Len(q) \in 2 .. Len(q)
    BY <1>1 DEF r_msg
  <2> QED
    BY <2>1, ConcatAdjacentSubSeq
<1>5. SubSeq(q, 1, Len(q)) = q
  BY SubSeqFull
<1> QED
  BY <1>2, <1>3, <1>4, <1>5 DEF r_msg

(* The oldest element of one deque goes to the end of another.             *)
LEMMA Handed ==
  ASSUME NEW S, NEW dst \in Seq(S), NEW q \in Seq(S), q # <<>>
  PROVE  /\ dst \o Front(q) \in Seq(S)
         /\ Rest(q) \in Seq(S)
         /\ Len(dst \o Front(q)) = Len(dst) + 1
         /\ (dst \o Front(q)) \o Rest(q) = dst \o q
<1> DEFINE F == Front(q)
           R == Rest(q)
<1>1. F \in Seq(S) /\ R \in Seq(S)
  BY FrontRest
<1>2. F \o R = q /\ Len(F) = 1
  BY FrontRest
<1> HIDE DEF F, R
<1>3. dst \o F \in Seq(S) /\ Len(dst \o F) = Len(dst) + Len(F)
  BY <1>1, ConcatProperties
<1>4. (dst \o F) \o R = dst \o (F \o R)
  BY <1>1, ConcatAssociative
<1> QED
  BY <1>1, <1>2, <1>3, <1>4 DEF F, R

(* The write that is put off until its group goes on: pending_queue and    *)
(* w_queue together keep their order.                                      *)
LEMMA NextWriteTaken ==
  ASSUME TypeOK, TakeNextWrite, w_queue # <<>>
  PROVE  /\ pending_queue' \in Seq(Payload)
         /\ w_queue' \in Seq(Payload)
         /\ Len(pending_queue') = Len(pending_queue) + 1
         /\ pending_queue' \o w_queue' = pending_queue \o w_queue
<1>1. w_queue \in Seq(Payload) /\ pending_queue \in Seq(Payload)
  BY DEF TypeOK
<1>2. /\ pending_queue' = pending_queue \o Front(w_queue)
      /\ w_queue' = Rest(w_queue)
  BY DEF TakeNextWrite
<1>3. /\ pending_queue \o Front(w_queue) \in Seq(Payload)
      /\ Rest(w_queue) \in Seq(Payload)
      /\ Len(pending_queue \o Front(w_queue)) = Len(pending_queue) + 1
      /\ (pending_queue \o Front(w_queue)) \o Rest(w_queue) =
           pending_queue \o w_queue
  BY <1>1, Handed
<1> QED
  BY <1>2, <1>3

(* What nb_transport_fw adds: the queues only grow at their ends.          *)
LEMMA RequestsTaken ==
  ASSUME TypeOK, TakeRead \/ TakeWrite
  PROVE  /\ r_queue' \in Seq(Payload) /\ w_queue' \in Seq(Payload)
         /\ r_todo' \in Seq(Payload) /\ w_todo' \in Seq(Payload)
         /\ Len(r_queue') >= Len(r_queue)
         /\ w_queue # <<>> => w_queue' # <<>>
         /\ r_queue' \o r_todo' = r_queue \o r_todo
         /\ w_queue' \o w_todo' = w_queue \o w_todo
<1>1. /\ r_queue \in Seq(Payload) /\ r_todo \in Seq(Payload)
      /\ w_queue \in Seq(Payload) /\ w_todo \in Seq(Payload)
  BY DEF TypeOK
<1>2. Len(r_queue) \in Nat /\ Len(w_queue) \in Nat /\ Len(<<>>) = 0
  BY <1>1, EmptySeq, LenProperties
<1>3. CASE TakeRead
  <2>1. /\ r_queue' = Moved(r_queue, r_todo) /\ r_todo' = Rest(r_todo)
        /\ UNCHANGED <<w_queue, w_todo>>
    BY <1>3 DEF TakeRead
  <2>2. /\ Moved(r_queue, r_todo) \in Seq(Payload)
        /\ Rest(r_todo) \in Seq(Payload)
        /\ Moved(r_queue, r_todo) \o Rest(r_todo) = r_queue \o r_todo
        /\ Len(Moved(r_queue, r_todo)) >= Len(r_queue)
    BY <1>1, MovedRest, FrontRest
  <2> QED
    BY <1>1, <2>1, <2>2
<1>4. CASE TakeWrite
  <2>1. /\ w_queue' = Moved(w_queue, w_todo) /\ w_todo' = Rest(w_todo)
        /\ UNCHANGED <<r_queue, r_todo>>
    BY <1>4 DEF TakeWrite
  <2>2. /\ Moved(w_queue, w_todo) \in Seq(Payload)
        /\ Rest(w_todo) \in Seq(Payload)
        /\ Moved(w_queue, w_todo) \o Rest(w_todo) = w_queue \o w_todo
        /\ Len(Moved(w_queue, w_todo)) >= Len(w_queue)
    BY <1>1, MovedRest, FrontRest
  <2>3. w_queue # <<>> => w_queue' # <<>>
    <3>1. w_queue # <<>> => Len(w_queue) >= 1
      BY <1>1, EmptySeq
    <3> QED
      BY <1>2, <2>1, <2>2, <3>1
  <2>4. Len(r_queue') >= Len(r_queue)
    BY <1>2, <2>1
  <2> QED
    BY <1>1, <2>1, <2>2, <2>3, <2>4
<1> QED
  BY <1>3, <1>4

(* The read branch is entered with a pair of reads. *)
LEMMA AfterWriteKnows ==
  /\ AfterWrite(r_queue) \in {"loop", "read"}
  /\ AfterWrite(r_queue) = "read" => Len(r_queue) >= r_msg
BY DEF AfterWrite

(* f_idx counts the writes of a group that were taken, pending_queue holds *)
(* the last of them: fw_thread pops neither pending_queue nor w_queue      *)
(* when it is empty, and f_idx stays below 5.                              *)
THEOREM NoEmptyPop == Spec => [](TypeOK /\ FlitInv)
<1>1. Init => TypeOK /\ FlitInv
  <2> SUFFICES ASSUME Init PROVE TypeOK /\ FlitInv
    OBVIOUS
  <2>1. <<>> \in Seq(Payload) /\ Len(<<>>) = 0
    BY EmptySeq
  <2> QED
    BY <2>1, ReqsArePayloads DEF Init, TypeOK, FlitInv
<1>2. TypeOK /\ FlitInv /\ [Next]_vars => (TypeOK /\ FlitInv)'
  <2> SUFFICES ASSUME TypeOK, FlitInv, [Next]_vars
               PROVE  TypeOK' /\ FlitInv'
    OBVIOUS
  <2>t. /\ <<>> \in Seq(Payload) /\ Len(<<>>) = 0
        /\ pending_queue \in Seq(Payload)
    BY EmptySeq DEF TypeOK
  <2>p. /\ Front(pending_queue) \in Seq(Payload)
        /\ Rest(pending_queue) \in Seq(Payload)
        /\ Len(pending_queue) = 1 =>
             Len(Front(pending_queue)) = 1 /\ Rest(pending_queue) = <<>>
    BY <2>t, FrontRest, OneTaken
  <2>1. CASE TakeRead \/ TakeWrite
    <3>1. /\ r_queue' \in Seq(Payload) /\ w_queue' \in Seq(Payload)
          /\ r_todo' \in Seq(Payload) /\ w_todo' \in Seq(Payload)
          /\ Len(r_queue') >= Len(r_queue)
          /\ w_queue # <<>> => w_queue' # <<>>
      BY <2>1, RequestsTaken
    <3>2. UNCHANGED <<pending_queue, f_idx, fw_pc, trans, sent_r, sent_w>>
      BY <2>1 DEF TakeRead, TakeWrite
    <3>3. Len(r_queue) \in Nat /\ Len(r_queue') \in Nat
      BY <3>1, LenProperties DEF TypeOK
    <3>4. TypeOK'
      BY <3>1, <3>2 DEF TypeOK
    <3>5. FlitInv'
      BY <3>1, <3>2, <3>3 DEF FlitInv, r_msg
    <3> QED
      BY <3>4, <3>5
  <2>2. CASE StartLast
    BY <2>2, <2>p DEF StartLast, TypeOK, FlitInv
  <2>3. CASE StartHeader
    <3>1. pending_queue = <<>>
      BY <2>3, <2>t, EmptySeq DEF StartHeader, FlitInv
    <3> QED
      BY <2>3, <3>1 DEF StartHeader, TypeOK, FlitInv
  <2>4. CASE StartData
    BY <2>4, <2>p DEF StartData, TypeOK, FlitInv
  <2>5. CASE StartRead
    BY <2>5, AfterWriteKnows DEF StartRead, TypeOK, FlitInv
  <2>6. CASE SendLast
    <3>1. sent_w \o trans \in Seq(Payload)
      BY ConcatProperties DEF TypeOK
    <3> QED
      BY <2>6, <2>t, <3>1, AfterWriteKnows DEF SendLast, TypeOK, FlitInv
  <2>7. CASE Header
    <3>1. /\ pending_queue' \in Seq(Payload) /\ w_queue' \in Seq(Payload)
          /\ Len(pending_queue') = 1 /\ f_idx' = 1
      BY <2>7, <2>t, NextWriteTaken DEF Header, FlitInv, TakeNextWrite
    <3> QED
      BY <2>7, <3>1, AfterWriteKnows DEF Header, TypeOK, FlitInv
  <2>8. CASE SendData
    <3>1. /\ pending_queue' \in Seq(Payload) /\ w_queue' \in Seq(Payload)
          /\ Len(pending_queue') = 1
      BY <2>8, <2>t, NextWriteTaken DEF SendData, FlitInv
    <3>2. f_idx' \in 2 .. 4
      BY <2>8 DEF SendData, FlitInv, TakeNextWrite
    <3>3. sent_w \o trans \in Seq(Payload)
      BY ConcatProperties DEF TypeOK
    <3> QED
      BY <2>8, <2>t, <3>1, <3>2, <3>3, AfterWriteKnows
         DEF SendData, TypeOK, FlitInv
  <2>9. CASE SendReads
    <3>1. Len(r_queue) >= r_msg
      BY <2>9 DEF SendReads, FlitInv
    <3>2. /\ SubSeq(r_queue, 1, r_msg) \in Seq(Payload)
          /\ SubSeq(r_queue, r_msg + 1, Len(r_queue)) \in Seq(Payload)
      BY <3>1, ReadPair DEF TypeOK
    <3>3. sent_r \o SubSeq(r_queue, 1, r_msg) \in Seq(Payload)
      BY <3>2, ConcatProperties DEF TypeOK
    <3> QED
      BY <2>9, <3>2, <3>3 DEF SendReads, TypeOK, FlitInv
  <2>10. CASE UNCHANGED vars
    BY <2>10 DEF vars, TypeOK, FlitInv
  <2> QED
    BY <2>1, <2>2, <2>3, <2>4, <2>5, <2>6, <2>7, <2>8, <2>9, <2>10
       DEF Next, ThreadStep
<1> QED
  BY <1>1, <1>2, PTL DEF Spec

(* A write that is popped from pending_queue keeps its place.              *)
LEMMA HeldBack ==
  ASSUME TypeOK, trans = <<>>,
         trans' = Front(pending_queue), pending_queue' = Rest(pending_queue)
  PROVE  sent_w \o trans' \o pending_queue' = sent_w \o trans \o pending_queue
<1>1. /\ sent_w \in Seq(Payload) /\ trans \in Seq(Payload)
      /\ pending_queue \in Seq(Payload)
  BY DEF TypeOK
<1>2. /\ Front(pending_queue) \in Seq(Payload)
      /\ Rest(pending_queue) \in Seq(Payload)
  BY <1>1, FrontRest
<1>3. Front(pending_queue) \o Rest(pending_queue) = pending_queue
  BY <1>1, FrontRest
<1>4. trans \o pending_queue = pending_queue
  BY <1>1, ConcatEmptySeq
<1>e. sent_w \in Seq(Payload)
  BY <1>1
<1>5. (sent_w \o Front(pending_queue)) \o Rest(pending_queue) =
         sent_w \o (Front(pending_queue) \o Rest(pending_queue))
  BY <1>e, <1>2, Associative, Zenon
<1>6. (sent_w \o trans) \o pending_queue = sent_w \o (trans \o pending_queue)
  BY <1>1, ConcatAssociative
<1> QED
  BY <1>3, <1>4, <1>5, <1>6

(* What was sent, and in front of it what the thread holds: sending it     *)
(* moves it over.                                                          *)
LEMMA SentOver ==
  ASSUME TypeOK
  PROVE  sent_w' = sent_w \o trans /\ trans' = <<>> =>
           sent_w' \o trans' = sent_w \o trans
<1>1. sent_w \o trans \in Seq(Payload)
  BY ConcatProperties DEF TypeOK
<1>2. (sent_w \o trans) \o <<>> = sent_w \o trans
  BY <1>1, ConcatEmptySeq
<1> QED
  BY <1>2

(* Every request is sent once and in its order, whatever the wrapper       *)
(* forwards and whenever its clock method runs between the thread's waits. *)
THEOREM NoRequestLost == Spec => []NoneLost
<1>1. Init => NoneLost
  <2> SUFFICES ASSUME Init PROVE NoneLost
    OBVIOUS
  <2>1. <<>> \o <<>> = <<>>
    BY ConcatEmptySeq, EmptySeq
  <2>2. /\ <<>> \o ReadReqs = ReadReqs
        /\ <<>> \o WriteReqs = WriteReqs
    BY ConcatEmptySeq, ReqsArePayloads
  <2> QED
    BY <2>1, <2>2 DEF Init, NoneLost
<1>2. TypeOK /\ TypeOK' /\ FlitInv /\ NoneLost /\ [Next]_vars => NoneLost'
  <2> SUFFICES ASSUME TypeOK, TypeOK', FlitInv, NoneLost, [Next]_vars
               PROVE  NoneLost'
    OBVIOUS
  <2> DEFINE Held  == sent_w \o trans
             Taken == sent_w \o trans \o pending_queue
  <2>s. /\ sent_w \in Seq(Payload) /\ trans \in Seq(Payload)
        /\ pending_queue \in Seq(Payload) /\ sent_r \in Seq(Payload)
    BY DEF TypeOK
  <2>h. Held \in Seq(Payload)
    BY <2>s, ConcatProperties
  <2>t. Taken \in Seq(Payload)
    BY <2>s, <2>h, ConcatProperties
  <2>1. CASE TakeRead \/ TakeWrite
    <3>1. UNCHANGED <<sent_r, Taken>>
      BY <2>1 DEF TakeRead, TakeWrite
    <3>2. w_queue \in Seq(Payload) /\ w_todo \in Seq(Payload)
      BY DEF TypeOK
    <3>3. w_queue' \in Seq(Payload) /\ w_todo' \in Seq(Payload)
      BY DEF TypeOK
    <3>4. r_queue \in Seq(Payload) /\ r_todo \in Seq(Payload)
      BY DEF TypeOK
    <3>5. r_queue' \in Seq(Payload) /\ r_todo' \in Seq(Payload)
      BY DEF TypeOK
    <3>6. sent_r \in Seq(Payload)
      BY DEF TypeOK
    <3>7. /\ r_queue' \o r_todo' = r_queue \o r_todo
          /\ w_queue' \o w_todo' = w_queue \o w_todo
      BY <2>1, RequestsTaken
    <3> HIDE DEF Taken
    <3>8. (Taken \o w_queue') \o w_todo' = Taken \o (w_queue' \o w_todo')
      BY <2>t, <3>3, ConcatAssociative
    <3>9. (Taken \o w_queue) \o w_todo = Taken \o (w_queue \o w_todo)
      BY <2>t, <3>2, ConcatAssociative
    <3>10. (sent_r \o r_queue') \o r_todo' = sent_r \o (r_queue' \o r_todo')
      BY <3>6, <3>5, ConcatAssociative
    <3>11. (sent_r \o r_queue) \o r_todo = sent_r \o (r_queue \o r_todo)
      BY <3>6, <3>4, ConcatAssociative
    <3>12. /\ Taken \o w_queue' \o w_todo' = WriteReqs
           /\ sent_r \o r_queue' \o r_todo' = ReadReqs
      BY <3>7, <3>8, <3>9, <3>10, <3>11 DEF NoneLost, Taken
    <3> QED
      BY <3>1, <3>12 DEF NoneLost, Taken
  <2>2. CASE StartLast \/ StartData
    <3>1. trans = <<>>
      BY <2>2 DEF StartLast, StartData, FlitInv
    <3>2. /\ trans' = Front(pending_queue)
          /\ pending_queue' = Rest(pending_queue)
          /\ UNCHANGED <<r_todo, w_todo, r_queue, w_queue, sent_r, sent_w>>
      BY <2>2 DEF StartLast, StartData
    <3>3. sent_w \o trans' \o pending_queue' = Taken
      BY <3>1, <3>2, HeldBack
    <3> QED
      BY <3>2, <3>3 DEF NoneLost
  <2>3. CASE StartHeader \/ StartRead
    BY <2>3 DEF StartHeader, StartRead, NoneLost
  <2>4. CASE SendLast
    <3>1. /\ sent_w' \o trans' = Held
          /\ UNCHANGED <<r_todo, w_todo, r_queue, w_queue, pending_queue, sent_r>>
      BY <2>4, SentOver DEF SendLast
    <3> QED
      BY <3>1 DEF NoneLost
  <2>5. CASE Header \/ SendData
    <3>1. /\ sent_w' \o trans' = Held
          /\ UNCHANGED <<r_todo, w_todo, r_queue, sent_r>>
      BY <2>5, SentOver DEF Header, SendData
    <3>2. /\ pending_queue' \in Seq(Payload) /\ w_queue' \in Seq(Payload)
      BY <2>5, NextWriteTaken DEF Header, SendData, FlitInv
    <3>3. pending_queue' \o w_queue' = pending_queue \o w_queue
      BY <2>5, NextWriteTaken DEF Header, SendData, FlitInv
    <3>4. w_queue \in Seq(Payload)
      BY DEF TypeOK
    <3> HIDE DEF Held
    <3>5. (Held \o pending_queue') \o w_queue' =
             Held \o (pending_queue' \o w_queue')
      BY <2>h, <3>2, ConcatAssociative
    <3>a. pending_queue \in Seq(Payload)
      BY <2>s
    <3>6. (Held \o pending_queue) \o w_queue = Held \o (pending_queue \o w_queue)
      BY <2>h, <3>a, <3>4, Associative, Zenon
    <3>7. Held \o pending_queue' \o w_queue' = Held \o pending_queue \o w_queue
      BY <3>3, <3>5, <3>6
    <3> QED
      BY <3>1, <3>7 DEF NoneLost, Held
  <2>6. CASE SendReads
    <3> DEFINE Pair == SubSeq(r_queue, 1, r_msg)
               Stay == SubSeq(r_queue, r_msg + 1, Len(r_queue))
    <3>1. r_queue \in Seq(Payload) /\ Len(r_queue) >= r_msg
      BY <2>6 DEF SendReads, FlitInv, TypeOK
    <3>2. Pair \in Seq(Payload) /\ Stay \in Seq(Payload)
      BY <3>1, ReadPair
    <3>3. Pair \o Stay = r_queue
      BY <3>1, ReadPair
    <3>4. /\ sent_r' = sent_r \o Pair /\ r_queue' = Stay
          /\ UNCHANGED <<r_todo, w_todo, w_queue, pending_queue, trans, sent_w>>
      BY <2>6 DEF SendReads
    <3> HIDE DEF Pair, Stay
    <3>5. (sent_r \o Pair) \o Stay = sent_r \o (Pair \o Stay)
      <4>1. sent_r \in Seq(Payload)
        BY <2>s
      <4> HIDE DEF r_msg
      <4> QED
        BY <3>2, <4>1, Associative
    <3> QED
      BY <3>3, <3>4, <3>5 DEF NoneLost
  <2>7. CASE UNCHANGED vars
    BY <2>7 DEF vars, NoneLost
  <2> QED
    BY <2>1, <2>2, <2>3, <2>4, <2>5, <2>6, <2>7 DEF Next, ThreadStep
<1> QED
  BY <1>1, <1>2, NoEmptyPop, PTL DEF Spec

(* What a sequence has grown by. *)
LEMMA Grown ==
  ASSUME NEW S, NEW s \in Seq(S), NEW t \in Seq(S)
  PROVE  JustSent(s, s \o t) = t
<1>1. /\ Len(s) \in Nat /\ Len(t) \in Nat
      /\ Len(s \o t) = Len(s) + Len(t)
  BY LenProperties, ConcatProperties
<1>2. CASE t = <<>>
  <2>1. Len(s \o t) < Len(s) + 1
    BY <1>1, <1>2, EmptySeq
  <2> QED
    BY <1>1, <1>2, <2>1, SubSeqEmpty DEF JustSent
<1>3. CASE t # <<>>
  <2>1. Len(t) >= 1
    BY <1>1, <1>3, EmptySeq
  <2>2. /\ Len(s) + 1 \in Len(s) + 1 .. Len(s) + Len(t)
        /\ Len(s) + Len(t) \in Len(s) + 1 .. Len(s) + Len(t)
    BY <1>1, <2>1
  <2>3. SubSeq(s \o t, Len(s) + 1, Len(s) + Len(t))
          = SubSeq(t, (Len(s) + 1) - Len(s), (Len(s) + Len(t)) - Len(s))
    BY <2>2, SubSeqOfConcat2
  <2>4. (Len(s) + 1) - Len(s) = 1 /\ (Len(s) + Len(t)) - Len(s) = Len(t)
    BY <1>1
  <2>5. SubSeq(t, 1, Len(t)) = t
    BY SubSeqFull
  <2> QED
    BY <1>1, <2>3, <2>4, <2>5 DEF JustSent
<1> QED
  BY <1>2, <1>3

(* Every step of the upstream port's thread sends what it sends behind     *)
(* what it has sent.                                                       *)
LEMMA SentGrows ==
  ASSUME TypeOK, FlitInv, ThreadStep
  PROVE  /\ \E rs \in Seq(Payload) : sent_r' = sent_r \o rs
         /\ \E ws \in Seq(Payload) : sent_w' = sent_w \o ws
<1>1. /\ sent_r \in Seq(Payload) /\ sent_w \in Seq(Payload)
      /\ trans \in Seq(Payload) /\ <<>> \in Seq(Payload)
  BY EmptySeq DEF TypeOK
<1>2. sent_r = sent_r \o <<>> /\ sent_w = sent_w \o <<>>
  BY <1>1, ConcatEmptySeq
<1>3. CASE SendReads
  <2>1. SubSeq(r_queue, 1, r_msg) \in Seq(Payload)
    BY <1>3, ReadPair DEF SendReads, FlitInv, TypeOK
  <2>2. /\ sent_r' = sent_r \o SubSeq(r_queue, 1, r_msg)
        /\ sent_w' = sent_w
    BY <1>3 DEF SendReads
  <2> QED
    BY <1>1, <1>2, <2>1, <2>2
<1>4. CASE SendLast \/ SendData
  <2>1. sent_w' = sent_w \o trans /\ sent_r' = sent_r
    BY <1>4 DEF SendLast, SendData
  <2> QED
    BY <1>1, <1>2, <2>1
<1>5. CASE StartLast \/ StartHeader \/ StartData \/ StartRead \/ Header
  <2>1. sent_w' = sent_w /\ sent_r' = sent_r
    BY <1>5 DEF StartLast, StartHeader, StartData, StartRead, Header
  <2> QED
    BY <1>1, <1>2, <2>1
<1> QED
  BY <1>3, <1>4, <1>5 DEF ThreadStep

(* A composed behaviour is one of the upstream port.                       *)
LEMMA PortsRunUsp == PortsSpec => Spec
<1>1. PortsInit => Init
  BY DEF PortsInit
<1>2. [PortsNext]_PortVars => [Next]_vars
  BY DEF PortsNext, PortVars, FromWrapper, UspTurn, DspTurn, Next
<1> QED
  BY <1>1, <1>2, PTL DEF PortsSpec, Spec

(* What the downstream port has and has given is what it was sent.         *)
DownInv ==
  /\ d_r \in Seq(Payload) /\ d_w \in Seq(Payload)
  /\ got_r \in Seq(Payload) /\ got_w \in Seq(Payload)
  /\ got_r \o d_r = sent_r
  /\ got_w \o d_w = sent_w

(* An element handed on, or none, from an empty queue.                     *)
LEMMA HandedOn ==
  ASSUME NEW dst \in Seq(Payload), NEW q \in Seq(Payload)
  PROVE  /\ dst \o Front(q) \in Seq(Payload)
         /\ Rest(q) \in Seq(Payload)
         /\ (dst \o Front(q)) \o Rest(q) = dst \o q
<1>1. CASE q = <<>>
  <2>1. Front(q) = <<>> /\ Rest(q) = <<>>
    BY <1>1, SubSeqEmpty DEF Front, Rest
  <2> QED
    BY <1>1, <2>1, ConcatEmptySeq
<1>2. CASE q # <<>>
  <2> DEFINE F == Front(q)
             R == Rest(q)
  <2>1. F \in Seq(Payload) /\ R \in Seq(Payload) /\ F \o R = q
    BY <1>2, FrontRest
  <2> HIDE DEF F, R
  <2>2. (dst \o F) \o R = dst \o (F \o R)
    BY <2>1, Associative
  <2>3. dst \o F \in Seq(Payload)
    BY <2>1, ConcatProperties
  <2> QED
    BY <2>1, <2>2, <2>3 DEF F, R
<1> QED
  BY <1>1, <1>2

(* What the downstream port has taken, then what it holds, is what was sent to it.
   *)
LEMMA DownInvHolds == PortsSpec => []DownInv
<1>1. PortsInit => DownInv
  <2>1. <<>> \o <<>> = <<>> /\ <<>> \in Seq(Payload)
    BY EmptySeq, ConcatEmptySeq
  <2> QED
    BY <2>1 DEF PortsInit, Init, Down!Init, DownInv
<1>2. TypeOK /\ FlitInv /\ DownInv /\ [PortsNext]_PortVars => DownInv'
  <2> SUFFICES ASSUME TypeOK, FlitInv, DownInv, [PortsNext]_PortVars
               PROVE  DownInv'
    OBVIOUS
  <2>t. /\ d_r \in Seq(Payload) /\ d_w \in Seq(Payload)
        /\ got_r \in Seq(Payload) /\ got_w \in Seq(Payload)
    BY DEF DownInv
  <2>1. CASE FromWrapper
    BY <2>1 DEF FromWrapper, TakeRead, TakeWrite, DownInv
  <2>2. CASE UspTurn
    <3>1. PICK rs \in Seq(Payload) : sent_r' = sent_r \o rs
      BY <2>2, SentGrows DEF UspTurn
    <3>2. PICK ws \in Seq(Payload) : sent_w' = sent_w \o ws
      BY <2>2, SentGrows DEF UspTurn
    <3>3. /\ JustSent(sent_r, sent_r') = rs
          /\ JustSent(sent_w, sent_w') = ws
      BY <3>1, <3>2, Grown DEF TypeOK
    <3>4. d_r' = d_r \o rs /\ d_w' = d_w \o ws /\ UNCHANGED <<got_r, got_w>>
      BY <2>2, <3>3 DEF UspTurn, Down!Take
    <3>a. got_r \in Seq(Payload) /\ d_r \in Seq(Payload)
      BY <2>t
    <3>b. got_w \in Seq(Payload) /\ d_w \in Seq(Payload)
      BY <2>t
    <3>5. (got_r \o d_r) \o rs = got_r \o (d_r \o rs)
      BY <3>a, Associative, Zenon
    <3>7. (got_w \o d_w) \o ws = got_w \o (d_w \o ws)
      BY <3>b, Associative, Zenon
    <3>6. d_r \o rs \in Seq(Payload) /\ d_w \o ws \in Seq(Payload)
      BY ConcatProperties DEF DownInv
    <3> QED
      BY <3>1, <3>2, <3>4, <3>5, <3>6, <3>7 DEF DownInv
  <2>3. CASE DspTurn
    <3>1. /\ d_r' = Rest(d_r) /\ got_r' = got_r \o Front(d_r)
          /\ d_w' = Rest(d_w) /\ got_w' = got_w \o Front(d_w)
          /\ UNCHANGED <<sent_r, sent_w>>
      BY <2>3 DEF DspTurn, Down!Turn, Down!Rest, Rest, vars
    <3>2. /\ got_r \o Front(d_r) \in Seq(Payload) /\ Rest(d_r) \in Seq(Payload)
          /\ (got_r \o Front(d_r)) \o Rest(d_r) = got_r \o d_r
      BY <2>t, HandedOn, Zenon
    <3>3. /\ got_w \o Front(d_w) \in Seq(Payload) /\ Rest(d_w) \in Seq(Payload)
          /\ (got_w \o Front(d_w)) \o Rest(d_w) = got_w \o d_w
      BY <2>t, HandedOn, Zenon
    <3> QED
      BY <3>1, <3>2, <3>3 DEF DownInv
  <2>4. CASE UNCHANGED PortVars
    BY <2>4 DEF PortVars, vars, DownInv
  <2> QED
    BY <2>1, <2>2, <2>3, <2>4 DEF PortsNext
<1> QED
  BY <1>1, <1>2, PortsRunUsp, NoEmptyPop, PTL DEF PortsSpec

(* From the wrapper to the controller nothing is lost, repeated or         *)
(* reordered, whatever the paces of the two threads.                       *)
THEOREM RequestsInOrder == PortsSpec => []EndToEnd
<1>1. NoneLost /\ DownInv => EndToEnd
  BY DEF NoneLost, DownInv, EndToEnd
<1> QED
  BY <1>1, PortsRunUsp, NoRequestLost, DownInvHolds, PTL

(* What the wrapper still has to forward is of its kind.                   *)
TodoInv == r_todo \in Seq(Kind("R")) /\ w_todo \in Seq(Kind("W"))

(* The requests still to come are of their stream's kind. *)
LEMMA TodoInvHolds == Spec => []TodoInv
<1>1. Init => TodoInv
  BY UspForwardAssumption DEF Init, TodoInv, Kind
<1>2. TodoInv /\ [Next]_vars => TodoInv'
  <2> SUFFICES ASSUME TodoInv, [Next]_vars PROVE TodoInv'
    OBVIOUS
  <2>1. Rest(r_todo) \in Seq(Kind("R")) /\ Rest(w_todo) \in Seq(Kind("W"))
    BY FrontRest DEF TodoInv
  <2>2. \/ r_todo' = r_todo
        \/ r_todo' = Rest(r_todo)
    BY DEF Next, ThreadStep, vars, TakeRead, TakeWrite, StartLast, StartHeader,
           StartData, StartRead, SendLast, Header, SendData, SendReads
  <2>3. \/ w_todo' = w_todo
        \/ w_todo' = Rest(w_todo)
    BY DEF Next, ThreadStep, vars, TakeRead, TakeWrite, StartLast, StartHeader,
           StartData, StartRead, SendLast, Header, SendData, SendReads
  <2> QED
    BY <2>1, <2>2, <2>3 DEF TodoInv
<1> QED
  BY <1>1, <1>2, PTL DEF Spec

(* The request a queue of the wrapper gives, or none: what a step of the   *)
(* link may take.                                                          *)
LEMMA FrontIsOptional ==
  ASSUME NEW c, NEW q \in Seq(Kind(c))
  PROVE  Front(q) \in AsLink!Optional(c)
<1>1. AsLink!Of(c) = Kind(c)
  BY DEF AsLink!Of, Kind, AsLink!Payload, Payload, AsLink!Addrs, Addrs,
         AsLink!Cells, Cells, AsLink!Slices, Slices
<1>2. CASE q = <<>>
  <2>1. Front(q) = <<>>
    BY <1>2, SubSeqEmpty DEF Front
  <2> QED
    BY <2>1 DEF AsLink!Optional
<1>3. CASE q # <<>>
  <2>1. Head(q) \in Kind(c) /\ Front(q) = <<Head(q)>>
    BY <1>3, HeadThenTail
  <2> QED
    BY <1>1, <2>1 DEF AsLink!Optional
<1> QED
  BY <1>2, <1>3

(* An element moved over, as a concatenation.                              *)
LEMMA MovedIsConcat ==
  ASSUME NEW S, NEW dst \in Seq(S), NEW q \in Seq(S)
  PROVE  Moved(dst, q) = dst \o Front(q)
<1>1. CASE q = <<>>
  <2>1. Front(q) = <<>>
    BY <1>1, SubSeqEmpty DEF Front
  <2> QED
    BY <1>1, <2>1, ConcatEmptySeq DEF Moved
<1>2. CASE q # <<>>
  <2>1. Head(q) \in S /\ Front(q) = <<Head(q)>>
    BY <1>2, HeadThenTail
  <2> QED
    BY <1>2, <2>1, AppendIsConcat DEF Moved
<1> QED
  BY <1>1, <1>2

(* What lies between two parts that stay is what the whole says.           *)
LEMMA Between ==
  ASSUME NEW s \in Seq(Payload), NEW x \in Seq(Payload),
         NEW y \in Seq(Payload), NEW t \in Seq(Payload)
  PROVE  (s \o x) \o t = (s \o y) \o t => x = y
<1> SUFFICES ASSUME (s \o x) \o t = (s \o y) \o t PROVE x = y
  OBVIOUS
<1>1. s \o x \in Seq(Payload) /\ s \o y \in Seq(Payload)
  BY ConcatProperties
<1>2. s \o x = s \o y
  BY <1>1, ConcatSimplifications, Zenon
<1> QED
  BY <1>2, ConcatSimplifications, Zenon

(* What is underway between the wrapper and the controller, of each kind.  *)
UnderwayR == d_r \o r_queue
UnderwayW == d_w \o trans \o pending_queue \o w_queue

(* The queues of the ports, one behind the other.                          *)
LEMMA UnderwayTyped ==
  ASSUME TypeOK, DownInv
  PROVE  /\ UnderwayR \in Seq(Payload) /\ UnderwayW \in Seq(Payload)
         /\ EndToEnd =>
              /\ (got_r \o UnderwayR) \o r_todo = ReadReqs
              /\ (got_w \o UnderwayW) \o w_todo = WriteReqs
<1>1. /\ d_r \in Seq(Payload) /\ d_w \in Seq(Payload)
      /\ got_r \in Seq(Payload) /\ got_w \in Seq(Payload)
      /\ r_queue \in Seq(Payload) /\ w_queue \in Seq(Payload)
      /\ trans \in Seq(Payload) /\ pending_queue \in Seq(Payload)
  BY DEF TypeOK, DownInv
<1>2. d_r \o r_queue \in Seq(Payload)
  BY <1>1, ConcatProperties
<1>3. d_w \o trans \in Seq(Payload)
  BY <1>1, ConcatProperties
<1>4. (d_w \o trans) \o pending_queue \in Seq(Payload)
  BY <1>1, <1>3, ConcatProperties
<1>5. ((d_w \o trans) \o pending_queue) \o w_queue \in Seq(Payload)
  BY <1>1, <1>4, ConcatProperties
<1>a. got_r \in Seq(Payload) /\ d_r \in Seq(Payload) /\ r_queue \in Seq(Payload)
  BY <1>1
<1>b. got_w \in Seq(Payload) /\ d_w \in Seq(Payload) /\ trans \in Seq(Payload)
  BY <1>1
<1>c. got_w \in Seq(Payload) /\ pending_queue \in Seq(Payload)
  BY <1>1
<1>d. got_w \in Seq(Payload) /\ w_queue \in Seq(Payload)
  BY <1>1
<1>6. (got_r \o d_r) \o r_queue = got_r \o (d_r \o r_queue)
  BY <1>a, Associative, Zenon
<1>7. (got_w \o d_w) \o trans = got_w \o (d_w \o trans)
  BY <1>b, Associative, Zenon
<1>8. (got_w \o (d_w \o trans)) \o pending_queue
        = got_w \o ((d_w \o trans) \o pending_queue)
  BY <1>c, <1>3, Associative, Zenon
<1>9. (got_w \o ((d_w \o trans) \o pending_queue)) \o w_queue
        = got_w \o (((d_w \o trans) \o pending_queue) \o w_queue)
  BY <1>d, <1>4, Associative, Zenon
<1>10. ((((got_w \o d_w) \o trans) \o pending_queue) \o w_queue)
        = got_w \o (((d_w \o trans) \o pending_queue) \o w_queue)
  BY <1>7, <1>8, <1>9
<1> QED
  BY <1>2, <1>5, <1>6, <1>10 DEF UnderwayR, UnderwayW, EndToEnd

(* UnderwayTyped after a step. *)
LEMMA UnderwayTypedNext ==
  (TypeOK /\ DownInv =>
     /\ UnderwayR \in Seq(Payload) /\ UnderwayW \in Seq(Payload)
     /\ EndToEnd =>
          /\ (got_r \o UnderwayR) \o r_todo = ReadReqs
          /\ (got_w \o UnderwayW) \o w_todo = WriteReqs)'
<1>1. TypeOK /\ DownInv =>
         /\ UnderwayR \in Seq(Payload) /\ UnderwayW \in Seq(Payload)
         /\ EndToEnd =>
              /\ (got_r \o UnderwayR) \o r_todo = ReadReqs
              /\ (got_w \o UnderwayW) \o w_todo = WriteReqs
  BY UnderwayTyped
<1> QED
  BY <1>1, PTL

(* The wrapper puts its request behind those that are underway.            *)
LEMMA WrapperTurn ==
  ASSUME TypeOK, DownInv, TodoInv, FromWrapper
  PROVE  \E rs \in AsLink!Optional("R"), ws \in AsLink!Optional("W") :
           UnderwayR' = UnderwayR \o rs /\ UnderwayW' = UnderwayW \o ws
<1>t. /\ UnderwayR \in Seq(Payload) /\ UnderwayW \in Seq(Payload)
      /\ d_r \in Seq(Payload)
      /\ r_queue \in Seq(Payload) /\ w_queue \in Seq(Payload)
      /\ r_todo \in Seq(Payload) /\ w_todo \in Seq(Payload)
  BY UnderwayTyped DEF TypeOK, DownInv
<1>n. <<>> \in AsLink!Optional("R") /\ <<>> \in AsLink!Optional("W")
  BY DEF AsLink!Optional
<1>e. UnderwayR \o <<>> = UnderwayR /\ UnderwayW \o <<>> = UnderwayW
  BY <1>t, ConcatEmptySeq
<1>1. CASE TakeRead
  <2> PICK F : F = Front(r_todo)
    OBVIOUS
  <2>1. F \in AsLink!Optional("R") /\ F \in Seq(Payload)
    BY <1>t, FrontIsOptional, FrontRest DEF TodoInv
  <2>2. Moved(r_queue, r_todo) = r_queue \o F
    BY <1>t, MovedIsConcat
  <2>3. /\ r_queue' = r_queue \o F
        /\ UNCHANGED <<d_r, d_w, trans, pending_queue, w_queue>>
    BY <1>1, <2>2 DEF TakeRead, FromWrapper
  <2>4. d_r \in Seq(Payload) /\ r_queue \in Seq(Payload)
    BY <1>t
  <2>5. (d_r \o r_queue) \o F = d_r \o (r_queue \o F)
    BY <2>1, <2>4, Associative, Zenon
  <2>6. UnderwayR' = UnderwayR \o F
    BY <2>3, <2>5 DEF UnderwayR
  <2>7. UnderwayW' = UnderwayW \o <<>>
    BY <1>e, <2>3 DEF UnderwayW
  <2> QED
    BY <1>n, <2>1, <2>6, <2>7
<1>2. CASE TakeWrite
  <2> PICK F : F = Front(w_todo)
    OBVIOUS
  <2> PICK D : D = d_w \o trans \o pending_queue
    OBVIOUS
  <2>0. D \in Seq(Payload)
    <3>1. /\ d_w \in Seq(Payload) /\ trans \in Seq(Payload)
          /\ pending_queue \in Seq(Payload)
      BY DEF TypeOK, DownInv
    <3>2. d_w \o trans \in Seq(Payload)
      BY <3>1, ConcatProperties
    <3> QED
      BY <3>1, <3>2, ConcatProperties
  <2>1. F \in AsLink!Optional("W") /\ F \in Seq(Payload)
    BY <1>t, FrontIsOptional, FrontRest DEF TodoInv
  <2>2. Moved(w_queue, w_todo) = w_queue \o F
    BY <1>t, MovedIsConcat
  <2>3. /\ w_queue' = w_queue \o F
        /\ UNCHANGED <<d_r, d_w, trans, pending_queue, r_queue>>
    BY <1>2, <2>2 DEF TakeWrite, FromWrapper
  <2>4. w_queue \in Seq(Payload)
    BY <1>t
  <2>5. (D \o w_queue) \o F = D \o (w_queue \o F)
    BY <2>0, <2>1, <2>4, Associative, Zenon
  <2>6. UnderwayW' = UnderwayW \o F
    BY <2>3, <2>5 DEF UnderwayW
  <2>7. UnderwayR' = UnderwayR \o <<>>
    BY <1>e, <2>3 DEF UnderwayR
  <2> QED
    BY <1>n, <2>1, <2>6, <2>7
<1> QED
  BY <1>1, <1>2 DEF FromWrapper

(* A turn of the upstream port changes nothing of what is underway: it     *)
(* hands on to the downstream port what it takes from its own queues.      *)
LEMMA UspTurnIsHidden ==
  ASSUME TypeOK, DownInv, EndToEnd, (TypeOK /\ DownInv /\ EndToEnd)', UspTurn
  PROVE  UnderwayR' = UnderwayR /\ UnderwayW' = UnderwayW
<1>1. UNCHANGED <<got_r, got_w, r_todo, w_todo>>
  BY DEF UspTurn, ThreadStep, StartLast, StartHeader, StartData, StartRead,
         SendLast, Header, SendData, SendReads
<1>2. /\ UnderwayR \in Seq(Payload) /\ UnderwayW \in Seq(Payload)
      /\ (got_r \o UnderwayR) \o r_todo = ReadReqs
      /\ (got_w \o UnderwayW) \o w_todo = WriteReqs
  BY UnderwayTyped
<1>3. /\ UnderwayR' \in Seq(Payload) /\ UnderwayW' \in Seq(Payload)
      /\ (got_r' \o UnderwayR') \o r_todo' = ReadReqs
      /\ (got_w' \o UnderwayW') \o w_todo' = WriteReqs
  BY UnderwayTypedNext
<1>4. /\ (got_r \o UnderwayR) \o r_todo = (got_r \o UnderwayR') \o r_todo
      /\ (got_w \o UnderwayW) \o w_todo = (got_w \o UnderwayW') \o w_todo
  BY <1>1, <1>2, <1>3
<1>5. /\ got_r \in Seq(Payload) /\ got_w \in Seq(Payload)
      /\ r_todo \in Seq(Payload) /\ w_todo \in Seq(Payload)
  BY DEF TypeOK, DownInv
<1>6. UnderwayR' = UnderwayR
  <2> PICK x : x = UnderwayR'
    OBVIOUS
  <2> PICK y : y = UnderwayR
    OBVIOUS
  <2> PICK s : s = got_r
    OBVIOUS
  <2> PICK t : t = r_todo
    OBVIOUS
  <2>1. x \in Seq(Payload) /\ y \in Seq(Payload) /\ s \in Seq(Payload) /\ t \in Seq(Payload)
    BY <1>2, <1>3, <1>5
  <2>2. (s \o x) \o t = (s \o y) \o t
    BY <1>4
  <2>3. x = y
    BY ONLY <2>1, <2>2, Between
  <2> QED
    BY <2>3
<1>7. UnderwayW' = UnderwayW
  <2> PICK x : x = UnderwayW'
    OBVIOUS
  <2> PICK y : y = UnderwayW
    OBVIOUS
  <2> PICK s : s = got_w
    OBVIOUS
  <2> PICK t : t = w_todo
    OBVIOUS
  <2>1. x \in Seq(Payload) /\ y \in Seq(Payload) /\ s \in Seq(Payload) /\ t \in Seq(Payload)
    BY <1>2, <1>3, <1>5
  <2>2. (s \o x) \o t = (s \o y) \o t
    BY <1>4
  <2>3. x = y
    BY ONLY <2>1, <2>2, Between
  <2> QED
    BY <2>3
<1> QED
  BY <1>6, <1>7

(* What is taken off the front leaves the rest.                            *)
LEMMA Dropped ==
  ASSUME NEW q \in Seq(Payload), NEW t \in Seq(Payload)
  PROVE  \E n \in 0 .. 1 :
           /\ n <= Len(q \o t)
           /\ Rest(q) \o t = SubSeq(q \o t, n + 1, Len(q \o t))
<1> PICK F : F = Front(q)
  OBVIOUS
<1> PICK R : R = Rest(q)
  OBVIOUS
<1>0. F \in Seq(Payload) /\ R \in Seq(Payload) /\ F \o R = q
  BY FrontRest
<1>a. Len(F) = IF q = <<>> THEN 0 ELSE 1
  BY FrontRest
<1>1. /\ F \in Seq(Payload) /\ R \in Seq(Payload) /\ F \o R = q
      /\ Len(F) \in 0 .. 1
  BY <1>0, <1>a
<1> PICK X : X = R \o t
  OBVIOUS
<1>2. X \in Seq(Payload)
  BY <1>1, ConcatProperties
<1>b. F \in Seq(Payload) /\ R \in Seq(Payload)
  BY <1>0
<1>3. (F \o R) \o t = F \o (R \o t)
  BY ONLY <1>b, Associative, Zenon
<1>4. q \o t = F \o X
  BY <1>1, <1>3
<1>5. Len(F \o X) = Len(F) + Len(X) /\ Len(X) \in Nat
  BY <1>1, <1>2, ConcatProperties, LenProperties
<1>6. SubSeq(F \o X, Len(F) + 1, Len(F \o X)) = X
  BY <1>1, <1>2, Grown DEF JustSent
<1>7. Len(F) <= Len(F \o X)
  BY <1>1, <1>5
<1> QED
  BY <1>1, <1>4, <1>6, <1>7

(* The downstream port gives the controller the oldest of each kind.       *)
LEMMA DspTurnSends ==
  ASSUME TypeOK, DownInv, DspTurn
  PROVE  \E nr \in 0 .. 1, nw \in 0 .. 1 :
           /\ nr <= Len(UnderwayR) /\ nw <= Len(UnderwayW)
           /\ UnderwayR' = SubSeq(UnderwayR, nr + 1, Len(UnderwayR))
           /\ UnderwayW' = SubSeq(UnderwayW, nw + 1, Len(UnderwayW))
<1>1. /\ d_r \in Seq(Payload) /\ d_w \in Seq(Payload)
      /\ r_queue \in Seq(Payload) /\ w_queue \in Seq(Payload)
      /\ trans \in Seq(Payload) /\ pending_queue \in Seq(Payload)
  BY DEF TypeOK, DownInv
<1> PICK T : T = (trans \o pending_queue) \o w_queue
  OBVIOUS
<1>2. T \in Seq(Payload)
  <2>1. trans \o pending_queue \in Seq(Payload)
    BY <1>1, ConcatProperties
  <2> QED
    BY <1>1, <2>1, ConcatProperties
<1>3. ASSUME NEW d \in Seq(Payload)
      PROVE  ((d \o trans) \o pending_queue) \o w_queue = d \o T
  <2>0. trans \in Seq(Payload) /\ pending_queue \in Seq(Payload)
    BY <1>1
  <2>1. (d \o trans) \o pending_queue = d \o (trans \o pending_queue)
    BY <2>0, Associative, Zenon
  <2>2. trans \o pending_queue \in Seq(Payload) /\ w_queue \in Seq(Payload)
    BY <1>1, ConcatProperties
  <2>3. (d \o (trans \o pending_queue)) \o w_queue
          = d \o ((trans \o pending_queue) \o w_queue)
    BY <2>2, Associative, Zenon
  <2> QED
    BY <2>1, <2>3
<1>4. /\ d_r' = Rest(d_r) /\ d_w' = Rest(d_w)
      /\ UNCHANGED <<r_queue, w_queue, trans, pending_queue>>
  BY DEF DspTurn, Down!Turn, Down!Rest, Rest, vars
<1>5. Rest(d_w) \in Seq(Payload)
  BY <1>1, FrontRest
<1>6. UnderwayR = d_r \o r_queue /\ UnderwayR' = Rest(d_r) \o r_queue
  BY <1>4 DEF UnderwayR
<1>7. UnderwayW = d_w \o T
  BY <1>1, <1>3 DEF UnderwayW
<1>8. UnderwayW' = Rest(d_w) \o T
  BY <1>3, <1>4, <1>5 DEF UnderwayW
<1>9. \E n \in 0 .. 1 :
         /\ n <= Len(UnderwayR)
         /\ UnderwayR' = SubSeq(UnderwayR, n + 1, Len(UnderwayR))
  BY <1>1, <1>6, Dropped
<1>10. \E n \in 0 .. 1 :
         /\ n <= Len(UnderwayW)
         /\ UnderwayW' = SubSeq(UnderwayW, n + 1, Len(UnderwayW))
  BY <1>1, <1>2, <1>7, <1>8, Dropped
<1> QED
  BY <1>9, <1>10

(* One host: what is said of it says it of the link.                       *)
LEMMA OneLink ==
  ASSUME NEW x, NEW y
  PROVE  /\ [OnLink(x) EXCEPT ![Host] = y] = OnLink(y)
         /\ OnLink(x)[Host] = x
         /\ \A h \in Hosts : h = Host
         /\ Host \in Hosts
BY UspForwardAssumption DEF OnLink

(* The two ports do what a link promises: every step of the composition    *)
(* is a step of the link, which takes a request, sends the oldest of each  *)
(* kind, or stands still while the upstream port packs its flits.          *)
THEOREM PortsAreALink == PortsSpec => ImplementsLink
<1>1. PortsInit => AsLink!Init
  <2> SUFFICES ASSUME PortsInit PROVE AsLink!Init
    OBVIOUS
  <2>1. <<>> \o <<>> = <<>>
    BY ConcatEmptySeq, EmptySeq
  <2>2. d_r \o r_queue = <<>> /\ d_w \o trans \o pending_queue \o w_queue = <<>>
    BY <2>1 DEF PortsInit, Init, Down!Init
  <2> QED
    BY <2>2 DEF AsLink!Init, OnLink
<1> DEFINE Known == TypeOK /\ FlitInv /\ DownInv /\ TodoInv /\ EndToEnd
<1>2. Known /\ Known' /\ [PortsNext]_PortVars => [AsLink!Next]_(AsLink!own)
  <2> SUFFICES ASSUME Known, Known', [PortsNext]_PortVars
               PROVE  AsLink!Next \/ UNCHANGED AsLink!own
    OBVIOUS
  <2>u. UnderwayR = d_r \o r_queue /\ UnderwayW = d_w \o trans \o pending_queue \o w_queue
    BY DEF UnderwayR, UnderwayW
  <2>v. /\ UnderwayR' = d_r' \o r_queue'
        /\ UnderwayW' = d_w' \o trans' \o pending_queue' \o w_queue'
    BY DEF UnderwayR, UnderwayW
  <2>1. CASE FromWrapper
    <3>1. PICK rs \in AsLink!Optional("R"), ws \in AsLink!Optional("W") :
            UnderwayR' = UnderwayR \o rs /\ UnderwayW' = UnderwayW \o ws
      BY <2>1, WrapperTurn
    <3>2. AsLink!TakeRequests(Host, rs, ws)
      BY <3>1, <2>u, <2>v, OneLink DEF AsLink!TakeRequests, OnLink
    <3> QED
      BY <3>2, OneLink DEF AsLink!Next
  <2>2. CASE UspTurn
    <3>1. UnderwayR' = UnderwayR /\ UnderwayW' = UnderwayW
      BY <2>2, UspTurnIsHidden
    <3> QED
      BY <3>1, <2>u, <2>v DEF AsLink!own, OnLink
  <2>3. CASE DspTurn
    <3>1. PICK nr \in 0 .. 1, nw \in 0 .. 1 :
            /\ nr <= Len(UnderwayR) /\ nw <= Len(UnderwayW)
            /\ UnderwayR' = SubSeq(UnderwayR, nr + 1, Len(UnderwayR))
            /\ UnderwayW' = SubSeq(UnderwayW, nw + 1, Len(UnderwayW))
      BY <2>3, DspTurnSends
    <3>2. AsLink!SendRequests(Host, nr, nw)
      BY <3>1, <2>u, <2>v, OneLink DEF AsLink!SendRequests, OnLink
    <3>3. nr \in 0 .. 2 /\ nw \in 0 .. 1
      OBVIOUS
    <3> QED
      BY <3>2, <3>3, OneLink DEF AsLink!Next
  <2>4. CASE UNCHANGED PortVars
    BY <2>4 DEF PortVars, vars, AsLink!own, OnLink
  <2> QED
    BY <2>1, <2>2, <2>3, <2>4 DEF PortsNext
<1>3. PortsSpec => []Known
  BY PortsRunUsp, NoEmptyPop, DownInvHolds, TodoInvHolds, RequestsInOrder, PTL
<1> QED
  BY <1>1, <1>2, <1>3, PTL DEF PortsSpec, ImplementsLink, AsLink!Spec
=============================================================================

----------------------------- MODULE IpcProofs -----------------------------
(***************************************************************************)
(* Proofs about Ipc for any set of processes: the proc table's fields      *)
(* agree, the sending queues are exact, no rendezvous is missed, and the   *)
(* deadlock() check keeps cycles of senders out.                           *)
(***************************************************************************)
EXTENDS Ipc, SequenceTheorems, TLAPS

----------------------------------------------------------------------------
\* Two lemmas on the queues: what unlinking the i-th entry leaves (the pointer
\* surgery of msg_receive, lines 477-486) and what appending an entry adds.

\* Unlinking keeps the other entries, in their order.
LEMMA RemoveAtElements ==
  ASSUME NEW S, NEW q \in Seq(S), NEW i \in 1 .. Len(q)
  PROVE  /\ RemoveAt(q, i) \in Seq(S)
         /\ Len(RemoveAt(q, i)) = Len(q) - 1
         /\ \A j \in 1 .. Len(q) - 1 :
              RemoveAt(q, i)[j] = IF j < i THEN q[j] ELSE q[j + 1]
<1> DEFINE front == SubSeq(q, 1, i - 1)
           back  == SubSeq(q, i + 1, Len(q))
<1>1. Len(q) \in Nat /\ i \in Int /\ \A j \in 1 .. Len(q) : q[j] \in S
  BY LenProperties, ElementOfSeq
<1>2. /\ front \in Seq(S) /\ Len(front) = i - 1
      /\ \A j \in 1 .. i - 1 : front[j] = q[j]
  <2>1. \A j \in 1 .. i - 1 : q[j] \in S
    BY <1>1
  <2>2. /\ front \in Seq(S)
        /\ Len(front) = IF 1 <= i - 1 THEN (i - 1) - 1 + 1 ELSE 0
        /\ \A j \in 1 .. (i - 1) - 1 + 1 : front[j] = q[1 + j - 1]
    BY <1>1, <2>1, SubSeqProperties
  <2>. QED
    BY <1>1, <2>2
<1>3. /\ back \in Seq(S) /\ Len(back) = Len(q) - i
      /\ \A j \in 1 .. Len(q) - i : back[j] = q[i + j]
  <2>1. \A j \in i + 1 .. Len(q) : q[j] \in S
    BY <1>1
  <2>2. /\ back \in Seq(S)
        /\ Len(back) = IF i + 1 <= Len(q) THEN Len(q) - (i + 1) + 1 ELSE 0
        /\ \A j \in 1 .. Len(q) - (i + 1) + 1 : back[j] = q[(i + 1) + j - 1]
    BY <1>1, <2>1, SubSeqProperties
  <2>. QED
    BY <1>1, <2>2
<1>4. /\ front \o back \in Seq(S)
      /\ Len(front \o back) = Len(front) + Len(back)
      /\ \A j \in 1 .. Len(front) + Len(back) :
           (front \o back)[j] =
             IF j <= Len(front) THEN front[j] ELSE back[j - Len(front)]
  BY <1>2, <1>3, ConcatProperties
<1>5. RemoveAt(q, i) = front \o back
  BY DEF RemoveAt
<1>. HIDE DEF front, back
<1>6. Len(RemoveAt(q, i)) = Len(q) - 1
  <2>1. Len(front) + Len(back) = Len(q) - 1
    BY <1>1, <1>2, <1>3
  <2>. QED
    BY <1>4, <1>5, <2>1, Zenon
<1>7. ASSUME NEW j \in 1 .. Len(q) - 1
      PROVE  RemoveAt(q, i)[j] = IF j < i THEN q[j] ELSE q[j + 1]
  <2>1. j \in 1 .. Len(front) + Len(back)
    BY <1>1, <1>2, <1>3
  <2>2. CASE j < i
    <3>1. j \in 1 .. i - 1 /\ j <= Len(front)
      BY <1>1, <1>2, <2>2
    <3>. QED
      BY <1>2, <1>4, <1>5, <2>1, <2>2, <3>1
  <2>3. CASE ~(j < i)
    <3>1. j - (i - 1) \in 1 .. Len(q) - i /\ ~(j <= Len(front))
      BY <1>1, <1>2, <2>3
    <3>2. back[j - (i - 1)] = q[j + 1]
      BY <1>1, <1>3, <3>1
    <3>. QED
      BY <1>2, <1>4, <1>5, <2>1, <2>3, <3>1, <3>2
  <2>. QED
    BY <2>2, <2>3
<1>. QED
  BY <1>4, <1>5, <1>6, <1>7

\* Unlinking one entry of a queue without duplicates removes exactly that
\* process and makes no duplicates.
LEMMA Unlink ==
  ASSUME NEW S, NEW q \in Seq(S), IsInjective(q), NEW i \in 1 .. Len(q)
  PROVE  /\ RemoveAt(q, i) \in Seq(S)
         /\ IsInjective(RemoveAt(q, i))
         /\ \A p : Contains(RemoveAt(q, i), p) <=> Contains(q, p) /\ p # q[i]
<1> DEFINE r == RemoveAt(q, i)
           origin(j) == IF j < i THEN j ELSE j + 1
<1>1. /\ r \in Seq(S) /\ Len(r) = Len(q) - 1 /\ DOMAIN r = 1 .. Len(q) - 1
      /\ \A j \in 1 .. Len(q) - 1 : r[j] = IF j < i THEN q[j] ELSE q[j + 1]
  BY RemoveAtElements, LenProperties
<1>2. Len(q) \in Nat /\ DOMAIN q = 1 .. Len(q) /\ i \in Int
  BY LenProperties
<1>. HIDE DEF r
<1>3. ASSUME NEW j \in DOMAIN r
      PROVE  origin(j) \in DOMAIN q /\ origin(j) # i /\ q[origin(j)] = r[j]
  BY <1>1, <1>2
<1>4. ASSUME NEW j \in DOMAIN r, NEW k \in DOMAIN r, origin(j) = origin(k)
      PROVE  j = k
  BY <1>1, <1>2, <1>4
<1>. HIDE DEF origin
<1>5. IsInjective(r)
  BY <1>3, <1>4 DEF IsInjective
<1>6. ASSUME NEW j \in DOMAIN r
      PROVE  (\E k \in DOMAIN q : q[k] = r[j]) /\ r[j] # q[i]
  BY <1>2, <1>3 DEF IsInjective
<1>7. ASSUME NEW k \in DOMAIN q, q[k] # q[i]
      PROVE  \E j \in DOMAIN r : r[j] = q[k]
  <2>1. CASE k < i
    <3>1. k \in DOMAIN r /\ r[k] = q[k]
      BY <1>1, <1>2, <2>1
    <3>. QED
      BY <3>1
  <2>2. CASE k > i
    <3>1. k - 1 \in DOMAIN r /\ r[k - 1] = q[k]
      BY <1>1, <1>2, <2>2
    <3>. QED
      BY <3>1
  <2>. QED
    BY <1>2, <1>7, <2>1, <2>2
<1>8. ASSUME NEW p
      PROVE  Contains(r, p) <=> Contains(q, p) /\ p # q[i]
  BY <1>1, <1>2, <1>6, <1>7 DEF Contains
<1>. QED
  BY <1>1, <1>5, <1>8 DEF r

\* Appending a process that is not in the queue adds exactly that process.
LEMMA Link ==
  ASSUME NEW S, NEW q \in Seq(S), IsInjective(q), NEW x \in S, ~Contains(q, x)
  PROVE  /\ Append(q, x) \in Seq(S)
         /\ IsInjective(Append(q, x))
         /\ \A p : Contains(Append(q, x), p) <=> Contains(q, p) \/ p = x
<1> DEFINE r == Append(q, x)
<1>1. Len(q) \in Nat /\ DOMAIN q = 1 .. Len(q)
  BY LenProperties
<1>2. /\ r \in Seq(S) /\ Len(r) = Len(q) + 1
      /\ \A j \in 1 .. Len(q) : r[j] = q[j]
      /\ r[Len(q) + 1] = x
  BY AppendProperties
<1>3. DOMAIN r = 1 .. Len(q) + 1
  BY <1>2, LenProperties
<1>. HIDE DEF r
<1>4. IsInjective(r)
  <2>. SUFFICES ASSUME NEW j \in DOMAIN r, NEW k \in DOMAIN r, r[j] = r[k]
                PROVE  j = k
    BY DEF IsInjective
  <2>1. (j \in DOMAIN q \/ j = Len(q) + 1) /\ (k \in DOMAIN q \/ k = Len(q) + 1)
    BY <1>1, <1>3
  <2>. QED
    BY <1>1, <1>2, <2>1 DEF IsInjective, Contains
<1>5. ASSUME NEW p
      PROVE  Contains(r, p) <=> Contains(q, p) \/ p = x
  BY <1>1, <1>2 DEF Contains
<1>. QED
  BY <1>2, <1>4, <1>5 DEF r

----------------------------------------------------------------------------
\* The inductive invariant.  FlagsInv and QueueInv need each other:
\* msg_receive clears the flags of whom it finds in the queue.
\* NoMissedRendezvous needs the queue to be exact, for a RECEIVE from ANY looks
\* at nothing else.
ReplyInv == \A p \in Procs : reply_from[p] # p

IInv == TypeOK /\ FlagsInv /\ QueueInv /\ NoMissedRendezvous /\ ReplyInv

\* What a call may do to reply_from.
ReplyStep == /\ reply_from' \in [Procs -> Procs \union {NO_TASK}]
             /\ ReplyInv'

LEMMA InitIInv == Init => IInv
<1>. SUFFICES ASSUME Init PROVE IInv
  OBVIOUS
<1>. USE IpcAssumption DEF Init
<1>1. TypeOK
  <2>1. q_sending \in [Procs -> Seq(Procs)]
    BY EmptySeq
  <2>2. buf \in [Procs -> Message]
    BY DEF Message
  <2>. QED
    BY <2>1, <2>2 DEF TypeOK
<1>2. FlagsInv
  BY DEF FlagsInv
<1>3. QueueInv
  BY DEF QueueInv, IsInjective, Contains, Sending
<1>4. NoMissedRendezvous /\ ReplyInv
  BY DEF NoMissedRendezvous, Receiving, ReplyInv
<1>. QED
  BY <1>1, <1>2, <1>3, <1>4 DEF IInv

\* msg_send to a process that waits for the message (lines 304-326).
LEMMA HandoverIInv ==
  ASSUME IInv, ReplyStep, NEW p \in Procs, NEW d \in Procs, p # d,
         NEW m \in Message, Runnable(p), Handover(p, d, m)
  PROVE  IInv'
<1>. USE IpcAssumption DEF Handover, WaitsFor, Receiving, Sending, Runnable
<1>1. TypeOK'
  BY DEF IInv, TypeOK, ReplyStep
<1>2. FlagsInv'
  BY DEF IInv, TypeOK, FlagsInv
<1>3. \A q \in Procs : Sending(q)' <=> Sending(q)
  BY DEF IInv, TypeOK, SENDING, RECEIVING
<1>4. QueueInv'
  BY <1>3 DEF IInv, QueueInv
<1>5. NoMissedRendezvous'
  BY <1>3 DEF IInv, TypeOK, NoMissedRendezvous
<1>. QED
  BY <1>1, <1>2, <1>4, <1>5 DEF IInv, ReplyStep

\* msg_send to a process that does not (lines 327-352).
LEMMA EnqueueIInv ==
  ASSUME IInv, ReplyStep, NEW p \in Procs, NEW d \in Procs, p # d,
         NEW m \in Message, Runnable(p), Enqueue(p, d, m)
  PROVE  IInv'
<1>. USE IpcAssumption DEF Enqueue, WaitsFor, Receiving, Sending, Runnable
<1>1. TypeOK'
  BY AppendProperties DEF IInv, TypeOK, ReplyStep
<1>2. FlagsInv'
  BY DEF IInv, TypeOK, FlagsInv
<1>3. \A q \in Procs : /\ q # p => (Sending(q)' <=> Sending(q))
                       /\ Sending(p)' /\ ~Sending(p)
                       /\ Receiving(q)' <=> Receiving(q)
  BY DEF IInv, TypeOK, SENDING, RECEIVING
<1>4. QueueInv'
  <2>. SUFFICES ASSUME NEW e \in Procs
       PROVE  /\ IsInjective(q_sending'[e])
              /\ \A q \in Procs :
                   Contains(q_sending'[e], q)
                     <=> (Sending(q)' /\ p_sendto'[q] = e)
    BY DEF QueueInv
  <2>1. CASE e # d
    <3>1. q_sending'[e] = q_sending[e]
      BY <2>1 DEF IInv, TypeOK
    <3>2. \A q \in Procs : Sending(q)' /\ p_sendto'[q] = e
                             <=> Sending(q) /\ p_sendto[q] = e
      BY <1>3, <2>1 DEF IInv, TypeOK
    <3>. HIDE DEF Enqueue, Sending
    <3>. QED
      BY <3>1, <3>2 DEF IInv, QueueInv
  <2>2. CASE e = d
    <3>1. q_sending'[e] = Append(q_sending[e], p) /\ q_sending[e] \in Seq(Procs)
      BY <2>2 DEF IInv, TypeOK
    <3>2. IsInjective(q_sending[e])
      BY DEF IInv, QueueInv
    <3>3. ~Contains(q_sending[e], p)
      BY <1>3 DEF IInv, QueueInv
    <3>4. \A q \in Procs : Sending(q)' /\ p_sendto'[q] = e
                             <=> (Sending(q) /\ p_sendto[q] = e) \/ q = p
      BY <1>3, <2>2 DEF IInv, TypeOK
    <3>5. /\ IsInjective(q_sending'[e])
          /\ \A q : Contains(q_sending'[e], q)
                      <=> Contains(q_sending[e], q) \/ q = p
      BY <3>1, <3>2, <3>3, Link
    <3>. HIDE DEF Enqueue, Sending
    <3>. QED
      BY <3>4, <3>5 DEF IInv, QueueInv
  <2>. QED
    BY <2>1, <2>2
<1>5. NoMissedRendezvous'
  <2>1. ASSUME NEW e \in Procs, Receiving(e)', NEW q \in Procs,
               p_recvfrom'[e] \in {q, ANY}
        PROVE  ~(Sending(q)' /\ p_sendto'[q] = e)
    <3>1. Receiving(e) /\ p_recvfrom[e] \in {q, ANY}
      BY <1>3, <2>1
    <3>2. CASE q = p
      BY <3>1, <3>2 DEF IInv, TypeOK
    <3>3. CASE q # p
      <4>1. ~(Sending(q) /\ p_sendto[q] = e)
        BY <3>1 DEF IInv, NoMissedRendezvous
      <4>. QED
        BY <1>3, <3>3, <4>1 DEF IInv, TypeOK
    <3>. QED
      BY <3>2, <3>3
  <2>2. ASSUME NEW e \in Procs, Receiving(e)',
               p_recvfrom'[e] \in {ANY, INTERRUPT}
        PROVE  ~has_int_msg'[e]
    BY <1>3, <2>2 DEF IInv, NoMissedRendezvous
  <2>. HIDE DEF Enqueue, Receiving, Sending
  <2>. QED
    BY <2>1, <2>2 DEF NoMissedRendezvous
<1>. QED
  BY <1>1, <1>2, <1>4, <1>5 DEF IInv, ReplyStep

\* msg_receive with an interrupt pending (lines 386-408).
LEMMA TakeInterruptIInv ==
  ASSUME IInv, ReplyStep, NEW p \in Procs, NEW s, Runnable(p),
         TakeInterrupt(p, s)
  PROVE  IInv'
<1>. USE IpcAssumption DEF TakeInterrupt
<1>1. TypeOK'
  BY DEF IInv, TypeOK, ReplyStep, Message
<1>2. FlagsInv'
  BY DEF IInv, FlagsInv
<1>3. QueueInv'
  BY DEF IInv, QueueInv, Sending
<1>4. NoMissedRendezvous'
  BY DEF IInv, TypeOK, NoMissedRendezvous, Receiving, Sending
<1>. QED
  BY <1>1, <1>2, <1>3, <1>4 DEF IInv, ReplyStep

\* msg_receive with a sender waiting (lines 412-499).
LEMMA FetchIInv ==
  ASSUME IInv, ReplyStep, NEW p \in Procs, NEW s, Runnable(p),
         Fetch(p, s)
  PROVE  IInv'
<1>. USE IpcAssumption
<1>1. PICK i \in 1 .. Len(q_sending[p]), from \in Procs :
        /\ from = q_sending[p][i]
        /\ q_sending' = [q_sending EXCEPT ![p] = RemoveAt(@, i)]
        /\ buf' = [buf EXCEPT ![p] = buf[from]]
        /\ p_msg' = [p_msg EXCEPT ![from] = FALSE]
        /\ p_sendto' = [p_sendto EXCEPT ![from] = NO_TASK]
        /\ p_flags' = [p_flags EXCEPT ![from] = @ \ {SENDING}]
  BY ElementOfSeq DEF Fetch, IInv, TypeOK
<1>2. UNCHANGED <<p_recvfrom, has_int_msg, halted>>
  BY DEF Fetch
<1>. USE DEF Sending, Receiving
<1>3. q_sending[p] \in Seq(Procs) /\ IsInjective(q_sending[p])
  BY DEF IInv, TypeOK, QueueInv
<1>4. from \in Procs /\ Contains(q_sending[p], from)
  BY <1>1 DEF Contains
<1>5. Sending(from) /\ p_sendto[from] = p /\ p_flags[from] = {SENDING}
  <2>1. Sending(from) /\ p_sendto[from] = p
    BY <1>4 DEF IInv, QueueInv
  <2>. QED
    BY <1>4, <2>1 DEF IInv, FlagsInv, Sending, SENDING, RECEIVING
<1>6. /\ RemoveAt(q_sending[p], i) \in Seq(Procs)
      /\ IsInjective(RemoveAt(q_sending[p], i))
      /\ \A q : Contains(RemoveAt(q_sending[p], i), q)
                  <=> Contains(q_sending[p], q) /\ q # from
  BY <1>1, <1>3, Unlink
<1>7. TypeOK'
  BY <1>2, <1>4, <1>6, <1>1 DEF IInv, TypeOK, ReplyStep
<1>8. FlagsInv'
  BY <1>2, <1>4, <1>5, <1>1 DEF IInv, TypeOK, FlagsInv
<1>9. \A q \in Procs : /\ q # from => (Sending(q)' <=> Sending(q))
                       /\ ~Sending(from)'
                       /\ Receiving(q)' <=> Receiving(q)
  <2>1. p_flags \in [Procs -> SUBSET {SENDING, RECEIVING}]
    BY DEF IInv, TypeOK
  <2>2. \A q \in Procs : q # from => p_flags'[q] = p_flags[q]
    BY <1>4, <1>1, <2>1
  <2>3. p_flags'[from] = {}
    BY <1>4, <1>5, <1>1, <2>1
  <2>. QED
    BY <1>5, <2>2, <2>3, SMT DEF Sending, Receiving, SENDING, RECEIVING
<1>10. QueueInv'
  <2>. SUFFICES ASSUME NEW e \in Procs
       PROVE  /\ IsInjective(q_sending'[e])
              /\ \A q \in Procs :
                   Contains(q_sending'[e], q)
                     <=> (Sending(q)' /\ p_sendto'[q] = e)
    BY DEF QueueInv
  <2>1. CASE e # p
    <3>1. q_sending'[e] = q_sending[e]
      BY <1>1, <2>1 DEF IInv, TypeOK
    <3>2. \A q \in Procs : Sending(q)' /\ p_sendto'[q] = e
                             <=> Sending(q) /\ p_sendto[q] = e
      BY <1>4, <1>5, <1>1, <1>9, <2>1 DEF IInv, TypeOK
    <3>. QED
      BY <3>1, <3>2 DEF IInv, QueueInv
  <2>2. CASE e = p
    <3>1. q_sending'[e] = RemoveAt(q_sending[p], i)
      BY <1>1, <2>2 DEF IInv, TypeOK
    <3>2. \A q \in Procs : Sending(q)' /\ p_sendto'[q] = e
                             <=> Sending(q) /\ p_sendto[q] = e /\ q # from
      BY <1>4, <1>1, <1>9, <2>2 DEF IInv, TypeOK
    <3>. QED
      <4>1. \A q \in Procs : Contains(q_sending[e], q)
                               <=> Sending(q) /\ p_sendto[q] = e
        BY DEF IInv, QueueInv
      <4>. QED
        BY <1>6, <2>2, <3>1, <3>2, <4>1 DEF Sending
  <2>. QED
    BY <2>1, <2>2
<1>11. NoMissedRendezvous'
  <2>1. \A q \in Procs : q # from => p_sendto'[q] = p_sendto[q]
    BY <1>4, <1>1 DEF IInv, TypeOK
  <2>2. \A q \in Procs : Sending(q)' => Sending(q) /\ p_sendto'[q] = p_sendto[q]
    BY <1>4, <1>9, <2>1
  <2>3. ASSUME NEW d \in Procs, Receiving(d)'
        PROVE  /\ \A q \in Procs : p_recvfrom'[d] \in {q, ANY}
                                  => ~(Sending(q)' /\ p_sendto'[q] = d)
               /\ p_recvfrom'[d] \in {ANY, INTERRUPT} => ~has_int_msg'[d]
    <3>1. Receiving(d) /\ p_recvfrom' = p_recvfrom /\ has_int_msg' = has_int_msg
      BY <1>2, <1>9, <2>3
    <3>. QED
      BY <2>2, <3>1 DEF IInv, NoMissedRendezvous
  <2>. QED
    BY <2>3 DEF NoMissedRendezvous
<1>. QED
  BY <1>7, <1>8, <1>10, <1>11 DEF IInv, ReplyStep

\* A sender msg_receive does not find does not exist: a RECEIVE from ANY looks
\* only at the queue, one from a process only at that process.
LEMMA NobodyReady ==
  ASSUME QueueInv, NEW p \in Procs, NEW s, ~SenderReady(p, s)
  PROVE  \A q \in Procs : s \in {q, ANY} => ~(Sending(q) /\ p_sendto[q] = p)
<1>. SUFFICES ASSUME NEW q \in Procs, s \in {q, ANY}
              PROVE  ~(Sending(q) /\ p_sendto[q] = p)
  OBVIOUS
<1>1. CASE s = ANY
  <2>1. ~Contains(q_sending[p], q)
    BY <1>1 DEF SenderReady, Contains
  <2>. QED
    BY <2>1 DEF QueueInv
<1>2. CASE s # ANY
  BY <1>2 DEF SenderReady
<1>. QED
  BY <1>1, <1>2

\* msg_receive with nobody sending (lines 500-520).
LEMMA BlockReceivingIInv ==
  ASSUME IInv, ReplyStep, NEW p \in Procs,
         NEW s \in Procs \union {ANY, INTERRUPT}, s # p, NEW m \in Message,
         Runnable(p), BlockReceiving(p, s, m)
  PROVE  IInv'
<1>. USE IpcAssumption DEF BlockReceiving, Runnable
<1>1. TypeOK'
  BY DEF IInv, TypeOK, ReplyStep
<1>2. FlagsInv'
  <2>1. ASSUME NEW q \in Procs, q # p
        PROVE  /\ p_flags'[q] = p_flags[q] /\ p_msg'[q] = p_msg[q]
               /\ p_recvfrom'[q] = p_recvfrom[q] /\ p_sendto'[q] = p_sendto[q]
    BY <2>1 DEF IInv, TypeOK
  <2>2. /\ p_flags'[p] = {RECEIVING} /\ p_msg'[p]
        /\ p_recvfrom'[p] = s /\ p_sendto'[p] = NO_TASK /\ s # NO_TASK
    BY DEF IInv, TypeOK, FlagsInv
  <2>. HIDE DEF BlockReceiving, Runnable
  <2>. QED
    BY <2>1, <2>2 DEF IInv, FlagsInv
<1>3. \A q \in Procs : /\ Sending(q)' <=> Sending(q)
                       /\ q # p => (Receiving(q)' <=> Receiving(q))
  BY DEF IInv, TypeOK, Sending, Receiving, SENDING, RECEIVING
<1>4. QueueInv'
  BY <1>3 DEF IInv, QueueInv
<1>5. NoMissedRendezvous'
  <2>1. p_recvfrom'[p] = s /\ p_sendto' = p_sendto /\ has_int_msg' = has_int_msg
    BY DEF IInv, TypeOK
  <2>2. ASSUME NEW q \in Procs, s \in {q, ANY}
        PROVE  ~(Sending(q) /\ p_sendto[q] = p)
    BY <2>2, NobodyReady DEF IInv
  <2>3. s \in {ANY, INTERRUPT} => ~has_int_msg[p]
    BY DEF IntPending
  <2>4. ASSUME NEW d \in Procs, d # p
        PROVE  p_recvfrom'[d] = p_recvfrom[d]
    BY <2>4 DEF IInv, TypeOK
  <2>. HIDE DEF BlockReceiving, Runnable
  <2>. QED
    BY <1>3, <2>1, <2>2, <2>3, <2>4 DEF IInv, NoMissedRendezvous
<1>. QED
  BY <1>1, <1>2, <1>4, <1>5 DEF IInv, ReplyStep

\* inform_int (lines 533-556).
LEMMA InformIntIInv ==
  ASSUME IInv, NEW t \in Procs, InformInt(t)
  PROVE  IInv'
<1>. DEFINE Wanted == Receiving(t) /\ p_recvfrom[t] \in {INTERRUPT, ANY}
<1>1. UNCHANGED <<p_sendto, q_sending, reply_from, halted>>
  BY DEF InformInt
<1>2. ReplyInv'
  BY <1>1 DEF IInv, ReplyInv
<1>3. CASE ~Wanted
  <2>1. /\ has_int_msg' = [has_int_msg EXCEPT ![t] = TRUE]
        /\ UNCHANGED <<p_flags, p_recvfrom, p_msg, buf>>
    BY <1>3 DEF InformInt
  <2>2. TypeOK' /\ FlagsInv'
    BY <1>1, <2>1 DEF IInv, TypeOK, FlagsInv
  <2>3. QueueInv'
    BY <1>1, <2>1 DEF IInv, QueueInv, Sending
  <2>4. NoMissedRendezvous'
    BY <1>1, <1>3, <2>1
       DEF IInv, TypeOK, NoMissedRendezvous, Receiving, Sending
  <2>. QED
    BY <1>2, <2>2, <2>3, <2>4 DEF IInv
<1>4. CASE Wanted
  <2>1. /\ buf' = [buf EXCEPT ![t] = [source |-> INTERRUPT, type |-> HARD_INT]]
        /\ p_msg' = [p_msg EXCEPT ![t] = FALSE]
        /\ has_int_msg' = [has_int_msg EXCEPT ![t] = FALSE]
        /\ p_flags' = [p_flags EXCEPT ![t] = @ \ {RECEIVING}]
        /\ p_recvfrom' = [p_recvfrom EXCEPT ![t] = NO_TASK]
    BY <1>4 DEF InformInt
  <2>2. [source |-> INTERRUPT, type |-> HARD_INT] \in Message
    BY DEF Message
  <2>3. TypeOK'
    BY <1>1, <2>1, <2>2 DEF IInv, TypeOK
  <2>4. FlagsInv'
    BY <1>1, <1>4, <2>1 DEF IInv, TypeOK, FlagsInv, Receiving, SENDING, RECEIVING
  <2>5. \A q \in Procs : /\ Sending(q)' <=> Sending(q)
                         /\ Receiving(q)' <=> Receiving(q) /\ q # t
    BY <2>1 DEF IInv, TypeOK, Sending, Receiving, SENDING, RECEIVING
  <2>6. QueueInv'
    BY <1>1, <2>5 DEF IInv, QueueInv, Sending
  <2>7. NoMissedRendezvous'
    BY <1>1, <2>1, <2>5
       DEF IInv, TypeOK, NoMissedRendezvous, Sending, Receiving
  <2>. QED
    BY <1>2, <2>3, <2>4, <2>6, <2>7 DEF IInv
<1>. QED
  BY <1>3, <1>4

----------------------------------------------------------------------------
\* Every step of Next is a msg_send, a msg_receive or an inform_int.
SendStep(p, d, m) ==
  /\ p # d /\ m.source = p /\ m.type \in Types /\ Runnable(p)
  /\ MsgSend(p, d, m) /\ ReplyStep

ReceiveStep(p, s, m) ==
  /\ s # p /\ m.source = p /\ Runnable(p) /\ MsgReceive(p, s, m) /\ ReplyStep

LEMMA Steps ==
  ASSUME IInv, Next
  PROVE  \/ \E p, d \in Procs, m \in Message : SendStep(p, d, m)
         \/ \E p \in Procs, s \in Procs \union {ANY, INTERRUPT}, m \in Message :
              ReceiveStep(p, s, m)
         \/ \E t \in IntTasks : InformInt(t)
<1>. USE IpcAssumption
<1>1. /\ reply_from \in [Procs -> Procs \union {NO_TASK}]
      /\ buf \in [Procs -> Message] /\ ReplyInv
  BY DEF IInv, TypeOK
<1>2. ASSUME NEW p \in Procs, NEW d \in Procs, NEW t \in Types,
             Send(p, d, t) \/ SendRec(p, d, t)
      PROVE  \E m \in Message : SendStep(p, d, m)
  <2>1. ReplyStep
    BY <1>1, <1>2 DEF Send, SendRec, ReplyStep, ReplyInv
  <2>2. [source |-> p, type |-> t] \in Message
    BY DEF Message
  <2>3. SendStep(p, d, [source |-> p, type |-> t])
    BY <1>2, <2>1 DEF Send, SendRec, SendStep
  <2>. QED
    BY <2>2, <2>3
<1>3. ASSUME NEW p \in Procs, Reply(p)
      PROVE  \E s \in Procs \union {ANY, INTERRUPT}, m \in Message :
               ReceiveStep(p, s, m)
  <2>1. ReplyStep
    BY <1>1, <1>3 DEF Reply, ReplyStep, ReplyInv
  <2>2. /\ [buf[p] EXCEPT !.source = p] \in Message
        /\ [buf[p] EXCEPT !.source = p].source = p
    BY <1>1 DEF Message
  <2>3. reply_from[p] \in Procs /\ reply_from[p] # p
    BY <1>1, <1>3 DEF Reply, ReplyInv
  <2>4. ReceiveStep(p, reply_from[p], [buf[p] EXCEPT !.source = p])
    BY <1>3, <2>1, <2>2, <2>3 DEF Reply, ReceiveStep
  <2>. QED
    BY <2>2, <2>3, <2>4
<1>4. ASSUME NEW p \in Procs, NEW s \in Procs \union {ANY, INTERRUPT},
             Receive(p, s)
      PROVE  \E m \in Message : ReceiveStep(p, s, m)
  <2>1. ReplyStep
    BY <1>1, <1>4 DEF Receive, ReplyStep, ReplyInv
  <2>2. [source |-> p, type |-> NoType] \in Message
    BY DEF Message
  <2>3. ReceiveStep(p, s, [source |-> p, type |-> NoType])
    BY <1>4, <2>1 DEF Receive, ReceiveStep
  <2>. QED
    BY <2>2, <2>3
<1>. QED
  BY <1>2, <1>3, <1>4 DEF Next

LEMMA PanicIInv ==
  ASSUME IInv, ReplyStep, NEW p \in Procs, NEW d, NEW m \in Message,
         PanicOnCycle(p, d, m)
  PROVE  IInv'
<1>. USE DEF PanicOnCycle, ipcVars
<1>1. TypeOK' /\ FlagsInv'
  BY DEF IInv, TypeOK, FlagsInv, ReplyStep
<1>2. QueueInv' /\ NoMissedRendezvous'
  BY DEF IInv, QueueInv, NoMissedRendezvous, Sending, Receiving
<1>. QED
  BY <1>1, <1>2 DEF IInv, ReplyStep

LEMMA NextIInv == IInv /\ [Next]_vars => IInv'
<1>. SUFFICES ASSUME IInv, [Next]_vars PROVE IInv'
  OBVIOUS
<1>1. ASSUME NEW p \in Procs, NEW d \in Procs, NEW m \in Message,
             SendStep(p, d, m)
      PROVE  IInv'
  BY <1>1, HandoverIInv, EnqueueIInv, PanicIInv DEF SendStep, MsgSend
<1>2. ASSUME NEW p \in Procs, NEW s \in Procs \union {ANY, INTERRUPT},
             NEW m \in Message, ReceiveStep(p, s, m)
      PROVE  IInv'
  BY <1>2, TakeInterruptIInv, FetchIInv, BlockReceivingIInv
     DEF ReceiveStep, MsgReceive, TakeMessage
<1>3. CASE Next
  BY <1>1, <1>2, <1>3, Steps, InformIntIInv, IpcAssumption
<1>4. CASE UNCHANGED vars
  BY <1>4 DEF vars, ipcVars, IInv, TypeOK, FlagsInv, QueueInv,
     NoMissedRendezvous, ReplyInv, Sending, Receiving
<1>. QED
  BY <1>3, <1>4

LEMMA Inductive == Spec => []IInv
  BY InitIInv, NextIInv, PTL DEF Spec

\* The fields of the proc table keep their types.
THEOREM TypeCorrect == Spec => []TypeOK
<1>1. IInv => TypeOK
  BY DEF IInv
<1>. QED
  BY <1>1, Inductive, PTL

\* The assertions of msg_send, msg_receive and inform_int about the fields of a
\* proc slot hold in every state of every run without nested interrupts.
THEOREM FlagsConsistent == Spec => []FlagsInv
<1>1. IInv => FlagsInv
  BY DEF IInv
<1>. QED
  BY <1>1, Inductive, PTL

\* The sending queues hold the blocked senders, each once, and nobody else.
THEOREM QueuesExact == Spec => []QueueInv
<1>1. IInv => QueueInv
  BY DEF IInv
<1>. QED
  BY <1>1, Inductive, PTL

\* Nobody sleeps in a RECEIVE that a sleeping sender or a pending interrupt
\* would satisfy.
THEOREM RendezvousComplete == Spec => []NoMissedRendezvous
<1>1. IInv => NoMissedRendezvous
  BY DEF IInv
<1>. QED
  BY <1>1, Inductive, PTL

----------------------------------------------------------------------------
\* deadlock() keeps cycles of senders out.  A step that adds no edge cannot
\* make a trap (a set whose members all wait to send within the set) ...
LEMMA NoNewEdge ==
  ASSUME NoSendCycle,
         \A q \in Procs : Sending(q)' => Sending(q) /\ p_sendto'[q] = p_sendto[q]
  PROVE  NoSendCycle'
BY DEF NoSendCycle

\* ... and the one edge msg_send adds leads into the closed set C that holds
\* dest but not src: what is in both the trap and C was a trap before.
LEMMA NewEdge ==
  ASSUME IInv, NoSendCycle, NEW p \in Procs, NEW d \in Procs, p # d,
         NEW m \in Message, Runnable(p), Enqueue(p, d, m)
  PROVE  NoSendCycle'
<1>1. PICK C \in SUBSET Procs : d \in C /\ ClosedUnderSendto(C) /\ p \notin C
  <2>1. CASE Sending(d)
    BY <2>1 DEF Enqueue, Deadlock
  <2>2. CASE ~Sending(d)
    <3>1. {d} \in SUBSET Procs /\ d \in {d} /\ ClosedUnderSendto({d}) /\ p \notin {d}
      BY <2>2 DEF ClosedUnderSendto
    <3>. QED
      BY <3>1
  <2>. QED
    BY <2>1, <2>2
<1>2. /\ p_flags \in [Procs -> SUBSET {SENDING, RECEIVING}]
      /\ p_sendto \in [Procs -> Procs \union {NO_TASK}]
  BY DEF IInv, TypeOK
<1>3. /\ \A q \in Procs \ {p} : /\ Sending(q)' <=> Sending(q)
                                /\ p_sendto'[q] = p_sendto[q]
      /\ p_sendto'[p] = d
  BY <1>2 DEF Enqueue, Sending
<1>4. ASSUME NEW S \in SUBSET Procs, S # {},
             \A q \in S : Sending(q)' /\ p_sendto'[q] \in S
      PROVE  FALSE
  <2>1. CASE p \notin S
    BY <1>3, <1>4, <2>1 DEF NoSendCycle
  <2>2. CASE p \in S
    <3>1. d \in S \cap C /\ S \cap C \in (SUBSET Procs) \ {{}}
      BY <1>1, <1>3, <1>4, <2>2
    <3>2. ASSUME NEW q \in S \cap C
          PROVE  Sending(q) /\ p_sendto[q] \in S \cap C
      <4>1. q # p /\ q \in Procs
        BY <1>1, <3>2
      <4>2. Sending(q) /\ p_sendto[q] \in S
        BY <1>3, <1>4, <3>2, <4>1
      <4>. QED
        BY <1>1, <3>2, <4>2 DEF ClosedUnderSendto
    <3>. QED
      BY <3>1, <3>2 DEF NoSendCycle
  <2>. QED
    BY <2>1, <2>2
<1>. QED
  BY <1>4 DEF NoSendCycle

LEMMA NextNoSendCycle == IInv /\ NoSendCycle /\ [Next]_vars => NoSendCycle'
<1>. SUFFICES ASSUME IInv, NoSendCycle, [Next]_vars PROVE NoSendCycle'
  OBVIOUS
<1>1. /\ p_flags \in [Procs -> SUBSET {SENDING, RECEIVING}]
      /\ p_sendto \in [Procs -> Procs \union {NO_TASK}]
      /\ SENDING # RECEIVING
  BY DEF IInv, TypeOK, SENDING, RECEIVING
<1>2. ASSUME NEW p \in Procs, NEW d \in Procs, NEW m \in Message,
             SendStep(p, d, m)
      PROVE  NoSendCycle'
  <2>1. CASE Handover(p, d, m)
    <3>1. \A q \in Procs : Sending(q)' => Sending(q) /\ p_sendto'[q] = p_sendto[q]
      BY <1>1, <2>1 DEF Handover, Sending
    <3>. QED
      BY <3>1, NoNewEdge
  <2>2. CASE Enqueue(p, d, m)
    BY <1>2, <2>2, NewEdge DEF SendStep
  <2>3. CASE PanicOnCycle(p, d, m)
    BY <2>3, NoNewEdge DEF PanicOnCycle, ipcVars, Sending
  <2>. QED
    BY <1>2, <2>1, <2>2, <2>3 DEF SendStep, MsgSend
<1>3. ASSUME NEW p \in Procs, NEW s \in Procs \union {ANY, INTERRUPT},
             NEW m \in Message, ReceiveStep(p, s, m)
      PROVE  NoSendCycle'
  <2>1. CASE TakeInterrupt(p, s)
    BY <2>1, NoNewEdge DEF TakeInterrupt, Sending
  <2>2. CASE TakeMessage(p, s)
    <3>1. PICK from \in Procs :
            /\ p_sendto' = [p_sendto EXCEPT ![from] = NO_TASK]
            /\ p_flags' = [p_flags EXCEPT ![from] = @ \ {SENDING}]
      BY <2>2, ElementOfSeq DEF TakeMessage, Fetch, IInv, TypeOK
    <3>2. \A q \in Procs : Sending(q)' => Sending(q) /\ p_sendto'[q] = p_sendto[q]
      BY <1>1, <3>1 DEF Sending
    <3>. QED
      BY <3>2, NoNewEdge
  <2>3. CASE BlockReceiving(p, s, m)
    <3>1. \A q \in Procs : Sending(q)' => Sending(q) /\ p_sendto'[q] = p_sendto[q]
      BY <1>1, <2>3 DEF BlockReceiving, Sending
    <3>. QED
      BY <3>1, NoNewEdge
  <2>. QED
    BY <1>3, <2>1, <2>2, <2>3 DEF ReceiveStep, MsgReceive
<1>4. ASSUME NEW t \in Procs, InformInt(t) PROVE NoSendCycle'
  <2>1. \A q \in Procs : Sending(q)' => Sending(q) /\ p_sendto'[q] = p_sendto[q]
    BY <1>1, <1>4 DEF InformInt, Sending
  <2>. QED
    BY <2>1, NoNewEdge
<1>5. CASE Next
  BY <1>2, <1>3, <1>4, <1>5, Steps, IpcAssumption
<1>6. CASE UNCHANGED vars
  BY <1>6, NoNewEdge DEF vars, ipcVars, Sending
<1>. QED
  BY <1>5, <1>6

\* No group of processes ever waits to send within the group, however many
\* processes there are and in whatever order they call.
THEOREM CyclesExcluded == Spec => []NoSendCycle
<1>1. ASSUME Init PROVE NoSendCycle
  <2>1. \A p \in Procs : ~Sending(p)
    BY <1>1 DEF Init, Sending
  <2>. QED
    BY <2>1 DEF NoSendCycle
<1>. QED
  BY <1>1, NextNoSendCycle, Inductive, PTL DEF Spec

----------------------------------------------------------------------------
\* Ipc implements Rendezvous: p_sendto alone says who offers, p_recvfrom alone
\* who wants, because the flags agree with them and the queues are exact.
LEMMA Correspondence ==
  ASSUME IInv
  PROVE  /\ \A p \in Procs : Runnable(p) => R!Idle(p)
         /\ \A p \in Procs : Sending(p) <=> p_sendto[p] # NO_TASK
         /\ \A p \in Procs : Receiving(p) <=> p_recvfrom[p] # NO_TASK
         /\ \A p, d \in Procs : p # d => (Deadlock(p, d) <=> R!Closes(p, d))
<1>. USE IpcAssumption
<1>1. \A p \in Procs : Runnable(p) => R!Idle(p)
  BY DEF IInv, FlagsInv, Runnable, R!Idle, SENDING, RECEIVING
<1>2. \A p \in Procs : /\ Sending(p) <=> p_sendto[p] # NO_TASK
                       /\ Receiving(p) <=> p_recvfrom[p] # NO_TASK
  BY DEF IInv, FlagsInv, Sending, Receiving, SENDING, RECEIVING
<1>3. ASSUME NEW p \in Procs, NEW d \in Procs, p # d
      PROVE  Deadlock(p, d) <=> R!Closes(p, d)
  <2>1. \A S \in SUBSET Procs :
          ClosedUnderSendto(S)
            <=> (\A q \in S : p_sendto[q] # NO_TASK => p_sendto[q] \in S)
    BY <1>2 DEF ClosedUnderSendto
  <2>2. CASE Sending(d)
    BY <2>1, <2>2 DEF Deadlock, R!Closes
  <2>3. CASE ~Sending(d)
    <3>1. {d} \in SUBSET Procs /\ d \in {d} /\ ClosedUnderSendto({d}) /\ p \notin {d}
      BY <1>3, <2>3 DEF ClosedUnderSendto
    <3>2. ~R!Closes(p, d)
      BY <2>1, <3>1 DEF R!Closes
    <3>. QED
      BY <2>3, <3>2 DEF Deadlock
  <2>. QED
    BY <2>2, <2>3
<1>. QED
  BY <1>1, <1>2, <1>3

LEMMA SendRefines ==
  ASSUME IInv, NEW p \in Procs, NEW d \in Procs, NEW m \in Message,
         SendStep(p, d, m)
  PROVE  R!Next
<1>1. R!Idle(p) /\ (Deadlock(p, d) <=> R!Closes(p, d)) /\ p # d
  BY Correspondence DEF SendStep
<1>2. WaitsFor(d, p) <=> p_recvfrom[d] \in {p, ANY}
  BY IpcAssumption, Correspondence DEF WaitsFor
<1>3. ASSUME Handover(p, d, m) PROVE R!Offer(p, d, m)
  BY <1>1, <1>2, <1>3 DEF Handover, R!Offer
<1>4. ASSUME Enqueue(p, d, m) PROVE R!Offer(p, d, m)
  BY <1>1, <1>2, <1>4 DEF Enqueue, R!Offer
<1>5. ASSUME PanicOnCycle(p, d, m) PROVE R!Offer(p, d, m)
  BY <1>1, <1>5 DEF PanicOnCycle, ipcVars, R!Offer
<1>6. R!Offer(p, d, m)
  BY <1>3, <1>4, <1>5 DEF SendStep, MsgSend
<1>7. m = [source |-> p, type |-> m.type] /\ m.type \in Types
  BY DEF SendStep, Message
<1>. QED
  BY <1>6, <1>7 DEF R!Next

LEMMA ReceiveRefines ==
  ASSUME IInv, NEW p \in Procs, NEW s \in Procs \union {ANY, INTERRUPT},
         NEW m \in Message, ReceiveStep(p, s, m)
  PROVE  R!Next
<1>1. R!Idle(p) /\ p # s
  BY Correspondence DEF ReceiveStep, MsgReceive
<1>2. ASSUME NEW q \in Procs
      PROVE  q \in R!Offers(p, s)
               <=> Sending(q) /\ p_sendto[q] = p /\ s \in {q, ANY}
  BY IpcAssumption, Correspondence DEF R!Offers
<1>3. ASSUME TakeInterrupt(p, s) PROVE R!Want(p, s, m)
  BY <1>1, <1>3 DEF TakeInterrupt, IntPending, R!Want, R!Interrupt
<1>4. ASSUME TakeMessage(p, s) PROVE R!Want(p, s, m)
  <2>1. PICK i \in 1 .. Len(q_sending[p]), from \in Procs :
          /\ from = q_sending[p][i]
          /\ s \in {from, ANY}
          /\ buf' = [buf EXCEPT ![p] = buf[from]]
          /\ p_sendto' = [p_sendto EXCEPT ![from] = NO_TASK]
    BY <1>4, ElementOfSeq DEF TakeMessage, Fetch, IInv, TypeOK
  <2>2. Contains(q_sending[p], from)
    BY <2>1 DEF Contains
  <2>3. from \in R!Offers(p, s)
    BY <1>2, <2>1, <2>2 DEF IInv, QueueInv
  <2>. QED
    BY <1>1, <1>4, <2>1, <2>3 DEF TakeMessage, Fetch, IntPending, R!Want
<1>5. ASSUME BlockReceiving(p, s, m) PROVE R!Want(p, s, m)
  <2>1. R!Offers(p, s) = {}
    <3>1. \A q \in Procs : s \in {q, ANY} => ~(Sending(q) /\ p_sendto[q] = p)
      BY <1>5, NobodyReady DEF BlockReceiving, IInv
    <3>2. R!Offers(p, s) \subseteq Procs
      BY DEF R!Offers
    <3>. QED
      BY <1>2, <3>1, <3>2
  <2>. QED
    BY <1>1, <1>5, <2>1 DEF BlockReceiving, IntPending, R!Want
<1>6. R!Want(p, s, m)
  BY <1>3, <1>4, <1>5 DEF ReceiveStep, MsgReceive
<1>7. /\ m = [source |-> p, type |-> m.type]
      /\ m.type \in Types \union {NoType, HARD_INT}
  BY DEF ReceiveStep, Message
<1>. QED
  BY <1>6, <1>7 DEF R!Next

LEMMA StrikeRefines ==
  ASSUME IInv, NEW t \in IntTasks, InformInt(t)
  PROVE  R!Next
<1>1. Receiving(t) /\ p_recvfrom[t] \in {INTERRUPT, ANY}
        <=> p_recvfrom[t] \in {ANY, INTERRUPT}
  BY IpcAssumption, Correspondence
<1>2. R!Strike(t)
  BY <1>1 DEF InformInt, R!Strike, R!Interrupt
<1>. QED
  BY <1>2 DEF R!Next

\* Whatever the number of processes and the calls they make, the proc table
\* behaves as synchronous message passing does.
THEOREM Implements == Spec => RefinesRendezvous
<1>1. Init => R!Init
  BY DEF Init, R!Init
<1>2. IInv /\ [Next]_vars => [R!Next]_(R!vars)
  <2>1. ASSUME IInv, Next PROVE R!Next
    BY <2>1, Steps, SendRefines, ReceiveRefines, StrikeRefines
  <2>2. UNCHANGED vars => UNCHANGED R!vars
    BY DEF vars, ipcVars, R!vars
  <2>. QED
    BY <2>1, <2>2
<1>. QED
  BY <1>1, <1>2, Inductive, PTL DEF Spec, RefinesRendezvous, R!Spec

----------------------------------------------------------------------------
\* What a step may never do.

\* Only TakeMessage ends a SEND that had to wait.
LEMMA StillSending ==
  ASSUME IInv, [Next]_vars, NEW q \in Procs, Sending(q), ~Sending(q)'
  PROVE  \E p \in Procs, s \in Procs \union {ANY, INTERRUPT}, m \in Message :
            ReceiveStep(p, s, m) /\ TakeMessage(p, s)
<1>1. p_flags \in [Procs -> SUBSET {SENDING, RECEIVING}] /\ SENDING # RECEIVING
  BY DEF IInv, TypeOK, SENDING, RECEIVING
<1>2. ASSUME NEW p \in Procs, NEW d \in Procs, NEW m \in Message,
             SendStep(p, d, m)
      PROVE  Sending(q)'
  <2>1. \/ p_flags' = [p_flags EXCEPT ![d] = @ \ {RECEIVING}]
        \/ p_flags' = [p_flags EXCEPT ![p] = @ \union {SENDING}]
        \/ p_flags' = p_flags
    BY <1>2 DEF SendStep, MsgSend, Handover, Enqueue, PanicOnCycle, ipcVars
  <2>. QED
    BY <1>1, <2>1 DEF Sending
<1>3. ASSUME NEW p \in Procs, NEW s, NEW m, ReceiveStep(p, s, m),
             ~TakeMessage(p, s)
      PROVE  Sending(q)'
  <2>1. \/ p_flags' = [p_flags EXCEPT ![p] = @ \union {RECEIVING}]
        \/ p_flags' = p_flags
    BY <1>3 DEF ReceiveStep, MsgReceive, TakeInterrupt, BlockReceiving
  <2>. QED
    BY <1>1, <2>1 DEF Sending
<1>4. ASSUME NEW t \in IntTasks, InformInt(t) PROVE Sending(q)'
  <2>1. \/ p_flags' = [p_flags EXCEPT ![t] = @ \ {RECEIVING}]
        \/ p_flags' = p_flags
    BY <1>4 DEF InformInt
  <2>. QED
    BY <1>1, <2>1 DEF Sending
<1>5. CASE UNCHANGED vars
  BY <1>5 DEF vars, ipcVars, Sending
<1>. QED
  BY <1>2, <1>3, <1>4, <1>5, Steps

\* A waiting sender is released only together with the delivery of its message.
THEOREM MessagesHandedOver == Spec => HandedOverOnce
<1>1. ASSUME IInv, [Next]_vars, NEW q \in Procs, Sending(q), ~Sending(q)'
      PROVE  /\ buf'[p_sendto[q]] = buf[q]
             /\ buf'[q] = buf[q]
             /\ p_flags'[p_sendto[q]] = {}
  <2>1. PICK p \in Procs, s \in Procs \union {ANY, INTERRUPT}, m \in Message :
               ReceiveStep(p, s, m) /\ TakeMessage(p, s)
    BY <1>1, StillSending
  <2>2. PICK i \in 1 .. Len(q_sending[p]), from \in Procs :
          /\ from = q_sending[p][i]
          /\ buf' = [buf EXCEPT ![p] = buf[from]]
          /\ p_flags' = [p_flags EXCEPT ![from] = @ \ {SENDING}]
    BY <1>1, <2>1, ElementOfSeq DEF TakeMessage, Fetch, IInv, TypeOK
  <2>3. /\ p_flags \in [Procs -> SUBSET {SENDING, RECEIVING}]
        /\ buf \in [Procs -> Message]
    BY <1>1 DEF IInv, TypeOK
  <2>4. q = from
    BY <1>1, <2>2, <2>3 DEF Sending
  <2>5. Contains(q_sending[p], from)
    BY <2>2 DEF Contains
  <2>6. p_sendto[q] = p
    BY <1>1, <2>4, <2>5 DEF IInv, QueueInv
  <2>7. p_flags[p] = {} /\ p # q
    BY <1>1, <2>1 DEF ReceiveStep, Runnable, Sending
  <2>. QED
    BY <2>2, <2>3, <2>4, <2>6, <2>7
<1>2. IInv /\ [Next]_vars
        => [\A p \in Procs :
              Sending(p) /\ ~Sending(p)' =>
                /\ buf'[p_sendto[p]] = buf[p]
                /\ buf'[p] = buf[p]
                /\ p_flags'[p_sendto[p]] = {}]_vars
  BY <1>1
<1>. QED
  BY <1>2, Inductive, PTL DEF Spec, HandedOverOnce

\* A message waiting in a queue names the process it waits for: msg_send() had
\* set its source.
SignedInv == \A q \in Procs : Sending(q) => buf[q].source = q

LEMMA InitSigned == Init => SignedInv
  BY DEF Init, SignedInv, Sending

LEMMA NextSigned == IInv /\ SignedInv /\ [Next]_vars => SignedInv'
<1>. SUFFICES ASSUME IInv, SignedInv, [Next]_vars, NEW q \in Procs, Sending(q)'
              PROVE  buf'[q].source = q
  BY DEF SignedInv
<1>. USE DEF Sending
<1>1. /\ p_flags \in [Procs -> SUBSET {SENDING, RECEIVING}]
      /\ buf \in [Procs -> Message] /\ SENDING # RECEIVING
  BY DEF IInv, TypeOK, SENDING, RECEIVING
<1>2. /\ Sending(q) => buf[q].source = q
      /\ Receiving(q) => ~Sending(q)
      /\ p_flags[q] = {} => ~Sending(q)
  BY <1>1 DEF SignedInv, IInv, FlagsInv, Receiving
<1>3. ASSUME NEW p \in Procs, NEW d \in Procs, NEW m \in Message,
             SendStep(p, d, m)
      PROVE  buf'[q].source = q
  <2>1. p_flags[p] = {} /\ m.source = p
    BY <1>3 DEF SendStep, Runnable
  <2>2. CASE Handover(p, d, m)
    BY <1>1, <1>2, <2>1, <2>2 DEF Handover, WaitsFor, Receiving
  <2>3. CASE Enqueue(p, d, m)
    BY <1>1, <1>2, <2>1, <2>3 DEF Enqueue
  <2>4. CASE PanicOnCycle(p, d, m)
    BY <1>1, <1>2, <2>1, <2>4 DEF PanicOnCycle, ipcVars
  <2>. QED
    BY <1>3, <2>2, <2>3, <2>4 DEF SendStep, MsgSend
<1>4. ASSUME NEW p \in Procs, NEW s \in Procs \union {ANY, INTERRUPT},
             NEW m \in Message, ReceiveStep(p, s, m)
      PROVE  buf'[q].source = q
  <2>1. p_flags[p] = {} /\ m.source = p
    BY <1>4 DEF ReceiveStep, Runnable
  <2>2. CASE TakeInterrupt(p, s)
    BY <1>1, <1>2, <2>1, <2>2 DEF TakeInterrupt
  <2>3. CASE TakeMessage(p, s)
    <3>1. PICK from \in Procs :
            /\ buf' = [buf EXCEPT ![p] = buf[from]]
            /\ p_flags' = [p_flags EXCEPT ![from] = @ \ {SENDING}]
      BY <2>3, ElementOfSeq DEF TakeMessage, Fetch, IInv, TypeOK
    <3>. QED
      BY <1>1, <1>2, <2>1, <3>1
  <2>4. CASE BlockReceiving(p, s, m)
    BY <1>1, <1>2, <2>1, <2>4 DEF BlockReceiving
  <2>. QED
    BY <1>4, <2>2, <2>3, <2>4 DEF ReceiveStep, MsgReceive
<1>5. ASSUME NEW t \in IntTasks, InformInt(t)
      PROVE  buf'[q].source = q
  BY <1>1, <1>2, <1>5, IpcAssumption DEF InformInt, Receiving
<1>6. CASE UNCHANGED vars
  BY <1>2, <1>6 DEF vars, ipcVars
<1>. QED
  BY <1>3, <1>4, <1>5, <1>6, Steps

LEMMA Signed == Spec => []SignedInv
  BY InitSigned, NextSigned, Inductive, PTL DEF Spec

\* A RECEIVE that had to wait ends with a message of the partner it named.
LEMMA PartnerNamed ==
  ASSUME IInv, [Next]_vars, NEW q \in Procs, Receiving(q), ~Receiving(q)'
  PROVE  buf'[q].source # q /\ p_recvfrom[q] \in {ANY, buf'[q].source}
<1>. USE DEF Receiving
<1>1. /\ p_flags \in [Procs -> SUBSET {SENDING, RECEIVING}]
      /\ buf \in [Procs -> Message] /\ SENDING # RECEIVING
  BY DEF IInv, TypeOK, SENDING, RECEIVING
<1>2. ASSUME NEW p \in Procs, NEW d \in Procs, NEW m \in Message,
             SendStep(p, d, m)
      PROVE  buf'[q].source # q /\ p_recvfrom[q] \in {ANY, buf'[q].source}
  <2>1. p # d /\ m.source = p
    BY <1>2 DEF SendStep
  <2>2. Handover(p, d, m)
    <3>1. CASE Enqueue(p, d, m)
      BY <1>1, <3>1 DEF Enqueue
    <3>2. CASE PanicOnCycle(p, d, m)
      BY <3>2 DEF PanicOnCycle, ipcVars
    <3>. QED
      BY <1>2, <3>1, <3>2 DEF SendStep, MsgSend
  <2>3. q = d
    BY <1>1, <2>2 DEF Handover
  <2>. QED
    BY <1>1, <2>1, <2>2, <2>3 DEF Handover, WaitsFor
<1>3. ASSUME NEW p \in Procs, NEW s \in Procs \union {ANY, INTERRUPT},
             NEW m \in Message, ReceiveStep(p, s, m)
      PROVE  FALSE
  <2>1. CASE TakeInterrupt(p, s)
    BY <2>1 DEF TakeInterrupt
  <2>2. CASE TakeMessage(p, s)
    BY <1>1, <2>2 DEF TakeMessage, Fetch
  <2>3. CASE BlockReceiving(p, s, m)
    BY <1>1, <2>3 DEF BlockReceiving
  <2>. QED
    BY <1>3, <2>1, <2>2, <2>3 DEF ReceiveStep, MsgReceive
<1>4. ASSUME NEW t \in IntTasks, InformInt(t)
      PROVE  buf'[q].source # q /\ p_recvfrom[q] \in {ANY, buf'[q].source}
  <2>1. /\ q = t /\ p_recvfrom[t] \in {INTERRUPT, ANY}
        /\ buf' = [buf EXCEPT ![t] = [source |-> INTERRUPT, type |-> HARD_INT]]
    BY <1>1, <1>4 DEF InformInt
  <2>. QED
    BY <1>1, <2>1, IpcAssumption
<1>5. CASE UNCHANGED vars
  BY <1>5 DEF vars, ipcVars
<1>. QED
  BY <1>2, <1>3, <1>4, <1>5, Steps

\* The second half of send_recv(BOTH) takes the peer's message or waits for it.
LEMMA PeerAnswers ==
  ASSUME IInv, SignedInv, [Next]_vars, NEW q \in Procs,
         reply_from[q] # NO_TASK, reply_from'[q] = NO_TASK
  PROVE  buf'[q].source = reply_from[q] \/ p_recvfrom'[q] = reply_from[q]
<1>. USE IpcAssumption
<1>1. /\ reply_from \in [Procs -> Procs \union {NO_TASK}]
      /\ buf \in [Procs -> Message]
      /\ p_recvfrom \in [Procs -> Procs \union {ANY, INTERRUPT, NO_TASK}]
  BY DEF IInv, TypeOK
<1>2. Reply(q)
  <2>1. ASSUME NEW p \in Procs, NEW d \in Procs, NEW t \in Types,
               Send(p, d, t) \/ SendRec(p, d, t)
        PROVE  FALSE
    BY <1>1, <2>1 DEF Send, SendRec
  <2>2. ASSUME NEW p \in Procs, NEW s \in Procs \union {ANY, INTERRUPT},
               Receive(p, s)
        PROVE  FALSE
    BY <2>2 DEF Receive
  <2>3. ASSUME NEW t \in IntTasks, InformInt(t) PROVE FALSE
    BY <2>3 DEF InformInt
  <2>4. ASSUME NEW p \in Procs, Reply(p) PROVE p = q
    BY <1>1, <2>4 DEF Reply
  <2>. QED
    BY <2>1, <2>2, <2>3, <2>4 DEF Next, vars
<1> DEFINE s == reply_from[q]
<1>3. s \in Procs
  BY <1>1
<1>4. ~TakeInterrupt(q, s)
  BY <1>3 DEF TakeInterrupt, IntPending
<1>5. CASE TakeMessage(q, s)
  <2>1. /\ buf' = [buf EXCEPT ![q] = buf[s]]
        /\ Sending(s)
    BY <1>3, <1>5 DEF TakeMessage, SenderReady, Fetch
  <2>. QED
    BY <1>1, <1>3, <2>1 DEF SignedInv
<1>6. ASSUME NEW m, BlockReceiving(q, s, m)
      PROVE  p_recvfrom'[q] = s
  BY <1>1, <1>6 DEF BlockReceiving
<1>. QED
  BY <1>2, <1>4, <1>5, <1>6 DEF Reply, MsgReceive

\* No server's answer reaches the wrong client: a process leaves a RECEIVE, and
\* the second half of send_recv(BOTH), only with a message of its partner.
THEOREM AnswersFromPartner == Spec => AnswersMatch
<1>1. IInv /\ SignedInv /\ [Next]_vars
        => [\A p \in Procs :
              /\ Receiving(p) /\ ~Receiving(p)' =>
                   /\ buf'[p].source # p
                   /\ p_recvfrom[p] \in {ANY, buf'[p].source}
              /\ reply_from[p] # NO_TASK /\ reply_from'[p] = NO_TASK =>
                   \/ buf'[p].source = reply_from[p]
                   \/ p_recvfrom'[p] = reply_from[p]]_vars
  BY PartnerNamed, PeerAnswers
<1>. QED
  BY <1>1, Inductive, Signed, PTL DEF Spec, AnswersMatch
=============================================================================

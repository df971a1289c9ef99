--------------------------- MODULE TerminalProofs ---------------------------
(***************************************************************************)
(* Proofs about Tty and Console, the two sides of a terminal.              *)
(*                                                                         *)
(* Tty, for a ring of any size and any number of terminals: the ring of    *)
(* scan codes is a queue, a reader's buffer gets no more bytes than it has *)
(* room for, and a reader gets the line its keys make.                     *)
(*                                                                         *)
(* Console, for a screen and a video memory of any size: the assertions of *)
(* out_char() hold and its loop ends, windows and text stay in their       *)
(* consoles, and a console at rest shows what was written on it.           *)
(***************************************************************************)
EXTENDS Tty, Console, FiniteSetTheorems, SequenceTheorems, WellFoundedInduction, TLAPS

\* Numbers.

\* A nonempty set of naturals has a least element.
LEMMA LeastOf ==
  ASSUME NEW T \in SUBSET Nat, T # {}
  PROVE  \E x \in T : \A y \in T : x <= y
<1>1. OpToRel(<, Nat) = {r \in Nat \X Nat : r[1] < r[2]}
  BY DEF OpToRel
<1>2. IsWellFoundedOn({r \in Nat \X Nat : r[1] < r[2]}, Nat)
  BY <1>1, NatLessThanWellFounded
<1>3. PICK x \in T : \A y \in T : ~ (<<y, x>> \in {r \in Nat \X Nat : r[1] < r[2]})
  BY <1>2, WFMin
<1>4. ASSUME NEW y \in T PROVE x <= y
  <2>1. <<y, x>> \in Nat \X Nat
    OBVIOUS
  <2>2. ~(y < x)
    BY <1>3, <2>1
  <2>. QED
    BY <2>2
<1>. QED
  BY <1>4

\* Counting up to N.
LEMMA CountUp ==
  ASSUME NEW N \in Nat, NEW P, 0 \in P, \A k \in 1 .. N : k - 1 \in P => k \in P
  PROVE  0 .. N \subseteq P
<1>. DEFINE Bad == {k \in 0 .. N : k \notin P}
<1>1. SUFFICES ASSUME Bad # {} PROVE FALSE
  OBVIOUS
<1>2. Bad \in SUBSET Nat
  OBVIOUS
<1>3. PICK k \in Bad : \A y \in Bad : k <= y
  <2>. HIDE DEF Bad
  <2>. QED BY <1>1, <1>2, LeastOf
<1>4. k \in 0 .. N /\ k \notin P /\ k # 0
  OBVIOUS
<1>5. k - 1 \in 0 .. N /\ ~(k <= k - 1) /\ k \in 1 .. N
  BY <1>4
<1>6. k - 1 \in P
  BY <1>3, <1>5
<1>. QED BY <1>4, <1>5, <1>6

\* The remainder, for places at most one turn beyond the ring.
LEMMA ModOneTurn ==
  ASSUME NEW k \in Nat \ {0}, NEW a \in 0 .. 2 * k - 1
  PROVE  a % k = IF a < k THEN a ELSE a - k
  BY SMTT(30)

----------------------------------------------------------------------------
\* The ring.  Where the head is follows from the tail and the count.
RingTypes ==
  /\ typed \in Seq(Codes)
  /\ buf \in [0 .. KB_IN_BYTES - 1 -> Keyboard]
  /\ p_head \in 0 .. KB_IN_BYTES - 1 /\ p_tail \in 0 .. KB_IN_BYTES - 1
  /\ count \in 0 .. KB_IN_BYTES /\ count <= Len(typed)

HeadFollows ==
  p_head = IF p_tail + count < KB_IN_BYTES THEN p_tail + count
                                           ELSE (p_tail + count) - KB_IN_BYTES

RingInv == RingTypes /\ HeadFollows /\ RingIsQueue

\* What any step does to the ring: the handler appends, the TTY task takes the
\* oldest code, and nothing else touches it.
RingPut == \E code \in Codes :
  /\ count < KB_IN_BYTES
  /\ buf' = [buf EXCEPT ![p_head] = code]
  /\ p_head' = Bump(p_head) /\ p_tail' = p_tail /\ count' = count + 1
  /\ typed' = Append(typed, code)

RingTake ==
  /\ count > 0
  /\ p_tail' = Bump(p_tail) /\ count' = count - 1
  /\ UNCHANGED <<buf, p_head, typed>>

RingKept == UNCHANGED <<buf, p_head, p_tail, count, typed>>

LEMMA RingSteps ==
  ASSUME [Next]_vars
  PROVE  RingPut \/ RingTake \/ RingKept
<1>1. CASE Interrupt
  BY <1>1 DEF Interrupt, Type, KeyboardHandler, ClockHandler, RingPut, RingKept,
              ring
<1>2. CASE Request
  BY <1>2 DEF Request, DoRead, OtherRequest, RingKept, ring
<1>3. CASE Task
  BY <1>3 DEF Task, KeyboardRead, ReadExtended, NothingToRead, DevWrite, Resume,
              Written, HardInt, ClearKeyPressed, GetByteFromKbuf, RingTake,
              RingKept, ring
<1>4. CASE UNCHANGED vars
  BY <1>4 DEF vars, ring, RingKept
<1>. QED
  BY <1>1, <1>2, <1>3, <1>4 DEF Next

LEMMA RingInitially == Init => RingInv
<1>. SUFFICES ASSUME Init PROVE RingInv
  OBVIOUS
<1>1. KB_IN_BYTES \in Nat \ {0}
  BY TtyAssumption DEF TtyAssumption
<1>2. /\ buf = [i \in 0 .. KB_IN_BYTES - 1 |-> "release"] /\ typed = <<>>
      /\ p_head = 0 /\ p_tail = 0 /\ count = 0
  BY DEF Init
<1>3. RingTypes
  BY <1>1, <1>2 DEF RingTypes, Keyboard
<1>4. HeadFollows /\ RingIsQueue
  BY <1>1, <1>2 DEF HeadFollows, RingIsQueue
<1>. QED
  BY <1>3, <1>4 DEF RingInv

\* The place of the i-th code, without the remainder.
Place(tail, i) == IF tail + i < KB_IN_BYTES THEN tail + i
                                            ELSE (tail + i) - KB_IN_BYTES

LEMMA PlaceOfCode ==
  ASSUME NEW tail \in 0 .. KB_IN_BYTES - 1, NEW i \in 0 .. KB_IN_BYTES - 1
  PROVE  (tail + i) % KB_IN_BYTES = Place(tail, i)
<1>1. KB_IN_BYTES \in Nat \ {0}
  BY TtyAssumption DEF TtyAssumption
<1>2. tail + i \in 0 .. 2 * KB_IN_BYTES - 1
  BY <1>1
<1>3. (tail + i) % KB_IN_BYTES = IF tail + i < KB_IN_BYTES THEN tail + i
                                 ELSE (tail + i) - KB_IN_BYTES
  BY <1>1, <1>2, ModOneTurn, Zenon
<1>. QED
  BY <1>3, Zenon DEF Place

\* RingIsQueue in these terms.
QueueAt(b, tail, n, codes) ==
  \A i \in 0 .. n - 1 : b[Place(tail, i)] = codes[(Len(codes) - n) + i + 1]

LEMMA RingIsQueueAt ==
  ASSUME p_tail \in 0 .. KB_IN_BYTES - 1, count \in 0 .. KB_IN_BYTES
  PROVE  RingIsQueue <=> QueueAt(buf, p_tail, count, typed)
<1>1. KB_IN_BYTES \in Nat \ {0}
  BY TtyAssumption DEF TtyAssumption
<1>2. \A i \in 0 .. count - 1 : (p_tail + i) % KB_IN_BYTES = Place(p_tail, i)
  BY <1>1, PlaceOfCode
<1>. QED
  BY <1>2 DEF RingIsQueue, QueueAt

\* The handler writes behind the last code, in no place that holds one.
LEMMA PutKeepsRing ==
  ASSUME RingInv, RingPut
  PROVE  RingInv'
<1>. PICK code \in Codes :
       /\ count < KB_IN_BYTES
       /\ buf' = [buf EXCEPT ![p_head] = code]
       /\ p_head' = Bump(p_head) /\ p_tail' = p_tail /\ count' = count + 1
       /\ typed' = Append(typed, code)
  BY DEF RingPut
<1>1. KB_IN_BYTES \in Nat \ {0} /\ code \in Keyboard
  BY TtyAssumption DEF TtyAssumption
<1>2. RingTypes /\ HeadFollows /\ QueueAt(buf, p_tail, count, typed)
  BY RingIsQueueAt DEF RingInv, RingTypes
<1>3. /\ typed' \in Seq(Codes) /\ Len(typed') = Len(typed) + 1
      /\ \A i \in 1 .. Len(typed) : typed'[i] = typed[i]
      /\ typed'[Len(typed) + 1] = code
      /\ Len(typed) \in Nat
  BY <1>2, AppendProperties, LenProperties DEF RingTypes
<1>4. RingTypes'
  BY <1>1, <1>2, <1>3 DEF RingTypes, Bump
<1>5. HeadFollows'
  BY <1>1, <1>2 DEF RingTypes, HeadFollows, Bump
<1>6. QueueAt(buf', p_tail', count', typed')
  <2>. SUFFICES ASSUME NEW i \in 0 .. count' - 1
       PROVE  buf'[Place(p_tail', i)] = typed'[(Len(typed') - count') + i + 1]
    BY Zenon DEF QueueAt
  <2>0. /\ i \in 0 .. count /\ Place(p_tail', i) = Place(p_tail, i)
        /\ (Len(typed') - count') + i + 1 = (Len(typed) - count) + i + 1
    BY <1>2, <1>3 DEF RingTypes
  <2>1. CASE i = count
    <3>1. Place(p_tail, i) = p_head
      BY <2>1, <1>2 DEF HeadFollows, Place
    <3>2. (Len(typed) - count) + i + 1 = Len(typed) + 1
      BY <1>2, <1>3, <2>1 DEF RingTypes
    <3>. QED
      BY <1>2, <1>3, <2>0, <3>1, <3>2 DEF RingTypes
  <2>2. CASE i # count
    <3>1. i \in 0 .. count - 1 /\ Place(p_tail, i) \in 0 .. KB_IN_BYTES - 1
      BY <1>1, <1>2, <2>0, <2>2 DEF RingTypes, Place
    <3>2. Place(p_tail, i) # p_head
      BY <1>1, <1>2, <3>1 DEF RingTypes, HeadFollows, Place
    <3>3. buf'[Place(p_tail, i)] = typed[(Len(typed) - count) + i + 1]
      BY <1>2, <3>1, <3>2 DEF RingTypes, QueueAt
    <3>4. (Len(typed) - count) + i + 1 \in 1 .. Len(typed)
      BY <1>2, <1>3, <3>1 DEF RingTypes
    <3>. QED
      BY <1>3, <2>0, <3>3, <3>4
  <2>. QED
    BY <2>1, <2>2
<1>7. RingIsQueue'
  <2>1. \A i \in 0 .. count' - 1 :
          (p_tail' + i) % KB_IN_BYTES = Place(p_tail', i)
    BY <1>1, <1>4, PlaceOfCode DEF RingTypes
  <2>. QED
    BY <1>6, <2>1 DEF RingIsQueue, QueueAt
<1>. QED
  BY <1>4, <1>5, <1>7 DEF RingInv

\* The task takes the oldest code.
LEMMA TakeKeepsRing ==
  ASSUME RingInv, RingTake
  PROVE  RingInv'
<1>. USE DEF RingTake
<1>1. KB_IN_BYTES \in Nat \ {0}
  BY TtyAssumption DEF TtyAssumption
<1>2. RingTypes /\ HeadFollows /\ QueueAt(buf, p_tail, count, typed)
  BY RingIsQueueAt DEF RingInv, RingTypes
<1>3. RingTypes'
  BY <1>1, <1>2 DEF RingTypes, Bump
<1>4. HeadFollows'
  BY <1>1, <1>2 DEF RingTypes, HeadFollows, Bump
<1>5. QueueAt(buf', p_tail', count', typed')
  <2>. SUFFICES ASSUME NEW i \in 0 .. count' - 1
       PROVE  buf[Place(p_tail', i)] = typed[(Len(typed) - count') + i + 1]
    BY DEF QueueAt
  <2>1. i + 1 \in 0 .. count - 1 /\ Place(p_tail', i) = Place(p_tail, i + 1)
    BY <1>1, <1>2 DEF RingTypes, Bump, Place
  <2>2. buf[Place(p_tail, i + 1)] = typed[(Len(typed) - count) + (i + 1) + 1]
    BY <1>2, <2>1 DEF QueueAt
  <2>3. (Len(typed) - count) + (i + 1) + 1 = (Len(typed) - count') + i + 1
    BY <1>2, LenProperties DEF RingTypes
  <2>. QED
    BY <2>1, <2>2, <2>3
<1>6. RingIsQueue'
  <2>1. \A i \in 0 .. count' - 1 :
          (p_tail' + i) % KB_IN_BYTES = Place(p_tail', i)
    BY <1>1, <1>3, PlaceOfCode DEF RingTypes
  <2>. QED
    BY <1>5, <2>1 DEF RingIsQueue, QueueAt
<1>. QED
  BY <1>3, <1>4, <1>6 DEF RingInv

----------------------------------------------------------------------------
\* Types, and the reader's buffer.  A read is open while bytes of it are left,
\* and until its reader is resumed.
Keys == {"x", "newline", "nul", "backspace"}

TypeOK ==
  /\ RingTypes
  /\ key_pressed \in BOOLEAN /\ informed \in BOOLEAN /\ patient \in BOOLEAN
  /\ current_console \in Consoles /\ ctrl \subseteq {"l", "r"}
  /\ code_with_E0 \in BOOLEAN
  /\ ibuf \in [Consoles -> Seq(Keys)]
  /\ tty_left_cnt \in [Consoles -> Nat] /\ tty_trans_cnt \in [Consoles -> Nat]
  /\ tty_req_buf \in [Consoles -> Seq(Keys)]
  /\ pc \in {"read", "write", "resume", "receive", "interrupted"}
  /\ tty \in Consoles
  /\ since \in [Consoles -> Nat] /\ reads \in 0 .. MaxReads

Open(t) == tty_left_cnt[t] > 0 \/ (pc = "resume" /\ tty = t)

BufferFits ==
  \A t \in Consoles : Open(t) =>
    /\ tty_left_cnt[t] + tty_trans_cnt[t] \in Counts
    /\ tty_trans_cnt[t] <= Len(tty_req_buf[t])
    /\ Len(tty_req_buf[t]) <= tty_left_cnt[t] + tty_trans_cnt[t]

LineInv == TypeOK /\ BufferFits

\* The types that no step but the ring's changes are in RingInv already.
LEMMA LineInitially == Init => LineInv
<1>. SUFFICES ASSUME Init PROVE LineInv
  OBVIOUS
<1>1. RingTypes /\ 0 \in Consoles
  BY RingInitially, TtyAssumption DEF RingInv, TtyAssumption, Consoles
<1>2. MaxReads \in Nat /\ <<>> \in Seq(Keys)
  BY TtyAssumption DEF TtyAssumption
<1>3. TypeOK
  BY <1>1, <1>2 DEF Init, TypeOK
<1>4. BufferFits
  BY DEF Init, BufferFits, Open
<1>. QED
  BY <1>3, <1>4 DEF LineInv

\* Steps that leave every line as it is.
LineKept ==
  /\ UNCHANGED <<tty_left_cnt, tty_trans_cnt, tty_req_buf>>
  /\ pc' = "resume" => pc = "resume" /\ tty' = tty

LEMMA LineKeptFits ==
  ASSUME BufferFits, LineKept
  PROVE  BufferFits'
  BY DEF BufferFits, LineKept, Open

\* Types but the ring's, after an interrupt.
LEMMA InterruptLine ==
  ASSUME LineInv, RingTypes', Interrupt
  PROVE  LineInv'
<1>1. TypeOK'
  BY DEF LineInv, TypeOK, Interrupt, Type, KeyboardHandler, ClockHandler,
         keyState, lineVars, ring
<1>2. LineKept
  BY DEF LineKept, Interrupt, Type, KeyboardHandler, ClockHandler, lineVars
<1>. QED
  BY <1>1, <1>2, LineKeptFits DEF LineInv

LEMMA CharType ==
  ASSUME NEW code, NEW ext
  PROVE  Char(code, ext) \in Seq(Keys)
<1>1. /\ <<"newline">> \in Seq(Keys) /\ <<"nul">> \in Seq(Keys)
      /\ <<"backspace">> \in Seq(Keys) /\ <<"x">> \in Seq(Keys)
      /\ <<>> \in Seq(Keys)
  BY DEF Keys
<1>. QED
  BY <1>1 DEF Char

\* in_process() of a key, for the terminal on screen.
LEMMA InProcessTypes ==
  ASSUME TypeOK, NEW code, NEW ext \in BOOLEAN, InProcess(code, ext)
  PROVE  /\ ibuf' \in [Consoles -> Seq(Keys)] /\ ctrl' \subseteq {"l", "r"}
         /\ current_console' \in Consoles
<1>1. ibuf[tty] \o Char(code, ext) \in Seq(Keys)
  BY CharType, ConcatProperties DEF TypeOK
<1>2. ibuf' \in [Consoles -> Seq(Keys)]
  BY <1>1 DEF TypeOK, InProcess
<1>3. ctrl' \subseteq {"l", "r"}
  BY DEF TypeOK, InProcess, CtrlAfter, CtrlKey
<1>4. current_console' \in Consoles
  <2>1. current_console \in Consoles /\ NR_CONSOLES \in Nat \ {0}
    BY TtyAssumption DEF TtyAssumption, TypeOK
  <2>2. current_console' = ConsoleAfter(code, ext)
    BY DEF InProcess
  <2>. QED
    BY <2>1, <2>2 DEF ConsoleAfter, Consoles
<1>. QED
  BY <1>2, <1>3, <1>4

LEMMA NextTtyTypes ==
  ASSUME TypeOK, NextTty
  PROVE  tty' \in Consoles /\ pc' \in {"read", "receive"}
<1>1. tty \in Consoles /\ NR_CONSOLES \in Nat \ {0}
  BY TtyAssumption DEF TtyAssumption, TypeOK
<1>. QED
  BY <1>1 DEF NextTty, Consoles

\* Steps of the TTY task that edit no line.
LEMMA TaskKeepsLines ==
  ASSUME LineInv, RingTypes',
         \/ KeyboardRead \/ ReadExtended \/ NothingToRead \/ Written
         \/ HardInt \/ ClearKeyPressed \/ OtherRequest
  PROVE  LineInv'
<1>. TypeOK
  BY DEF LineInv
<1>1. CASE KeyboardRead
  <2>1. /\ ibuf' \in [Consoles -> Seq(Keys)] /\ ctrl' \subseteq {"l", "r"}
        /\ current_console' \in Consoles
    BY <1>1, InProcessTypes DEF KeyboardRead, TypeOK
  <2>2. TypeOK' /\ LineKept
    BY <1>1, <2>1 DEF KeyboardRead, GetByteFromKbuf, TypeOK, LineKept, lineVars
  <2>. QED
    BY <2>2, LineKeptFits DEF LineInv
<1>2. CASE ReadExtended
  <2>1. /\ ibuf' \in [Consoles -> Seq(Keys)] /\ ctrl' \subseteq {"l", "r"}
        /\ current_console' \in Consoles
    BY <1>2, InProcessTypes DEF ReadExtended
  <2>2. TypeOK' /\ LineKept
    BY <1>2, <2>1 DEF ReadExtended, GetByteFromKbuf, TypeOK, LineKept, lineVars
  <2>. QED
    BY <2>2, LineKeptFits DEF LineInv
<1>3. CASE NothingToRead \/ Written
  <2>1. TypeOK' /\ LineKept
    BY <1>3, NextTtyTypes DEF NothingToRead, Written, TypeOK, LineKept, lineVars,
                              ring, keyState
  <2>. QED
    BY <2>1, LineKeptFits DEF LineInv
<1>4. CASE HardInt \/ ClearKeyPressed \/ OtherRequest
  <2>1. TypeOK' /\ LineKept
    BY <1>4 DEF HardInt, ClearKeyPressed, OtherRequest, TypeOK, LineKept, lineVars,
                ring, keyState
  <2>. QED
    BY <2>1, LineKeptFits DEF LineInv
<1>. QED
  BY <1>1, <1>2, <1>3, <1>4

\* A DEV_READ begins with an empty buffer, RESUME_PROC ends it.
LEMMA ReadKeepsLines ==
  ASSUME LineInv, RingTypes', NEW t \in Consoles, NEW cnt \in Counts, DoRead(t, cnt)
  PROVE  LineInv'
<1>1. cnt \in Nat
  BY TtyAssumption DEF TtyAssumption
<1>2. Len(typed) - count \in Nat
  BY LenProperties DEF LineInv, TypeOK, RingTypes
<1>3. reads' \in 0 .. MaxReads /\ <<>> \in Seq(Keys)
  BY TtyAssumption DEF TtyAssumption, LineInv, TypeOK, DoRead
<1>4. TypeOK'
  BY <1>1, <1>2, <1>3 DEF LineInv, TypeOK, DoRead, ring, keyState
<1>5. BufferFits'
  BY <1>1 DEF LineInv, TypeOK, BufferFits, Open, DoRead
<1>. QED
  BY <1>4, <1>5 DEF LineInv

LEMMA ResumeKeepsLines ==
  ASSUME LineInv, RingTypes', Resume
  PROVE  LineInv'
<1>1. TypeOK'
  BY DEF LineInv, TypeOK, Resume, ring, keyState
<1>2. BufferFits'
  BY DEF LineInv, TypeOK, BufferFits, Open, Resume
<1>. QED
  BY <1>1, <1>2 DEF LineInv

\* A byte is kept while there is room, and erased only where there is one.
LEMMA EditKeepsLines ==
  ASSUME LineInv, RingTypes', DevWrite
  PROVE  LineInv'
<1> DEFINE ch == Head(ibuf[tty])
<1>1. /\ pc = "write" /\ tty' = tty /\ tty \in Consoles
      /\ ibuf[tty] \in Seq(Keys) /\ ibuf[tty] # <<>>
  BY DEF DevWrite, LineInv, TypeOK
<1>2. ch \in Keys /\ Tail(ibuf[tty]) \in Seq(Keys)
  BY <1>1, HeadTailProperties
<1>3. ibuf' \in [Consoles -> Seq(Keys)]
  BY <1>2 DEF DevWrite, LineInv, TypeOK
<1>4. CASE ~(tty_left_cnt[tty] > 0)
  <2>1. TypeOK' /\ LineKept
    BY <1>3, <1>4 DEF DevWrite, LineInv, TypeOK, LineKept, ring, keyState
  <2>. QED
    BY <2>1, LineKeptFits DEF LineInv
<1>5. CASE tty_left_cnt[tty] > 0
  <2>1. EditLine(tty, ch)
    BY <1>5 DEF DevWrite
  <2>2. /\ tty_left_cnt[tty] \in Nat /\ tty_left_cnt[tty] > 0
        /\ tty_trans_cnt[tty] \in Nat
        /\ tty_left_cnt[tty] + tty_trans_cnt[tty] \in Counts
        /\ tty_req_buf[tty] \in Seq(Keys) /\ Len(tty_req_buf[tty]) \in Nat
        /\ tty_trans_cnt[tty] <= Len(tty_req_buf[tty])
        /\ Len(tty_req_buf[tty]) <= tty_left_cnt[tty] + tty_trans_cnt[tty]
    BY <1>1, <1>5, LenProperties DEF LineInv, TypeOK, BufferFits, Open
  <2>. HIDE DEF ch
  <2>3. CASE ch = "x"
    <3> DEFINE line == SubSeq(tty_req_buf[tty], 1, tty_trans_cnt[tty])
    <3>1. line \in Seq(Keys) /\ Len(line) = tty_trans_cnt[tty]
      <4>1. \A i \in 1 .. tty_trans_cnt[tty] : tty_req_buf[tty][i] \in Keys
        BY <2>2, ElementOfSeq
      <4>. QED
        BY <2>2, <4>1, SubSeqProperties
    <3>. HIDE DEF line
    <3>2. line \o <<ch>> \in Seq(Keys) /\ Len(line \o <<ch>>) = tty_trans_cnt[tty] + 1
      <4>1. <<ch>> \in Seq(Keys) /\ Len(<<ch>>) = 1
        BY <1>2
      <4>. QED
        BY <2>2, <3>1, <4>1, ConcatProperties
    <3>3. /\ tty_req_buf' = [tty_req_buf EXCEPT ![tty] = line \o <<ch>>]
          /\ tty_trans_cnt' = [tty_trans_cnt EXCEPT ![tty] = @ + 1]
          /\ tty_left_cnt' = [tty_left_cnt EXCEPT ![tty] = @ - 1]
          /\ pc' \in {"resume", "write"}
      BY <2>1, <2>3 DEF EditLine, line
    <3>4. TypeOK'
      <4>1. /\ tty_left_cnt' \in [Consoles -> Nat]
            /\ tty_trans_cnt' \in [Consoles -> Nat]
            /\ tty_req_buf' \in [Consoles -> Seq(Keys)]
        BY <1>1, <2>2, <3>2, <3>3, SMTT(60) DEF LineInv, TypeOK
      <4>. QED
        BY <1>1, <1>3, <3>3, <4>1 DEF DevWrite, LineInv, TypeOK, ring, keyState
    <3>5. BufferFits'
      <4>. SUFFICES ASSUME NEW t \in Consoles, Open(t)'
           PROVE  /\ tty_left_cnt'[t] + tty_trans_cnt'[t] \in Counts
                  /\ tty_trans_cnt'[t] <= Len(tty_req_buf'[t])
                  /\ Len(tty_req_buf'[t]) <= tty_left_cnt'[t] + tty_trans_cnt'[t]
        BY DEF BufferFits
      <4>1. CASE t = tty
        <5>1. /\ tty_left_cnt'[t] = tty_left_cnt[tty] - 1
              /\ tty_trans_cnt'[t] = 1 + tty_trans_cnt[tty]
              /\ Len(tty_req_buf'[t]) = tty_trans_cnt[tty] + 1
          BY <3>2, <3>3, <4>1 DEF LineInv, TypeOK
        <5>2. tty_left_cnt'[t] + tty_trans_cnt'[t]
                = tty_left_cnt[tty] + tty_trans_cnt[tty]
          BY <2>2, <5>1
        <5>. QED
          BY <2>2, <5>1, <5>2
      <4>2. CASE t # tty
        BY <1>1, <3>3, <4>2 DEF LineInv, TypeOK, BufferFits, Open
      <4>. QED
        BY <4>1, <4>2
    <3>. QED
      BY <3>4, <3>5 DEF LineInv
  <2>4. CASE ch # "x"
    <3>1. /\ tty_req_buf' = tty_req_buf /\ pc' \in {"resume", "write"}
          /\ \/ /\ tty_trans_cnt[tty] > 0
                /\ tty_trans_cnt' = [tty_trans_cnt EXCEPT ![tty] = @ - 1]
                /\ tty_left_cnt' = [tty_left_cnt EXCEPT ![tty] = @ + 1]
             \/ UNCHANGED <<tty_trans_cnt, tty_left_cnt>>
      BY <2>1, <2>4 DEF EditLine, LineInv, TypeOK
    <3>2. TypeOK'
      <4>1. /\ tty_left_cnt' \in [Consoles -> Nat]
            /\ tty_trans_cnt' \in [Consoles -> Nat]
            /\ tty_req_buf' \in [Consoles -> Seq(Keys)]
        <5>1. /\ tty_left_cnt \in [Consoles -> Nat]
              /\ tty_trans_cnt \in [Consoles -> Nat]
              /\ tty_req_buf \in [Consoles -> Seq(Keys)]
          BY DEF LineInv, TypeOK
        <5>2. CASE UNCHANGED <<tty_trans_cnt, tty_left_cnt>>
          BY <3>1, <5>1, <5>2
        <5>3. CASE /\ tty_trans_cnt[tty] > 0
                   /\ tty_trans_cnt' = [tty_trans_cnt EXCEPT ![tty] = @ - 1]
                   /\ tty_left_cnt' = [tty_left_cnt EXCEPT ![tty] = @ + 1]
          <6>1. tty_trans_cnt[tty] - 1 \in Nat /\ tty_left_cnt[tty] + 1 \in Nat
            BY <2>2, <5>3
          <6>. QED
            BY <3>1, <5>1, <5>3, <6>1
        <5>. QED
          BY <3>1, <5>2, <5>3
      <4>. QED
        BY <1>1, <1>3, <3>1, <4>1 DEF DevWrite, LineInv, TypeOK, ring, keyState
    <3>3. BufferFits'
      <4>. SUFFICES ASSUME NEW t \in Consoles, Open(t)'
           PROVE  /\ tty_left_cnt'[t] + tty_trans_cnt'[t] \in Counts
                  /\ tty_trans_cnt'[t] <= Len(tty_req_buf'[t])
                  /\ Len(tty_req_buf'[t]) <= tty_left_cnt'[t] + tty_trans_cnt'[t]
        BY DEF BufferFits
      <4>1. CASE t = tty
        <5>1. /\ tty_left_cnt'[t] + tty_trans_cnt'[t]
                   = tty_left_cnt[tty] + tty_trans_cnt[tty]
              /\ tty_trans_cnt'[t] <= tty_trans_cnt[tty]
              /\ tty_req_buf'[t] = tty_req_buf[tty]
          BY <1>1, <2>2, <3>1, <4>1 DEF LineInv, TypeOK
        <5>2. tty_trans_cnt'[t] \in Nat
          BY <3>2 DEF TypeOK
        <5>. QED
          BY <2>2, <5>1, <5>2
      <4>2. CASE t # tty
        BY <1>1, <3>1, <4>2 DEF LineInv, TypeOK, BufferFits, Open
      <4>. QED
        BY <4>1, <4>2
    <3>. QED
      BY <3>2, <3>3 DEF LineInv
  <2>. QED
    BY <2>3, <2>4
<1>. QED
  BY <1>4, <1>5

LEMMA LineInvStep ==
  ASSUME LineInv, RingTypes', [Next]_vars
  PROVE  LineInv'
<1>1. CASE Interrupt
  BY <1>1, InterruptLine
<1>2. CASE Request
  BY <1>2, ReadKeepsLines, TaskKeepsLines DEF Request
<1>3. CASE Task
  BY <1>3, TaskKeepsLines, EditKeepsLines, ResumeKeepsLines DEF Task
<1>4. CASE UNCHANGED vars
  <2>1. TypeOK' /\ LineKept
    BY <1>4 DEF LineInv, TypeOK, LineKept, vars, ring, keyState, lineVars
  <2>. QED
    BY <2>1, LineKeptFits DEF LineInv
<1>. QED
  BY <1>1, <1>2, <1>3, <1>4 DEF Next

LEMMA RingInvStep ==
  ASSUME RingInv, [Next]_vars
  PROVE  RingInv'
<1>1. CASE RingKept
  BY <1>1 DEF RingKept, RingInv, RingTypes, HeadFollows, RingIsQueue
<1>. QED
  BY <1>1, RingSteps, PutKeepsRing, TakeKeepsRing

LEMMA TtyInvariant == Spec => [](RingInv /\ LineInv)
<1>1. Init => RingInv /\ LineInv
  BY RingInitially, LineInitially
<1>2. RingInv /\ LineInv /\ [Next]_vars => (RingInv /\ LineInv)'
  BY RingInvStep, LineInvStep DEF RingInv
<1>. QED
  BY <1>1, <1>2, PTL DEF Spec

\* RingIsQueue: for any size of the ring, it holds the codes that were accepted
\* and not yet taken, in their order.
THEOREM RingHoldsQueue == Spec => []RingIsQueue
<1>1. RingInv => RingIsQueue
  BY DEF RingInv
<1>. QED
  BY <1>1, TtyInvariant, PTL

\* Type correctness of the terminals and the keyboard (struct tty, kb_in).
THEOREM TtyTypeCorrect == Spec => []TypeOK
<1>1. LineInv => TypeOK
  BY DEF LineInv
<1>. QED
  BY <1>1, TtyInvariant, PTL

\* tty_dev_write() never puts more bytes into a reader's buffer than the DEV_READ
\* asked for, and never erases one that is not there: however keys, ENTERs and
\* erasures follow each other, what is left and what was transferred add up to
\* the CNT of the read.
THEOREM ReadersBufferFits == Spec => []BufferFits
<1>1. LineInv => BufferFits
  BY DEF LineInv
<1>. QED
  BY <1>1, TtyInvariant, PTL

----------------------------------------------------------------------------
\* Folds: what becomes of a first value along a sequence.  (step is a table, so
\* that the lemma can be cited for each of the two folds.)
IsFold(f, seq, first, step) ==
  /\ f[0] = first
  /\ \A i \in 1 .. Len(seq) : f[i] = step[<<f[i - 1], seq[i]>>]

\* There is a fold over every sequence.
LEMMA FoldExists ==
  ASSUME NEW S, NEW C, NEW step \in [S \X C -> S], NEW first \in S, NEW seq \in Seq(C)
  PROVE  \E f \in [0 .. Len(seq) -> S] : IsFold(f, seq, first, step)
<1>. DEFINE N == Len(seq)
            Upto(f, k) == /\ f \in [0 .. k -> S] /\ f[0] = first
                          /\ \A i \in 1 .. k : f[i] = step[<<f[i - 1], seq[i]>>]
            P == {k \in 0 .. N : \E f : Upto(f, k)}
<1>1. N \in Nat
  BY LenProperties
<1>2. 0 \in P
  <2>1. Upto([i \in 0 .. 0 |-> first], 0)
    OBVIOUS
  <2>2. \E f : Upto(f, 0)
    <3>. HIDE DEF Upto
    <3>. QED BY <2>1
  <2>3. 0 \in 0 .. N
    BY <1>1
  <2>. HIDE DEF Upto
  <2>. QED BY <2>2, <2>3
<1>3. ASSUME NEW k \in 1 .. N, k - 1 \in P PROVE k \in P
  <2>1. PICK f : Upto(f, k - 1)
    BY <1>3
  <2>. DEFINE g == [i \in 0 .. k |-> IF i = k THEN step[<<f[k - 1], seq[k]>>] ELSE f[i]]
  <2>2. k - 1 \in 0 .. k - 1 /\ k \in Nat /\ k # 0
    BY <1>1
  <2>3. f[k - 1] \in S /\ seq[k] \in C
    BY <1>3, <2>1, <2>2, ElementOfSeq
  <2>4. step[<<f[k - 1], seq[k]>>] \in S
    BY <2>3
  <2>5. g \in [0 .. k -> S] /\ g[0] = first
    BY <2>1, <2>2, <2>4
  <2>6. ASSUME NEW i \in 1 .. k PROVE g[i] = step[<<g[i - 1], seq[i]>>]
    <3>1. CASE i = k
      <4>1. k - 1 \in 0 .. k /\ k - 1 # k /\ k \in 0 .. k
        BY <2>2
      <4>2. g[k] = step[<<f[k - 1], seq[k]>>] /\ g[k - 1] = f[k - 1]
        BY <4>1
      <4>. HIDE DEF g
      <4>. QED BY <3>1, <4>2
    <3>2. CASE i # k
      <4>1. i \in 1 .. k - 1 /\ i - 1 \in 0 .. k /\ i - 1 # k /\ i \in 0 .. k
        BY <2>2, <3>2
      <4>. QED BY <2>1, <3>2, <4>1
    <3>. QED BY <3>1, <3>2
  <2>. HIDE DEF g
  <2>7. Upto(g, k)
    BY <2>5, <2>6
  <2>. QED BY <1>1, <2>7
<1>. HIDE DEF P, Upto
<1>4. N \in P
  <2>1. 0 .. N \subseteq P
    BY <1>1, <1>2, <1>3, CountUp
  <2>. QED BY <1>1, <2>1
<1>5. PICK f : Upto(f, N)
  BY <1>4 DEF P
<1>. QED BY <1>5 DEF Upto, IsFold

\* ... and only one: what it is at the end of a sequence is what it is there along a
\* longer one.
LEMMA FoldNext ==
  ASSUME NEW C, NEW seq \in Seq(C), NEW c \in C, NEW first, NEW step,
         NEW f, IsFold(f, seq, first, step), NEW g, IsFold(g, Append(seq, c), first, step)
  PROVE  g[Len(seq) + 1] = step[<<f[Len(seq)], c>>]
<1>. DEFINE N == Len(seq)
            more == Append(seq, c)
            P == {i \in 0 .. N : f[i] = g[i]}
<1>1. /\ N \in Nat /\ Len(more) = N + 1
      /\ \A i \in 1 .. N : more[i] = seq[i]
      /\ more[N + 1] = c
  BY AppendProperties, LenProperties
<1>. HIDE DEF more
<1>2. \A i \in 1 .. N + 1 : g[i] = step[<<g[i - 1], more[i]>>]
  BY <1>1 DEF IsFold, more
<1>3. 0 \in P
  BY <1>1 DEF IsFold
<1>4. ASSUME NEW i \in 1 .. N, i - 1 \in P PROVE i \in P
  <2>1. i \in 0 .. N /\ i \in 1 .. N + 1 /\ f[i - 1] = g[i - 1]
    BY <1>1, <1>4
  <2>2. f[i] = step[<<f[i - 1], seq[i]>>]
    BY DEF IsFold
  <2>. QED BY <1>1, <1>2, <2>1, <2>2
<1>. HIDE DEF P
<1>5. 0 .. N \subseteq P
  BY <1>1, <1>3, <1>4, CountUp
<1>6. f[N] = g[N]
  BY <1>1, <1>5 DEF P
<1>7. N + 1 \in 1 .. N + 1 /\ (N + 1) - 1 = N
  BY <1>1
<1>. QED BY <1>1, <1>2, <1>6, <1>7

----------------------------------------------------------------------------
\* What the keys mean.
EditKeys == {"x", "bs", "enter"}
Meanings == [on : Consoles, ctrl : SUBSET BOOLEAN, ext : BOOLEAN,
             keys : [Consoles -> Seq(EditKeys)]]

\* A code adds no key, or one to the keys of the console on screen.
LEMMA AfterCodeType ==
  ASSUME NEW m \in Meanings, NEW code \in Keyboard
  PROVE  AfterCode(m, code) \in Meanings
<1>1. /\ m.on \in Consoles /\ m.ctrl \in SUBSET BOOLEAN /\ m.ext \in BOOLEAN
      /\ m.keys \in [Consoles -> Seq(EditKeys)] /\ 0 \in Consoles
      /\ m = [on |-> m.on, ctrl |-> m.ctrl, ext |-> m.ext, keys |-> m.keys]
  BY TtyAssumption DEF TtyAssumption, Consoles, Meanings
<1>2. CASE code \in EditKeys
  <2>1. Append(m.keys[m.on], code) \in Seq(EditKeys)
    BY <1>1, <1>2, AppendProperties
  <2>2. [m.keys EXCEPT ![m.on] = Append(@, code)] \in [Consoles -> Seq(EditKeys)]
    BY <1>1, <2>1
  <2>3. \/ AfterCode(m, code) = [m EXCEPT !.ext = FALSE, !.keys[m.on] = Append(@, code)]
        \/ AfterCode(m, code) = [m EXCEPT !.ext = FALSE]
    BY <1>2 DEF AfterCode, EditKeys
  <2>. QED BY <1>1, <2>2, <2>3 DEF Meanings
<1>3. CASE code \notin EditKeys
  <2>1. \/ \E b \in BOOLEAN : AfterCode(m, code) = [m EXCEPT !.ext = b]
        \/ \E c \in SUBSET BOOLEAN : AfterCode(m, code) = [m EXCEPT !.ext = FALSE, !.ctrl = c]
        \/ \E n \in Consoles : AfterCode(m, code) = [m EXCEPT !.on = n]
    BY <1>1, <1>3 DEF AfterCode, EditKeys
  <2>. QED BY <1>1, <2>1 DEF Meanings
<1>. QED BY <1>2, <1>3

\* The meaning of codes is the fold of AfterCode.
CodeTable == [p \in Meanings \X Keyboard |-> AfterCode(p[1], p[2])]

\* It is a fold whose values are meanings.
LEMMA MeaningFold ==
  ASSUME NEW codes \in Seq(Keyboard)
  PROVE  \E f : /\ IsFold(f, codes, NothingTyped, CodeTable)
                /\ Meaning(codes) = f[Len(codes)] /\ f[Len(codes)] \in Meanings
<1>. DEFINE N == Len(codes)
            IsLoop(m) == m = [i \in 0 .. N |->
                                IF i = 0 THEN NothingTyped ELSE AfterCode(m[i - 1], codes[i])]
<1>1. CodeTable \in [Meanings \X Keyboard -> Meanings]
  BY AfterCodeType DEF CodeTable
<1>2. NothingTyped \in Meanings
  <2>1. 0 \in Consoles /\ <<>> \in Seq(EditKeys)
    BY TtyAssumption DEF TtyAssumption, Consoles
  <2>. QED BY <2>1 DEF NothingTyped, Meanings
<1>3. N \in Nat /\ \A i \in 1 .. N : codes[i] \in Keyboard
  BY LenProperties, ElementOfSeq
<1>4. PICK f \in [0 .. N -> Meanings] : IsFold(f, codes, NothingTyped, CodeTable)
  BY <1>1, <1>2, FoldExists
<1>5. ASSUME NEW i \in 0 .. N
      PROVE  f[i] = IF i = 0 THEN NothingTyped ELSE AfterCode(f[i - 1], codes[i])
  <2>1. ASSUME i # 0 PROVE i \in 1 .. N /\ i - 1 \in 0 .. N
    BY <1>3, <2>1
  <2>2. ASSUME i # 0 PROVE f[i] = AfterCode(f[i - 1], codes[i])
    <3>1. f[i - 1] \in Meanings /\ codes[i] \in Keyboard
      BY <1>3, <2>1, <2>2
    <3>2. f[i] = CodeTable[<<f[i - 1], codes[i]>>]
      BY <1>4, <2>1, <2>2 DEF IsFold
    <3>. QED BY <3>1, <3>2 DEF CodeTable
  <2>. QED BY <1>4, <2>2 DEF IsFold
<1>6. IsLoop(f)
  <2>1. f = [i \in 0 .. N |-> f[i]]
    OBVIOUS
  <2>. QED BY <1>5, <2>1
<1>7. PICK m : IsLoop(m) /\ Meaning(codes) = m[N]
  <2>. DEFINE m == CHOOSE m : IsLoop(m)
  <2>1. IsLoop(m)
    <3>. HIDE DEF IsLoop
    <3>. QED BY <1>6
  <2>2. Meaning(codes) = m[N]
    BY DEF Meaning
  <2>. QED BY <2>1, <2>2
<1>8. \A i \in 0 .. N : m[i] = IF i = 0 THEN NothingTyped ELSE AfterCode(m[i - 1], codes[i])
  BY <1>7
<1>9. m[N] = f[N]
  <2>. DEFINE P == {i \in 0 .. N : m[i] = f[i]}
  <2>1. 0 \in P
    BY <1>3, <1>5, <1>8
  <2>2. ASSUME NEW i \in 1 .. N, i - 1 \in P PROVE i \in P
    <3>1. i \in 0 .. N /\ i # 0 /\ m[i - 1] = f[i - 1]
      BY <1>3, <2>2
    <3>. QED BY <1>5, <1>8, <3>1
  <2>. HIDE DEF P
  <2>3. 0 .. N \subseteq P
    BY <1>3, <2>1, <2>2, CountUp
  <2>. QED BY <1>3, <2>3 DEF P
<1>. QED BY <1>3, <1>4, <1>7, <1>9

\* Nothing typed means nothing, and a code more is a step more.
LEMMA MeaningNext ==
  /\ Meaning(<<>>) = NothingTyped
  /\ \A codes \in Seq(Keyboard) : Meaning(codes) \in Meanings
  /\ \A codes \in Seq(Keyboard), c \in Keyboard :
       Meaning(Append(codes, c)) = AfterCode(Meaning(codes), c)
<1>1. Meaning(<<>>) = NothingTyped
  <2>1. <<>> \in Seq(Keyboard) /\ Len(<<>>) = 0
    OBVIOUS
  <2>. QED BY <2>1, MeaningFold DEF IsFold
<1>2. ASSUME NEW codes \in Seq(Keyboard) PROVE Meaning(codes) \in Meanings
  BY MeaningFold
<1>3. ASSUME NEW codes \in Seq(Keyboard), NEW c \in Keyboard
      PROVE  Meaning(Append(codes, c)) = AfterCode(Meaning(codes), c)
  <2>1. Append(codes, c) \in Seq(Keyboard) /\ Len(Append(codes, c)) = Len(codes) + 1
    BY AppendProperties
  <2>2. PICK f : /\ IsFold(f, codes, NothingTyped, CodeTable)
                 /\ Meaning(codes) = f[Len(codes)] /\ f[Len(codes)] \in Meanings
    BY MeaningFold
  <2>3. PICK g : /\ IsFold(g, Append(codes, c), NothingTyped, CodeTable)
                 /\ Meaning(Append(codes, c)) = g[Len(codes) + 1]
    BY <2>1, MeaningFold
  <2>4. g[Len(codes) + 1] = CodeTable[<<f[Len(codes)], c>>]
    BY <2>2, <2>3, FoldNext
  <2>. QED BY <2>2, <2>3, <2>4 DEF CodeTable
<1>. QED BY <1>1, <1>2, <1>3

\* A sequence without its last element, and with it again.
LEMMA FrontOfLine ==
  ASSUME NEW C, NEW seq \in Seq(C), seq # <<>>
  PROVE  /\ Front(seq) \in Seq(C) /\ Len(Front(seq)) = Len(seq) - 1 /\ Len(seq) \in Nat \ {0}
         /\ \A i \in 1 .. Len(seq) - 1 : Front(seq)[i] = seq[i]
         /\ seq = Append(Front(seq), Last(seq)) /\ Last(seq) \in C
<1>1. Len(seq) \in Nat \ {0} /\ \A i \in 1 .. Len(seq) : seq[i] \in C
  BY EmptySeq, ElementOfSeq
<1>2. \A i \in 1 .. Len(seq) - 1 : seq[i] \in C
  BY <1>1
<1>3. /\ Front(seq) \in Seq(C) /\ Len(Front(seq)) = Len(seq) - 1
      /\ \A i \in 1 .. Len(seq) - 1 : Front(seq)[i] = seq[i]
  <2>1. /\ SubSeq(seq, 1, Len(seq) - 1) \in Seq(C)
        /\ Len(SubSeq(seq, 1, Len(seq) - 1)) =
             IF 1 <= Len(seq) - 1 THEN (Len(seq) - 1) - 1 + 1 ELSE 0
        /\ \A i \in 1 .. (Len(seq) - 1) - 1 + 1 :
             SubSeq(seq, 1, Len(seq) - 1)[i] = seq[1 + i - 1]
    BY <1>1, <1>2, SubSeqProperties
  <2>2. (Len(seq) - 1) - 1 + 1 = Len(seq) - 1 /\ \A i \in 1 .. Len(seq) - 1 : 1 + i - 1 = i
    BY <1>1
  <2>3. (IF 1 <= Len(seq) - 1 THEN (Len(seq) - 1) - 1 + 1 ELSE 0) = Len(seq) - 1
    BY <1>1, SMTT(60)
  <2>. QED BY <2>1, <2>2, <2>3 DEF Front
<1>4. Last(seq) = seq[Len(seq)] /\ Last(seq) \in C
  BY <1>1 DEF Last
<1>5. seq = Append(Front(seq), Last(seq))
  <2>1. /\ Append(Front(seq), Last(seq)) \in Seq(C)
        /\ Len(Append(Front(seq), Last(seq))) = Len(seq)
        /\ \A i \in 1 .. Len(seq) - 1 : Append(Front(seq), Last(seq))[i] = Front(seq)[i]
        /\ Append(Front(seq), Last(seq))[Len(seq)] = Last(seq)
    <3>1. Len(Front(seq)) + 1 = Len(seq)
      BY <1>1, <1>3
    <3>. QED BY <1>3, <1>4, <3>1, AppendProperties
  <2>2. \A i \in 1 .. Len(seq) : Append(Front(seq), Last(seq))[i] = seq[i]
    <3>1. \A i \in 1 .. Len(seq) : i # Len(seq) => i \in 1 .. Len(seq) - 1
      BY <1>1
    <3>. QED BY <1>3, <1>4, <2>1, <3>1
  <2>. QED BY <2>1, <2>2, SeqEqual
<1>. QED BY <1>1, <1>3, <1>4, <1>5

----------------------------------------------------------------------------
\* The line a reader is given.
Lines == [text : Seq(EditKeys), done : BOOLEAN]

\* A key ends the line, takes its last byte away, or is added to it.
LEMMA AfterKeyType ==
  ASSUME NEW l \in Lines, NEW key \in EditKeys, NEW cnt
  PROVE  AfterKey(l, key, cnt) \in Lines
<1>1. /\ l.text \in Seq(EditKeys) /\ l.done \in BOOLEAN
      /\ l = [text |-> l.text, done |-> l.done]
  BY DEF Lines
<1>2. Append(l.text, key) \in Seq(EditKeys)
  BY <1>1, AppendProperties
<1>3. l.text # <<>> => Front(l.text) \in Seq(EditKeys)
  BY <1>1, FrontOfLine
<1>4. (Len(l.text) + 1 = cnt) \in BOOLEAN
  OBVIOUS
<1>. QED BY <1>1, <1>2, <1>3, <1>4 DEF AfterKey, Lines

\* The line of keys is the fold of AfterKey.
KeyTable(cnt) == [p \in Lines \X EditKeys |-> AfterKey(p[1], p[2], cnt)]

\* It is a fold whose values are lines.
LEMMA LineFold ==
  ASSUME NEW keys \in Seq(EditKeys), NEW cnt \in Nat
  PROVE  \E f : /\ IsFold(f, keys, EmptyLine, KeyTable(cnt))
                /\ Line(keys, cnt) = f[Len(keys)] /\ f[Len(keys)] \in Lines
<1>. DEFINE N == Len(keys)
            IsLoop(m) == m = [i \in 0 .. N |->
                                IF i = 0 THEN EmptyLine ELSE AfterKey(m[i - 1], keys[i], cnt)]
<1>1. KeyTable(cnt) \in [Lines \X EditKeys -> Lines]
  BY AfterKeyType DEF KeyTable
<1>2. EmptyLine \in Lines
  <2>1. <<>> \in Seq(EditKeys)
    OBVIOUS
  <2>. QED BY <2>1 DEF EmptyLine, Lines
<1>3. N \in Nat /\ \A i \in 1 .. N : keys[i] \in EditKeys
  BY LenProperties, ElementOfSeq
<1>4. PICK f \in [0 .. N -> Lines] : IsFold(f, keys, EmptyLine, KeyTable(cnt))
  BY <1>1, <1>2, FoldExists
<1>5. ASSUME NEW i \in 0 .. N
      PROVE  f[i] = IF i = 0 THEN EmptyLine ELSE AfterKey(f[i - 1], keys[i], cnt)
  <2>1. ASSUME i # 0 PROVE i \in 1 .. N /\ i - 1 \in 0 .. N
    BY <1>3, <2>1
  <2>2. ASSUME i # 0 PROVE f[i] = AfterKey(f[i - 1], keys[i], cnt)
    <3>1. f[i - 1] \in Lines /\ keys[i] \in EditKeys
      BY <1>3, <2>1, <2>2
    <3>2. f[i] = KeyTable(cnt)[<<f[i - 1], keys[i]>>]
      BY <1>4, <2>1, <2>2 DEF IsFold
    <3>. QED BY <3>1, <3>2 DEF KeyTable
  <2>. QED BY <1>4, <2>2 DEF IsFold
<1>6. IsLoop(f)
  <2>1. f = [i \in 0 .. N |-> f[i]]
    OBVIOUS
  <2>. QED BY <1>5, <2>1
<1>7. PICK m : IsLoop(m) /\ Line(keys, cnt) = m[N]
  <2>. DEFINE m == CHOOSE m : IsLoop(m)
  <2>1. IsLoop(m)
    <3>. HIDE DEF IsLoop
    <3>. QED BY <1>6
  <2>2. Line(keys, cnt) = m[N]
    BY DEF Line
  <2>. QED BY <2>1, <2>2
<1>8. \A i \in 0 .. N : m[i] = IF i = 0 THEN EmptyLine ELSE AfterKey(m[i - 1], keys[i], cnt)
  BY <1>7
<1>9. m[N] = f[N]
  <2>. DEFINE P == {i \in 0 .. N : m[i] = f[i]}
  <2>1. 0 \in P
    BY <1>3, <1>5, <1>8
  <2>2. ASSUME NEW i \in 1 .. N, i - 1 \in P PROVE i \in P
    <3>1. i \in 0 .. N /\ i # 0 /\ m[i - 1] = f[i - 1]
      BY <1>3, <2>2
    <3>. QED BY <1>5, <1>8, <3>1
  <2>. HIDE DEF P
  <2>3. 0 .. N \subseteq P
    BY <1>3, <2>1, <2>2, CountUp
  <2>. QED BY <1>3, <2>3 DEF P
<1>. QED BY <1>3, <1>4, <1>7, <1>9

\* No key is an empty line, and a key more is a step more.
LEMMA LineNext ==
  ASSUME NEW cnt \in Nat
  PROVE  /\ Line(<<>>, cnt) = EmptyLine
         /\ \A keys \in Seq(EditKeys) : Line(keys, cnt) \in Lines
         /\ \A keys \in Seq(EditKeys), c \in EditKeys :
              Line(Append(keys, c), cnt) = AfterKey(Line(keys, cnt), c, cnt)
<1>1. Line(<<>>, cnt) = EmptyLine
  <2>1. <<>> \in Seq(EditKeys) /\ Len(<<>>) = 0
    OBVIOUS
  <2>. QED BY <2>1, LineFold DEF IsFold
<1>2. ASSUME NEW keys \in Seq(EditKeys) PROVE Line(keys, cnt) \in Lines
  BY LineFold
<1>3. ASSUME NEW keys \in Seq(EditKeys), NEW c \in EditKeys
      PROVE  Line(Append(keys, c), cnt) = AfterKey(Line(keys, cnt), c, cnt)
  <2>1. Append(keys, c) \in Seq(EditKeys) /\ Len(Append(keys, c)) = Len(keys) + 1
    BY AppendProperties
  <2>2. PICK f : /\ IsFold(f, keys, EmptyLine, KeyTable(cnt))
                 /\ Line(keys, cnt) = f[Len(keys)] /\ f[Len(keys)] \in Lines
    BY LineFold
  <2>3. PICK g : /\ IsFold(g, Append(keys, c), EmptyLine, KeyTable(cnt))
                 /\ Line(Append(keys, c), cnt) = g[Len(keys) + 1]
    BY <2>1, LineFold
  <2>4. g[Len(keys) + 1] = KeyTable(cnt)[<<f[Len(keys)], c>>]
    BY <2>2, <2>3, FoldNext
  <2>. QED BY <2>2, <2>3, <2>4 DEF KeyTable
<1>. QED BY <1>1, <1>2, <1>3

----------------------------------------------------------------------------
\* The line editor against the meaning of the codes taken.  Of what the keyboard gave a
\* terminal, the keys the editor has not seen yet are those in ibuf.
Key(ch) == CASE ch = "newline" -> "enter" [] ch = "backspace" -> "bs" [] OTHER -> "x"
IsKey(chars) == chars # <<>> /\ Head(chars) # "nul"

KeysBefore(t) == Meaning(SubSeq(typed, 1, since[t])).keys[t]

\* keyboard_read() knows what the codes taken so far mean.
KeyStateInv ==
  /\ current_console = Meaning(Taken).on
  /\ ctrl = {CtrlKey(e) : e \in Meaning(Taken).ctrl}
  /\ code_with_E0 = Meaning(Taken).ext
  /\ code_with_E0 => pc = "read" /\ tty = current_console

\* One character at most waits for the editor, on the terminal TTY visits.
IbufInv ==
  \A t \in Consoles : ibuf[t] # <<>> => pc = "write" /\ tty = t /\ Len(ibuf[t]) = 1

\* A read came at some code taken.
SinceInv ==
  \A t \in Consoles : since[t] <= Len(typed) - count
                      /\ Len(KeysBefore(t)) <= Len(Meaning(Taken).keys[t])

\* The buffer holds the line of the keys the editor has seen since the read.
EditedLine(t, seen) ==
  /\ KeysFor(t) = IF IsKey(ibuf[t]) THEN Append(seen, Key(Head(ibuf[t]))) ELSE seen
  /\ Open(t) =>
       /\ Line(seen, tty_left_cnt[t] + tty_trans_cnt[t]).text = Text(t)
       /\ Line(seen, tty_left_cnt[t] + tty_trans_cnt[t]).done <=> (pc = "resume" /\ tty = t)

EditorInv ==
  /\ KeyStateInv /\ IbufInv /\ SinceInv
  /\ \A t \in Consoles : \E seen \in Seq(EditKeys) : EditedLine(t, seen)

\* The codes taken, and those taken when a read came.
LEMMA TakenTypes ==
  ASSUME RingTypes
  PROVE  /\ typed \in Seq(Keyboard) /\ Len(typed) \in Nat /\ Len(typed) - count \in Nat
         /\ Len(typed) - count <= Len(typed)
         /\ \A n \in 0 .. Len(typed) :
              /\ SubSeq(typed, 1, n) \in Seq(Keyboard) /\ Len(SubSeq(typed, 1, n)) = n
              /\ \A i \in 1 .. n : SubSeq(typed, 1, n)[i] = typed[i]
<1>1. typed \in Seq(Keyboard)
  BY TtyAssumption, SeqMonotonic DEF TtyAssumption, RingTypes
<1>2. Len(typed) \in Nat /\ Len(typed) - count \in Nat /\ Len(typed) - count <= Len(typed)
  BY <1>1, LenProperties DEF RingTypes
<1>3. ASSUME NEW n \in 0 .. Len(typed)
      PROVE  /\ SubSeq(typed, 1, n) \in Seq(Keyboard) /\ Len(SubSeq(typed, 1, n)) = n
             /\ \A i \in 1 .. n : SubSeq(typed, 1, n)[i] = typed[i]
  <2>1. \A i \in 1 .. n : typed[i] \in Keyboard
    BY <1>1, <1>2, ElementOfSeq
  <2>2. /\ SubSeq(typed, 1, n) \in Seq(Keyboard)
        /\ Len(SubSeq(typed, 1, n)) = IF 1 <= n THEN n - 1 + 1 ELSE 0
        /\ \A i \in 1 .. n - 1 + 1 : SubSeq(typed, 1, n)[i] = typed[1 + i - 1]
    BY <2>1, SubSeqProperties
  <2>. QED BY <2>2
<1>. QED BY <1>1, <1>2, <1>3

\* A code taken from the ring is the next one typed.
LEMMA TakeNext ==
  ASSUME RingInv, RingTake
  PROVE  buf[p_tail] \in Keyboard /\ Taken' = Append(Taken, buf[p_tail])
<1>1. /\ typed \in Seq(Keyboard) /\ Len(typed) \in Nat /\ Len(typed) - count \in Nat
      /\ \A n \in 0 .. Len(typed) :
           /\ SubSeq(typed, 1, n) \in Seq(Keyboard) /\ Len(SubSeq(typed, 1, n)) = n
           /\ \A i \in 1 .. n : SubSeq(typed, 1, n)[i] = typed[i]
  BY TakenTypes DEF RingInv
<1>. DEFINE n == Len(typed) - count
<1>2. count \in Nat /\ count > 0 /\ count <= Len(typed) /\ count' = count - 1 /\ typed' = typed
      /\ KB_IN_BYTES \in Nat \ {0} /\ p_tail \in 0 .. KB_IN_BYTES - 1
  BY TtyAssumption DEF TtyAssumption, RingInv, RingTypes, RingTake
<1>3. n \in 0 .. Len(typed) /\ n + 1 \in 0 .. Len(typed) /\ n + 1 \in 1 .. Len(typed)
      /\ Len(typed') - count' = n + 1
  BY <1>1, <1>2
<1>4. buf[p_tail] = typed[n + 1]
  <2>1. 0 \in 0 .. count - 1 /\ (p_tail + 0) % KB_IN_BYTES = p_tail /\ n + 0 + 1 = n + 1
    <3>1. p_tail % KB_IN_BYTES = p_tail
      <4>1. p_tail \in 0 .. 2 * KB_IN_BYTES - 1 /\ p_tail < KB_IN_BYTES
        BY <1>2
      <4>. QED BY <1>2, <4>1, ModOneTurn
    <3>2. p_tail + 0 = p_tail /\ n + 0 + 1 = n + 1 /\ 0 \in 0 .. count - 1
      BY <1>2, <1>3
    <3>. QED BY <3>1, <3>2
  <2>. QED BY <2>1 DEF RingInv, RingIsQueue
<1>5. buf[p_tail] \in Keyboard
  BY <1>1, <1>3, <1>4, ElementOfSeq
<1>6. Taken' = SubSeq(typed, 1, n + 1) /\ Taken = SubSeq(typed, 1, n)
  BY <1>2, <1>3 DEF Taken
<1>. HIDE DEF n
<1>7. SubSeq(typed, 1, n + 1) = Append(SubSeq(typed, 1, n), typed[n + 1])
  <2>1. /\ Append(SubSeq(typed, 1, n), typed[n + 1]) \in Seq(Keyboard)
        /\ Len(Append(SubSeq(typed, 1, n), typed[n + 1])) = n + 1
        /\ \A i \in 1 .. n : Append(SubSeq(typed, 1, n), typed[n + 1])[i] = SubSeq(typed, 1, n)[i]
        /\ Append(SubSeq(typed, 1, n), typed[n + 1])[n + 1] = typed[n + 1]
    <3>1. /\ SubSeq(typed, 1, n) \in Seq(Keyboard) /\ Len(SubSeq(typed, 1, n)) = n
          /\ typed[n + 1] \in Keyboard
      BY <1>1, <1>3, <1>4, <1>5
    <3>. QED BY <3>1, AppendProperties
  <2>2. /\ SubSeq(typed, 1, n + 1) \in Seq(Keyboard) /\ Len(SubSeq(typed, 1, n + 1)) = n + 1
        /\ \A i \in 1 .. n + 1 : SubSeq(typed, 1, n + 1)[i] = typed[i]
    BY <1>1, <1>3
  <2>3. \A i \in 1 .. n + 1 :
          SubSeq(typed, 1, n + 1)[i] = Append(SubSeq(typed, 1, n), typed[n + 1])[i]
    <3>1. \A i \in 1 .. n : SubSeq(typed, 1, n)[i] = typed[i]
      BY <1>1, <1>3
    <3>2. \A i \in 1 .. n + 1 : i \in 1 .. n \/ i = n + 1
      BY <1>3
    <3>. QED BY <2>1, <2>2, <3>1, <3>2
  <2>. QED BY <2>1, <2>2, <2>3, SeqEqual
<1>. QED BY <1>4, <1>5, <1>6, <1>7

----------------------------------------------------------------------------
\* in_process() against AfterCode.

\* The ctrl keys that are held: one more, one less, and none.
LEMMA CtrlKeys ==
  ASSUME NEW c \in SUBSET BOOLEAN, NEW e \in BOOLEAN
  PROVE  /\ {CtrlKey(b) : b \in c \union {e}} = {CtrlKey(b) : b \in c} \union {CtrlKey(e)}
         /\ {CtrlKey(b) : b \in c \ {e}} = {CtrlKey(b) : b \in c} \ {CtrlKey(e)}
         /\ ({CtrlKey(b) : b \in c} = {}) <=> (c = {})
<1>1. \A b \in BOOLEAN : CtrlKey(b) = CtrlKey(e) => b = e
  BY DEF CtrlKey
<1>. QED BY <1>1

\* in_process() does with a code what AfterCode says of it, to the console on screen,
\* the ctrl keys held, and the keys of each console.
LEMMA InProcessMeans ==
  ASSUME TypeOK, KeyStateInv, Taken \in Seq(Keyboard), NEW code \in Keyboard,
         Taken' = Append(Taken, code), InProcess(code, code_with_E0),
         code = "E0" => code_with_E0
  PROVE  /\ current_console' = Meaning(Taken').on
         /\ ctrl' = {CtrlKey(e) : e \in Meaning(Taken').ctrl}
         /\ Meaning(Taken').ext = FALSE
         /\ \A t \in Consoles :
              Meaning(Taken').keys[t] =
                IF t = current_console /\ IsKey(Char(code, code_with_E0))
                THEN Append(Meaning(Taken).keys[t], Key(Head(Char(code, code_with_E0))))
                ELSE Meaning(Taken).keys[t]
<1>1. PICK m \in Meanings : m = Meaning(Taken)
  BY MeaningNext
<1>2. Meaning(Taken') = AfterCode(m, code)
  BY <1>1, MeaningNext
<1>3. /\ current_console = m.on /\ ctrl = {CtrlKey(e) : e \in m.ctrl} /\ code_with_E0 = m.ext
      /\ m.on \in Consoles /\ m.ctrl \in SUBSET BOOLEAN /\ m.ext \in BOOLEAN
      /\ m.keys \in [Consoles -> Seq(EditKeys)]
      /\ m = [on |-> m.on, ctrl |-> m.ctrl, ext |-> m.ext, keys |-> m.keys]
  BY <1>1 DEF KeyStateInv, Meanings
<1>. DEFINE after == AfterCode(m, code)
            chars == Char(code, m.ext)
<1>4. /\ current_console' = ConsoleAfter(code, m.ext) /\ ctrl' = CtrlAfter(code, m.ext)
  BY <1>3 DEF InProcess
<1>5. ctrl = {} <=> m.ctrl = {}
  BY <1>3, CtrlKeys
<1>6. after.on = ConsoleAfter(code, m.ext)
  <2>1. 1 \in Consoles <=> NR_CONSOLES > 1
    BY TtyAssumption DEF TtyAssumption, Consoles
  <2>. QED BY <1>3, <1>5, <2>1 DEF AfterCode, ConsoleAfter
<1>7. CtrlAfter(code, m.ext) = {CtrlKey(e) : e \in after.ctrl}
  <2>1. after.ctrl = CASE code = "ctrl" -> m.ctrl \union {m.ext}
                       [] code = "ctrl_release" -> m.ctrl \ {m.ext}
                       [] OTHER -> m.ctrl
    BY <1>3 DEF AfterCode
  <2>2. CASE code = "ctrl"
    BY <1>3, <2>1, <2>2, CtrlKeys DEF CtrlAfter
  <2>3. CASE code = "ctrl_release"
    <3>1. CtrlAfter(code, m.ext) = ctrl \ {CtrlKey(m.ext)} /\ after.ctrl = m.ctrl \ {m.ext}
      BY <2>1, <2>3 DEF CtrlAfter
    <3>2. {CtrlKey(b) : b \in m.ctrl \ {m.ext}} = {CtrlKey(b) : b \in m.ctrl} \ {CtrlKey(m.ext)}
      <4>1. m.ctrl \in SUBSET BOOLEAN /\ m.ext \in BOOLEAN
        BY <1>3
      <4>. QED BY <4>1, CtrlKeys, Zenon
    <3>. HIDE DEF after
    <3>. QED BY <1>3, <3>1, <3>2
  <2>4. CASE code # "ctrl" /\ code # "ctrl_release"
    BY <1>3, <2>1, <2>4 DEF CtrlAfter
  <2>. QED BY <2>2, <2>3, <2>4
<1>8. after.ext = FALSE
  BY <1>3 DEF AfterCode
<1>9. IsKey(chars) <=> code = "enter" \/ (code \in {"x", "bs"} /\ ~m.ext)
  BY <1>3 DEF Char, IsKey
<1>10. IsKey(chars) => Key(Head(chars)) = code
  <2>1. Head(<<"newline">>) = "newline" /\ Head(<<"backspace">>) = "backspace" /\ Head(<<"x">>) = "x"
    OBVIOUS
  <2>2. IsKey(chars) => chars = CASE code = "enter" -> <<"newline">>
                                  [] code = "bs" -> <<"backspace">>
                                  [] OTHER -> <<"x">>
    BY <1>9 DEF Char
  <2>. HIDE DEF chars
  <2>. QED BY <1>9, <2>1, <2>2 DEF Key
<1>11. after.keys = IF IsKey(chars) THEN [m.keys EXCEPT ![m.on] = Append(@, code)] ELSE m.keys
  <2>1. CASE code = "enter" \/ (code \in {"x", "bs"} /\ ~m.ext)
    <3>1. after = [m EXCEPT !.ext = FALSE, !.keys[m.on] = Append(@, code)]
      BY <2>1 DEF AfterCode
    <3>. HIDE DEF after, chars
    <3>. QED BY <1>3, <1>9, <2>1, <3>1
  <2>2. CASE ~(code = "enter" \/ (code \in {"x", "bs"} /\ ~m.ext))
    <3>1. after.keys = m.keys
      BY <1>3, <2>2 DEF AfterCode
    <3>. QED BY <1>9, <2>2, <3>1
  <2>. QED BY <2>1, <2>2
<1>. HIDE DEF after, chars
<1>12. \A t \in Consoles :
         after.keys[t] = IF t = m.on /\ IsKey(chars) THEN Append(m.keys[t], Key(Head(chars)))
                                                     ELSE m.keys[t]
  BY <1>3, <1>10, <1>11
<1>. QED BY <1>1, <1>2, <1>3, <1>4, <1>6, <1>7, <1>8, <1>12 DEF after, chars

\* The keys of a console, and those that came after its read.
LEMMA KeysTypes ==
  ASSUME TypeOK, SinceInv, NEW t \in Consoles
  PROVE  /\ Taken \in Seq(Keyboard) /\ Meaning(Taken) \in Meanings
         /\ Meaning(Taken).keys[t] \in Seq(EditKeys) /\ KeysBefore(t) \in Seq(EditKeys)
         /\ KeysFor(t) \in Seq(EditKeys)
<1>1. RingTypes /\ since[t] \in Nat /\ since[t] <= Len(typed) - count
  BY DEF TypeOK, SinceInv
<1>2. Len(typed) - count \in 0 .. Len(typed) /\ since[t] \in 0 .. Len(typed)
  BY <1>1, TakenTypes
<1>3. Taken \in Seq(Keyboard) /\ SubSeq(typed, 1, since[t]) \in Seq(Keyboard)
  BY <1>1, <1>2, TakenTypes DEF Taken
<1>4. Meaning(Taken) \in Meanings /\ Meaning(SubSeq(typed, 1, since[t])) \in Meanings
  BY <1>3, MeaningNext
<1>5. Meaning(Taken).keys[t] \in Seq(EditKeys) /\ KeysBefore(t) \in Seq(EditKeys)
  BY <1>4 DEF Meanings, KeysBefore
<1>6. ASSUME NEW all \in Seq(EditKeys), NEW b \in Nat
      PROVE  SubSeq(all, b + 1, Len(all)) \in Seq(EditKeys)
  <2>1. Len(all) \in Nat /\ \A i \in b + 1 .. Len(all) : all[i] \in EditKeys
    BY LenProperties, ElementOfSeq
  <2>. QED BY <2>1, SubSeqProperties
<1>7. Len(KeysBefore(t)) \in Nat
  BY <1>5, LenProperties
<1>8. KeysFor(t) = SubSeq(Meaning(Taken).keys[t], Len(KeysBefore(t)) + 1, Len(Meaning(Taken).keys[t]))
  BY DEF KeysFor, KeysBefore
<1>. QED BY <1>3, <1>4, <1>5, <1>6, <1>7, <1>8

\* One key more.
LEMMA SuffixAppend ==
  ASSUME NEW C, NEW all \in Seq(C), NEW c \in C, NEW b \in Nat, b <= Len(all)
  PROVE  SubSeq(Append(all, c), b + 1, Len(Append(all, c))) = Append(SubSeq(all, b + 1, Len(all)), c)
<1>. DEFINE N == Len(all)
            old == SubSeq(all, b + 1, N)
            new == SubSeq(Append(all, c), b + 1, N + 1)
<1>1. /\ N \in Nat /\ Append(all, c) \in Seq(C) /\ Len(Append(all, c)) = N + 1
      /\ \A i \in 1 .. N : Append(all, c)[i] = all[i]
      /\ Append(all, c)[N + 1] = c
  BY AppendProperties, LenProperties
<1>2. old \in Seq(C) /\ Len(old) = N - b /\ \A i \in 1 .. N - b : old[i] = all[b + i]
  <2>1. \A i \in b + 1 .. N : all[i] \in C
    BY <1>1, ElementOfSeq
  <2>2. /\ old \in Seq(C) /\ Len(old) = IF b + 1 <= N THEN N - (b + 1) + 1 ELSE 0
        /\ \A i \in 1 .. N - (b + 1) + 1 : old[i] = all[b + 1 + i - 1]
    BY <1>1, <2>1, SubSeqProperties
  <2>3. N - (b + 1) + 1 = N - b /\ \A i \in 1 .. N - b : b + 1 + i - 1 = b + i
    BY <1>1
  <2>4. (IF b + 1 <= N THEN N - (b + 1) + 1 ELSE 0) = N - b
    BY <1>1
  <2>. HIDE DEF N, old
  <2>. QED BY <2>2, <2>3, <2>4
<1>3. new \in Seq(C) /\ Len(new) = N - b + 1 /\ \A i \in 1 .. N - b + 1 : new[i] = Append(all, c)[b + i]
  <2>1. \A i \in b + 1 .. N + 1 : Append(all, c)[i] \in C
    BY <1>1, ElementOfSeq
  <2>2. /\ new \in Seq(C) /\ Len(new) = IF b + 1 <= N + 1 THEN N + 1 - (b + 1) + 1 ELSE 0
        /\ \A i \in 1 .. N + 1 - (b + 1) + 1 : new[i] = Append(all, c)[b + 1 + i - 1]
    BY <1>1, <2>1, SubSeqProperties
  <2>3. N + 1 - (b + 1) + 1 = N - b + 1 /\ \A i \in 1 .. N - b + 1 : b + 1 + i - 1 = b + i
    BY <1>1
  <2>4. (IF b + 1 <= N + 1 THEN N + 1 - (b + 1) + 1 ELSE 0) = N - b + 1
    BY <1>1
  <2>. HIDE DEF N, new
  <2>. QED BY <2>2, <2>3, <2>4
<1>. HIDE DEF old, new
<1>4. /\ Append(old, c) \in Seq(C) /\ Len(Append(old, c)) = N - b + 1
      /\ \A i \in 1 .. N - b : Append(old, c)[i] = old[i]
      /\ Append(old, c)[N - b + 1] = c
  BY <1>2, AppendProperties
<1>5. \A i \in 1 .. N - b + 1 : new[i] = Append(old, c)[i]
  <2>. SUFFICES ASSUME NEW i \in 1 .. N - b + 1 PROVE new[i] = Append(old, c)[i]
    OBVIOUS
  <2>1. CASE i = N - b + 1
    <3>1. b + i = N + 1
      BY <1>1, <2>1
    <3>. QED BY <1>1, <1>3, <1>4, <2>1, <3>1
  <2>2. CASE i # N - b + 1
    <3>1. i \in 1 .. N - b /\ b + i \in 1 .. N
      BY <1>1, <2>2
    <3>. QED BY <1>1, <1>2, <1>3, <1>4, <3>1
  <2>. QED BY <2>1, <2>2
<1>6. new = Append(old, c)
  BY <1>3, <1>4, <1>5, SeqEqual
<1>. QED BY <1>1, <1>6 DEF new, old

----------------------------------------------------------------------------
\* The steps.  Nothing typed, no read.
LEMMA EditorInitially == Init => EditorInv
<1>. SUFFICES ASSUME Init PROVE EditorInv
  OBVIOUS
<1>1. Len(<<>>) = 0 /\ <<>> \in Seq(EditKeys)
  OBVIOUS
<1>2. Taken = <<>> /\ \A t \in Consoles : since[t] = 0 /\ SubSeq(typed, 1, since[t]) = <<>>
  <2>1. SubSeq(<<>>, 1, 0) = <<>>
    BY SubSeqEmpty
  <2>. QED BY <1>1, <2>1 DEF Init, Taken
<1>3. Meaning(Taken) = NothingTyped /\ Meaning(<<>>) = NothingTyped
  BY <1>2, MeaningNext
<1>4. KeyStateInv
  <2>1. /\ NothingTyped.on = 0 /\ NothingTyped.ctrl = {} /\ NothingTyped.ext = FALSE
    BY DEF NothingTyped
  <2>2. {CtrlKey(e) : e \in {}} = {}
    OBVIOUS
  <2>3. current_console = 0 /\ ctrl = {} /\ code_with_E0 = FALSE
    BY DEF Init
  <2>. QED BY <1>3, <2>1, <2>2, <2>3 DEF KeyStateInv
<1>5. \A t \in Consoles : Meaning(Taken).keys[t] = <<>> /\ KeysBefore(t) = <<>>
  <2>. TAKE t \in Consoles
  <2>1. NothingTyped.keys[t] = <<>>
    BY DEF NothingTyped
  <2>2. Meaning(SubSeq(typed, 1, since[t])) = NothingTyped
    BY <1>2, <1>3
  <2>. QED BY <1>3, <2>1, <2>2 DEF KeysBefore
<1>6. SinceInv
  BY <1>1, <1>2, <1>5 DEF Init, SinceInv
<1>7. IbufInv
  BY DEF Init, IbufInv
<1>8. \A t \in Consoles : EditedLine(t, <<>>)
  <2>1. \A t \in Consoles : KeysFor(t) = SubSeq(<<>>, 0 + 1, 0)
    BY <1>1, <1>5 DEF KeysFor, KeysBefore
  <2>2. SubSeq(<<>>, 0 + 1, 0) = <<>>
    BY SubSeqEmpty
  <2>. QED BY <2>1, <2>2 DEF Init, EditedLine, Open, IsKey
<1>. QED BY <1>1, <1>4, <1>6, <1>7, <1>8 DEF EditorInv

\* Steps that take no code and edit no line.
EditorKept ==
  /\ Len(typed') - count' = Len(typed) - count
  /\ \A n \in 0 .. Len(typed) - count : SubSeq(typed', 1, n) = SubSeq(typed, 1, n)
  /\ UNCHANGED <<since, ibuf, tty_left_cnt, tty_trans_cnt, tty_req_buf, current_console, ctrl,
                 code_with_E0>>
  /\ \/ pc' = pc /\ tty' = tty
     \/ /\ pc # "resume" /\ pc' # "resume" /\ ~code_with_E0
        /\ \A t \in Consoles : ibuf[t] = <<>>

\* Such steps keep the editor's invariant.
LEMMA KeptEditor ==
  ASSUME TypeOK, EditorInv, EditorKept
  PROVE  EditorInv'
<1>1. Len(typed) - count \in 0 .. Len(typed) - count
  BY TakenTypes DEF TypeOK
<1>2. Taken' = Taken
  BY <1>1 DEF Taken, EditorKept
<1>3. \A t \in Consoles : KeysBefore(t)' = KeysBefore(t)
  <2>1. \A t \in Consoles : since'[t] = since[t] /\ since[t] \in 0 .. Len(typed) - count
    BY <1>1 DEF EditorInv, SinceInv, TypeOK, EditorKept
  <2>. QED BY <2>1 DEF KeysBefore, EditorKept
<1>4. \A t \in Consoles : KeysFor(t)' = KeysFor(t)
  BY <1>2, <1>3 DEF KeysFor, KeysBefore
<1>5. KeyStateInv'
  BY <1>2 DEF EditorInv, KeyStateInv, EditorKept
<1>6. IbufInv'
  BY DEF EditorInv, IbufInv, EditorKept
<1>7. SinceInv'
  BY <1>2, <1>3 DEF EditorInv, SinceInv, EditorKept
<1>8. ASSUME NEW t \in Consoles, NEW seen, EditedLine(t, seen)
      PROVE  EditedLine(t, seen)'
  <2>1. KeysFor(t)' = KeysFor(t) /\ Text(t)' = Text(t) /\ ibuf' = ibuf
        /\ tty_left_cnt' = tty_left_cnt /\ tty_trans_cnt' = tty_trans_cnt
    BY <1>4 DEF Text, EditorKept
  <2>2. (pc' = "resume" /\ tty' = t) <=> (pc = "resume" /\ tty = t)
    BY DEF EditorKept
  <2>3. Open(t)' <=> Open(t)
    BY <2>1, <2>2 DEF Open
  <2>. QED BY <1>8, <2>1, <2>2, <2>3 DEF EditedLine
<1>9. \A t \in Consoles : \E seen \in Seq(EditKeys) : EditedLine(t, seen)'
  BY <1>8 DEF EditorInv
<1>. QED BY <1>5, <1>6, <1>7, <1>9 DEF EditorInv

\* A code that comes is not taken yet.
LEMMA TypingKeepsEditor ==
  ASSUME RingInv, TypeOK, EditorInv, Interrupt
  PROVE  EditorInv'
<1>1. CASE Type
  <2>1. PICK code \in Codes : KeyboardHandler(code)
    BY <1>1 DEF Type
  <2>2. /\ typed \in Seq(Keyboard) /\ Len(typed) \in Nat /\ Len(typed) - count \in Nat
        /\ Len(typed) - count <= Len(typed) /\ code \in Keyboard /\ count \in Nat
    BY TakenTypes, TtyAssumption DEF TtyAssumption, TypeOK, RingTypes
  <2>3. typed' = Append(typed, code) /\ count' = count + 1
    BY <2>1 DEF KeyboardHandler
  <2>4. Len(typed') = Len(typed) + 1 /\ \A i \in 1 .. Len(typed) : typed'[i] = typed[i]
    BY <2>2, <2>3, AppendProperties
  <2>5. Len(typed') - count' = Len(typed) - count
    BY <2>2, <2>3, <2>4
  <2>6. ASSUME NEW n \in 0 .. Len(typed) - count
        PROVE  SubSeq(typed', 1, n) = SubSeq(typed, 1, n)
    <3>1. n \in 0 .. Len(typed)
      BY <2>2
    <3>2. /\ SubSeq(typed, 1, n) \in Seq(Keyboard) /\ Len(SubSeq(typed, 1, n)) = n
          /\ \A i \in 1 .. n : SubSeq(typed, 1, n)[i] = typed[i]
      BY <3>1, TakenTypes DEF TypeOK
    <3>3. \A i \in 1 .. n : typed'[i] = typed[i] /\ typed[i] \in Keyboard
      BY <2>2, <2>4, <3>1, ElementOfSeq
    <3>4. /\ SubSeq(typed', 1, n) \in Seq(Keyboard)
          /\ Len(SubSeq(typed', 1, n)) = IF 1 <= n THEN n - 1 + 1 ELSE 0
          /\ \A i \in 1 .. n - 1 + 1 : SubSeq(typed', 1, n)[i] = typed'[1 + i - 1]
      BY <3>3, SubSeqProperties
    <3>5. Len(SubSeq(typed', 1, n)) = n /\ \A i \in 1 .. n : SubSeq(typed', 1, n)[i] = typed'[i]
      BY <3>1, <3>4
    <3>. QED BY <3>2, <3>3, <3>4, <3>5, SeqEqual
  <2>7. EditorKept
    BY <2>1, <2>5, <2>6 DEF EditorKept, KeyboardHandler, keyState, lineVars
  <2>. QED BY <2>7, KeptEditor
<1>2. CASE ClockHandler
  <2>1. EditorKept
    BY <1>2 DEF EditorKept, ClockHandler, ring, keyState, lineVars
  <2>. QED BY <2>1, KeptEditor
<1>. QED BY <1>1, <1>2 DEF Interrupt

\* Between the visits and the messages ibuf is empty.
LEMMA WaitingKeepsEditor ==
  ASSUME TypeOK, EditorInv,
         NothingToRead \/ Written \/ HardInt \/ ClearKeyPressed \/ OtherRequest
  PROVE  EditorInv'
<1>1. \A t \in Consoles : ibuf[t] = <<>>
  BY DEF EditorInv, IbufInv, NothingToRead, Written, NextTty, HardInt, ClearKeyPressed,
         OtherRequest
<1>2. ~code_with_E0 /\ pc # "resume" /\ pc' # "resume"
  BY DEF EditorInv, KeyStateInv, NothingToRead, Written, NextTty, HardInt, ClearKeyPressed,
         OtherRequest
<1>3. EditorKept
  BY <1>1, <1>2 DEF EditorKept, NothingToRead, Written, HardInt, ClearKeyPressed,
                    OtherRequest, ring, keyState, lineVars
<1>. QED BY <1>3, KeptEditor

\* The reader that is resumed reads no longer.
LEMMA ResumeKeepsEditor ==
  ASSUME TypeOK, EditorInv, Resume
  PROVE  EditorInv'
<1>1. Taken' = Taken /\ typed' = typed /\ count' = count /\ since' = since /\ ibuf' = ibuf /\ tty' = tty
      /\ pc = "resume" /\ pc' = "write"
  BY DEF Resume, ring, lineVars, Taken
<1>2. \A t \in Consoles : KeysBefore(t)' = KeysBefore(t) /\ KeysFor(t)' = KeysFor(t)
  BY <1>1 DEF KeysBefore, KeysFor
<1>3. KeyStateInv' /\ IbufInv' /\ SinceInv'
  BY <1>1, <1>2 DEF EditorInv, KeyStateInv, IbufInv, SinceInv, Resume, keyState
<1>4. ASSUME NEW t \in Consoles, NEW seen, EditedLine(t, seen)
      PROVE  EditedLine(t, seen)'
  <2>1. CASE t = tty
    <3>1. ~Open(t)'
      BY <1>1, <2>1 DEF Resume, Open, TypeOK
    <3>. QED BY <1>1, <1>2, <1>4, <3>1 DEF EditedLine
  <2>2. CASE t # tty
    <3>1. /\ tty_left_cnt'[t] = tty_left_cnt[t] /\ tty_trans_cnt' = tty_trans_cnt
          /\ Text(t)' = Text(t) /\ (Open(t)' <=> Open(t))
      BY <1>1, <2>2 DEF Resume, Open, TypeOK, Text
    <3>. QED BY <1>1, <1>2, <1>4, <2>2, <3>1 DEF EditedLine
  <2>. QED BY <2>1, <2>2
<1>5. \A t \in Consoles : \E seen \in Seq(EditKeys) : EditedLine(t, seen)'
  BY <1>4 DEF EditorInv
<1>. QED BY <1>3, <1>5 DEF EditorInv

\* keyboard_read() of a key: a code more is taken, and if it is a key it waits for the editor.
LEMMA KeyKeepsEditor ==
  ASSUME RingInv, TypeOK, EditorInv, KeyboardRead \/ ReadExtended, buf[p_tail] = "E0" => code_with_E0
  PROVE  EditorInv'
<1>. DEFINE code == buf[p_tail]
            chars == Char(code, code_with_E0)
<1>1. /\ pc = "read" /\ GetByteFromKbuf /\ InProcess(code, code_with_E0)
      /\ code_with_E0' = FALSE /\ pc' = "write" /\ tty' = tty /\ UNCHANGED lineVars
  BY DEF KeyboardRead, ReadExtended, TypeOK
<1>2. tty = current_console /\ tty \in Consoles
  BY DEF KeyboardRead, ReadExtended, EditorInv, KeyStateInv, TypeOK
<1>3. RingTake
  BY <1>1 DEF GetByteFromKbuf, RingTake
<1>4. code \in Keyboard /\ Taken' = Append(Taken, code)
  BY <1>3, TakeNext
<1>5. \A t \in Consoles : ibuf[t] = <<>>
  BY <1>1 DEF EditorInv, IbufInv
<1>6. \A t \in Consoles : /\ Taken \in Seq(Keyboard) /\ Meaning(Taken) \in Meanings
                          /\ Meaning(Taken).keys[t] \in Seq(EditKeys)
                          /\ KeysBefore(t) \in Seq(EditKeys) /\ KeysFor(t) \in Seq(EditKeys)
  BY KeysTypes DEF EditorInv
<1>. HIDE DEF code
<1>7. /\ current_console' = Meaning(Taken').on
      /\ ctrl' = {CtrlKey(e) : e \in Meaning(Taken').ctrl}
      /\ Meaning(Taken').ext = FALSE
      /\ \A t \in Consoles :
           Meaning(Taken').keys[t] = IF t = tty /\ IsKey(chars)
                                     THEN Append(Meaning(Taken).keys[t], Key(Head(chars)))
                                     ELSE Meaning(Taken).keys[t]
  <2>1. KeyStateInv /\ Taken \in Seq(Keyboard)
    BY <1>2, <1>6 DEF EditorInv
  <2>. QED BY <1>1, <1>2, <1>4, <2>1, InProcessMeans DEF code
<1>8. Taken' = SubSeq(typed', 1, Len(typed') - count') /\ Meaning(Taken') = Meaning(Taken)'
  BY DEF Taken
<1>9. KeyStateInv'
  BY <1>1, <1>7, <1>8 DEF KeyStateInv
<1>10. \A t \in Consoles : ibuf'[t] = IF t = tty THEN chars ELSE <<>>
  <2>1. ibuf' = [ibuf EXCEPT ![tty] = @ \o chars]
    BY <1>1 DEF InProcess
  <2>2. <<>> \o chars = chars
    BY CharType, ConcatEmptySeq
  <2>. HIDE DEF chars
  <2>. QED BY <1>2, <1>5, <2>1, <2>2 DEF TypeOK
<1>11. chars = <<>> \/ Len(chars) = 1
  BY DEF Char
<1>. HIDE DEF chars
<1>12. IbufInv'
  BY <1>1, <1>10, <1>11 DEF IbufInv
<1>13. \A t \in Consoles : KeysBefore(t)' = KeysBefore(t)
  BY <1>3, <1>1 DEF KeysBefore, RingTake, lineVars
<1>14. Key(Head(chars)) \in EditKeys
  BY DEF Key, EditKeys
<1>15. ASSUME NEW t \in Consoles
       PROVE  /\ Len(KeysBefore(t)) \in Nat /\ Len(KeysBefore(t)) <= Len(Meaning(Taken).keys[t])
              /\ Len(Meaning(Taken).keys[t]) \in Nat
  BY <1>6, LenProperties DEF EditorInv, SinceInv
<1>16. SinceInv'
  <2>1. Len(typed') - count' = (Len(typed) - count) + 1 /\ since' = since
        /\ Len(typed) - count \in Nat
    <3>1. Len(typed) \in Nat /\ count \in Nat /\ Len(typed) - count \in Nat
      BY TakenTypes DEF TypeOK, RingTypes
    <3>. QED BY <1>1, <1>3, <3>1 DEF RingTake, lineVars
  <2>2. \A t \in Consoles : since[t] \in Nat /\ since[t] <= Len(typed) - count
    BY DEF EditorInv, SinceInv, TypeOK
  <2>3. ASSUME NEW t \in Consoles
        PROVE  Len(KeysBefore(t)) <= Len(Meaning(Taken').keys[t])
    <3>1. \/ Meaning(Taken').keys[t] = Meaning(Taken).keys[t]
          \/ Len(Meaning(Taken').keys[t]) = Len(Meaning(Taken).keys[t]) + 1
      <4>1. Len(Append(Meaning(Taken).keys[t], Key(Head(chars)))) = Len(Meaning(Taken).keys[t]) + 1
        BY <1>6, <1>14, AppendProperties
      <4>. QED BY <1>7, <4>1
    <3>. QED BY <1>15, <3>1
  <2>. QED BY <1>8, <1>13, <2>1, <2>2, <2>3 DEF SinceInv
<1>17. ASSUME NEW t \in Consoles
       PROVE  KeysFor(t)' = IF t = tty /\ IsKey(chars) THEN Append(KeysFor(t), Key(Head(chars)))
                                                       ELSE KeysFor(t)
  <2>1. PICK all \in Seq(EditKeys) : all = Meaning(Taken).keys[t]
    BY <1>6
  <2>2. PICK b \in Nat : b = Len(KeysBefore(t)) /\ b <= Len(all)
    BY <1>15, <2>1
  <2>3. KeysFor(t) = SubSeq(all, b + 1, Len(all))
    BY <2>1, <2>2 DEF KeysFor, KeysBefore
  <2>4. KeysFor(t)' = SubSeq(Meaning(Taken').keys[t], b + 1, Len(Meaning(Taken').keys[t]))
    BY <1>8, <1>13, <2>2 DEF KeysFor, KeysBefore
  <2>5. CASE t = tty /\ IsKey(chars)
    <3>1. Meaning(Taken').keys[t] = Append(all, Key(Head(chars)))
      BY <1>7, <2>1, <2>5
    <3>2. SubSeq(Append(all, Key(Head(chars))), b + 1, Len(Append(all, Key(Head(chars)))))
            = Append(SubSeq(all, b + 1, Len(all)), Key(Head(chars)))
      BY <1>14, <2>2, SuffixAppend
    <3>. QED BY <2>3, <2>4, <2>5, <3>1, <3>2
  <2>6. CASE ~(t = tty /\ IsKey(chars))
    BY <1>7, <2>1, <2>3, <2>4, <2>6
  <2>. QED BY <2>5, <2>6
<1>18. ASSUME NEW t \in Consoles, NEW seen, EditedLine(t, seen)
       PROVE  EditedLine(t, seen)'
  <2>1. KeysFor(t) = seen
    BY <1>5, <1>18 DEF EditedLine, IsKey
  <2>2. IsKey(ibuf'[t]) <=> t = tty /\ IsKey(chars)
    BY <1>10 DEF IsKey
  <2>3. KeysFor(t)' = IF IsKey(ibuf'[t]) THEN Append(seen, Key(Head(ibuf'[t]))) ELSE seen
    BY <1>10, <1>17, <2>1, <2>2
  <2>4. Text(t)' = Text(t) /\ tty_left_cnt' = tty_left_cnt /\ tty_trans_cnt' = tty_trans_cnt
        /\ (Open(t)' <=> Open(t)) /\ pc # "resume" /\ pc' # "resume"
    BY <1>1 DEF lineVars, Text, Open
  <2>. QED BY <1>18, <2>3, <2>4 DEF EditedLine
<1>19. \A t \in Consoles : \E seen \in Seq(EditKeys) : EditedLine(t, seen)'
  BY <1>18 DEF EditorInv
<1>. QED BY <1>9, <1>12, <1>16, <1>19 DEF EditorInv

\* An E0 is taken, and the next byte waited for.
LEMMA PrefixKeepsEditor ==
  ASSUME RingInv, TypeOK, EditorInv, KeyboardRead, buf[p_tail] = "E0"
  PROVE  EditorInv'
<1>1. /\ pc = "read" /\ GetByteFromKbuf /\ code_with_E0' = TRUE /\ ~code_with_E0
      /\ tty = current_console /\ UNCHANGED <<pc, tty, ibuf, ctrl, current_console, lineVars>>
  BY DEF KeyboardRead
<1>2. RingTake
  BY <1>1 DEF GetByteFromKbuf, RingTake
<1>3. "E0" \in Keyboard /\ Taken' = Append(Taken, "E0")
  BY <1>2, TakeNext
<1>4. \A t \in Consoles : Taken \in Seq(Keyboard) /\ Meaning(Taken) \in Meanings
  BY KeysTypes DEF EditorInv
<1>5. Taken \in Seq(Keyboard) /\ Meaning(Taken) \in Meanings
  <2>1. 0 \in Consoles
    BY TtyAssumption DEF TtyAssumption, Consoles
  <2>. QED BY <1>4, <2>1
<1>6. Meaning(Taken') = [Meaning(Taken) EXCEPT !.ext = TRUE]
  <2>1. Meaning(Taken') = AfterCode(Meaning(Taken), "E0")
    BY <1>3, <1>5, MeaningNext
  <2>2. ~Meaning(Taken).ext
    BY <1>1 DEF EditorInv, KeyStateInv
  <2>. QED BY <2>1, <2>2 DEF AfterCode
<1>7. /\ Meaning(Taken').on = Meaning(Taken).on /\ Meaning(Taken').ctrl = Meaning(Taken).ctrl
      /\ Meaning(Taken').ext = TRUE /\ Meaning(Taken').keys = Meaning(Taken).keys
  BY <1>5, <1>6 DEF Meanings
<1>8. Meaning(Taken') = Meaning(Taken)'
  BY DEF Taken
<1>9. KeyStateInv'
  BY <1>1, <1>7, <1>8 DEF EditorInv, KeyStateInv
<1>10. IbufInv'
  BY <1>1 DEF EditorInv, IbufInv
<1>11. \A t \in Consoles : KeysBefore(t)' = KeysBefore(t)
  BY <1>1, <1>2 DEF KeysBefore, RingTake, lineVars
<1>12. \A t \in Consoles : KeysFor(t)' = KeysFor(t)
  BY <1>7, <1>8, <1>11 DEF KeysFor, KeysBefore
<1>13. SinceInv'
  <2>1. Len(typed') - count' = (Len(typed) - count) + 1 /\ since' = since
        /\ Len(typed) - count \in Nat
    <3>1. Len(typed) \in Nat /\ count \in Nat /\ Len(typed) - count \in Nat
      BY TakenTypes DEF TypeOK, RingTypes
    <3>. QED BY <1>1, <1>2, <3>1 DEF RingTake, lineVars
  <2>2. \A t \in Consoles : since[t] \in Nat /\ since[t] <= Len(typed) - count
    BY DEF EditorInv, SinceInv, TypeOK
  <2>. QED BY <1>7, <1>8, <1>11, <2>1, <2>2 DEF EditorInv, SinceInv
<1>14. ASSUME NEW t \in Consoles, NEW seen, EditedLine(t, seen)
       PROVE  EditedLine(t, seen)'
  <2>1. /\ KeysFor(t)' = KeysFor(t) /\ Text(t)' = Text(t) /\ (Open(t)' <=> Open(t))
        /\ tty_left_cnt' = tty_left_cnt /\ tty_trans_cnt' = tty_trans_cnt /\ ibuf' = ibuf
    BY <1>1, <1>12 DEF Text, Open, lineVars
  <2>. QED BY <1>1, <1>14, <2>1 DEF EditedLine
<1>15. \A t \in Consoles : \E seen \in Seq(EditKeys) : EditedLine(t, seen)'
  BY <1>14 DEF EditorInv
<1>. QED BY <1>9, <1>10, <1>13, <1>15 DEF EditorInv

\* A DEV_READ starts with no key.
LEMMA ReadKeepsEditor ==
  ASSUME TypeOK, EditorInv, NEW t \in Consoles, NEW cnt \in Counts, DoRead(t, cnt)
  PROVE  EditorInv'
<1>1. /\ pc = "receive" /\ pc' = "read" /\ tty' = tty /\ ibuf' = ibuf /\ Taken' = Taken
      /\ typed' = typed /\ count' = count
      /\ since' = [since EXCEPT ![t] = Len(typed) - count] /\ UNCHANGED keyState
  BY DEF DoRead, ring, Taken
<1>2. cnt \in Nat
  BY TtyAssumption DEF TtyAssumption
<1>3. \A u \in Consoles : ibuf[u] = <<>>
  BY <1>1 DEF EditorInv, IbufInv
<1>4. Len(typed) - count \in Nat /\ since'[t] = Len(typed) - count
      /\ \A u \in Consoles : u # t => since'[u] = since[u]
  BY <1>1, TakenTypes DEF TypeOK
<1>5. KeysBefore(t)' = Meaning(Taken).keys[t] /\ \A u \in Consoles : u # t => KeysBefore(u)' = KeysBefore(u)
  BY <1>1, <1>4 DEF KeysBefore, Taken
<1>6. /\ Meaning(Taken).keys[t] \in Seq(EditKeys) /\ Len(Meaning(Taken).keys[t]) \in Nat
  BY KeysTypes, LenProperties DEF EditorInv
<1>7. KeysFor(t)' = <<>>
  <2>1. KeysFor(t)' = SubSeq(Meaning(Taken).keys[t], Len(Meaning(Taken).keys[t]) + 1,
                             Len(Meaning(Taken).keys[t]))
    BY <1>1, <1>5 DEF KeysFor, KeysBefore
  <2>2. \A n \in Nat : n < n + 1 /\ n \in Int /\ n + 1 \in Int
    OBVIOUS
  <2>. QED BY <1>6, <2>1, <2>2, SubSeqEmpty
<1>8. \A u \in Consoles : u # t => KeysFor(u)' = KeysFor(u)
  BY <1>1, <1>5 DEF KeysFor, KeysBefore
<1>9. KeyStateInv'
  BY <1>1 DEF EditorInv, KeyStateInv, keyState
<1>10. IbufInv'
  BY <1>1, <1>3 DEF IbufInv
<1>11. SinceInv'
  <2>. SUFFICES ASSUME NEW u \in Consoles
                PROVE  since'[u] <= Len(typed) - count
                       /\ Len(KeysBefore(u)') <= Len(Meaning(Taken).keys[u])
    BY <1>1 DEF SinceInv
  <2>1. CASE u = t
    BY <1>4, <1>5, <1>6, <2>1
  <2>2. CASE u # t
    BY <1>4, <1>5, <2>2 DEF EditorInv, SinceInv
  <2>. QED BY <2>1, <2>2
<1>12. EditedLine(t, <<>>)'
  <2>1. tty_left_cnt'[t] = cnt /\ tty_trans_cnt'[t] = 0 /\ tty_req_buf'[t] = <<>>
    BY DEF DoRead, TypeOK
  <2>2. Text(t)' = <<>>
    <3>1. SubSeq(<<>>, 1, 0) = <<>>
      BY SubSeqEmpty
    <3>. QED BY <2>1, <3>1 DEF Text
  <2>3. Line(<<>>, cnt + 0) = EmptyLine
    BY <1>2, LineNext
  <2>. QED BY <1>1, <1>3, <1>7, <2>1, <2>2, <2>3 DEF EditedLine, IsKey, EmptyLine
<1>13. ASSUME NEW u \in Consoles, u # t, NEW seen, EditedLine(u, seen)
       PROVE  EditedLine(u, seen)'
  <2>1. /\ tty_left_cnt'[u] = tty_left_cnt[u] /\ tty_trans_cnt'[u] = tty_trans_cnt[u]
        /\ tty_req_buf'[u] = tty_req_buf[u]
    BY <1>13 DEF DoRead, TypeOK
  <2>2. Text(u)' = Text(u) /\ (Open(u)' <=> Open(u)) /\ KeysFor(u)' = KeysFor(u)
    BY <1>1, <1>8, <1>13, <2>1 DEF Text, Open
  <2>. QED BY <1>1, <1>13, <2>1, <2>2 DEF EditedLine
<1>14. \A u \in Consoles : \E seen \in Seq(EditKeys) : EditedLine(u, seen)'
  <2>1. <<>> \in Seq(EditKeys)
    OBVIOUS
  <2>. QED BY <1>12, <1>13, <2>1 DEF EditorInv
<1>. QED BY <1>9, <1>10, <1>11, <1>14 DEF EditorInv

\* The bytes in a reader's buffer.
LEMMA TextIs ==
  ASSUME NEW b \in Seq(Keys), NEW n \in Nat, n <= Len(b)
  PROVE  /\ SubSeq(b, 1, n) \in Seq(Keys) /\ Len(SubSeq(b, 1, n)) = n
         /\ \A i \in 1 .. n : SubSeq(b, 1, n)[i] = b[i]
<1>1. Len(b) \in Nat /\ \A i \in 1 .. n : b[i] \in Keys
  BY LenProperties, ElementOfSeq
<1>2. /\ SubSeq(b, 1, n) \in Seq(Keys)
      /\ Len(SubSeq(b, 1, n)) = IF 1 <= n THEN n - 1 + 1 ELSE 0
      /\ \A i \in 1 .. n - 1 + 1 : SubSeq(b, 1, n)[i] = b[1 + i - 1]
  BY <1>1, SubSeqProperties
<1>. QED BY <1>2

\* The text after an 'x', and after a '\b'.
LEMMA TextNext ==
  ASSUME NEW b \in Seq(Keys), NEW n \in Nat, n <= Len(b)
  PROVE  /\ SubSeq(SubSeq(b, 1, n) \o <<"x">>, 1, n + 1) = Append(SubSeq(b, 1, n), "x")
         /\ n > 0 => SubSeq(b, 1, n) # <<>> /\ SubSeq(b, 1, n - 1) = Front(SubSeq(b, 1, n))
         /\ n = 0 => SubSeq(b, 1, n) = <<>>
<1>. DEFINE text == SubSeq(b, 1, n)
<1>1. text \in Seq(Keys) /\ Len(text) = n /\ \A i \in 1 .. n : text[i] = b[i]
  BY TextIs
<1>2. n = 0 => text = <<>>
  BY SubSeqEmpty
<1>3. "x" \in Keys
  BY DEF Keys
<1>4. SubSeq(text \o <<"x">>, 1, n + 1) = Append(text, "x")
  <2>1. Append(text, "x") = text \o <<"x">>
    BY <1>1, <1>3, AppendIsConcat
  <2>2. Append(text, "x") \in Seq(Keys) /\ Len(Append(text, "x")) = n + 1
    BY <1>1, <1>3, AppendProperties
  <2>3. SubSeq(Append(text, "x"), 1, n + 1) = Append(text, "x")
    BY <2>2, SubSeqFull
  <2>. QED BY <2>1, <2>3
<1>5. ASSUME n > 0 PROVE text # <<>> /\ SubSeq(b, 1, n - 1) = Front(text)
  <2>1. text # <<>>
    <3>1. Len(<<>>) = 0
      OBVIOUS
    <3>. QED BY <1>1, <1>5, <3>1
  <2>2. n - 1 \in Nat /\ n - 1 <= Len(b) /\ Len(b) \in Nat
    BY <1>5, LenProperties
  <2>3. /\ SubSeq(b, 1, n - 1) \in Seq(Keys) /\ Len(SubSeq(b, 1, n - 1)) = n - 1
        /\ \A i \in 1 .. n - 1 : SubSeq(b, 1, n - 1)[i] = b[i]
    BY <2>2, TextIs
  <2>4. /\ Front(text) \in Seq(Keys) /\ Len(Front(text)) = n - 1
        /\ \A i \in 1 .. n - 1 : Front(text)[i] = text[i]
    BY <1>1, <2>1, FrontOfLine
  <2>5. \A i \in 1 .. n - 1 : SubSeq(b, 1, n - 1)[i] = Front(text)[i]
    <3>1. \A i \in 1 .. n - 1 : i \in 1 .. n
      OBVIOUS
    <3>. QED BY <1>1, <2>3, <2>4, <3>1
  <2>. HIDE DEF text
  <2>. QED BY <2>1, <2>3, <2>4, <2>5, SeqEqual
<1>. QED BY <1>2, <1>4, <1>5

\* tty_dev_write(): the editor sees the key that waits.
LEMMA EditKeepsEditor ==
  ASSUME LineInv, EditorInv, DevWrite
  PROVE  EditorInv'
<1>. DEFINE ch == Head(ibuf[tty])
<1>1. /\ TypeOK /\ pc = "write" /\ tty' = tty /\ tty \in Consoles /\ ibuf[tty] # <<>>
      /\ ibuf[tty] \in Seq(Keys) /\ Len(ibuf[tty]) = 1
      /\ UNCHANGED <<ring, keyState, since>>
  BY DEF DevWrite, LineInv, TypeOK, EditorInv, IbufInv
<1>2. ch \in Keys /\ Tail(ibuf[tty]) = <<>>
  <2>1. ch \in Keys /\ Tail(ibuf[tty]) \in Seq(Keys) /\ Len(Tail(ibuf[tty])) = Len(ibuf[tty]) - 1
    BY <1>1, HeadTailProperties
  <2>2. Len(Tail(ibuf[tty])) = 0
    BY <1>1, <2>1
  <2>. QED BY <2>1, <2>2, EmptySeq
<1>3. \A t \in Consoles : ibuf'[t] = <<>>
  <2>1. ibuf' = [ibuf EXCEPT ![tty] = <<>>]
    BY <1>2 DEF DevWrite
  <2>2. \A t \in Consoles : t # tty => ibuf[t] = <<>>
    BY DEF EditorInv, IbufInv
  <2>. QED BY <1>1, <2>1, <2>2 DEF TypeOK
<1>4. Taken' = Taken /\ \A t \in Consoles : KeysBefore(t)' = KeysBefore(t) /\ KeysFor(t)' = KeysFor(t)
  BY <1>1 DEF ring, Taken, KeysBefore, KeysFor
<1>5. KeyStateInv' /\ IbufInv' /\ SinceInv'
  BY <1>1, <1>3, <1>4 DEF EditorInv, KeyStateInv, IbufInv, SinceInv, ring, keyState
<1>6. PICK seen \in Seq(EditKeys) : EditedLine(tty, seen)
  BY <1>1 DEF EditorInv
<1>. HIDE DEF ch
<1>7. KeysFor(tty) = IF ch = "nul" THEN seen ELSE Append(seen, Key(ch))
  BY <1>1, <1>6 DEF EditedLine, IsKey, ch
<1>8. Key(ch) \in EditKeys /\ KeysFor(tty) \in Seq(EditKeys)
  <2>1. Key(ch) \in EditKeys
    BY DEF Key, EditKeys
  <2>. QED BY <1>6, <1>7, <2>1, AppendProperties
<1>9. PICK all \in Seq(EditKeys) : all = KeysFor(tty)
  BY <1>8
<1>10. EditedLine(tty, all)'
  <2>1. KeysFor(tty)' = all /\ ~IsKey(ibuf'[tty])
    BY <1>1, <1>3, <1>4, <1>9 DEF IsKey
  <2>2. CASE ~(tty_left_cnt[tty] > 0)
    <3>1. ~Open(tty)'
      BY <1>1, <2>2 DEF DevWrite, Open
    <3>. QED BY <1>1, <2>1, <3>1 DEF EditedLine
  <2>3. CASE tty_left_cnt[tty] > 0
    <3>1. EditLine(tty, ch)
      BY <2>3 DEF DevWrite, ch
    <3>2. PICK left \in Nat, trans \in Nat, b \in Seq(Keys), cnt \in Nat :
            /\ left = tty_left_cnt[tty] /\ trans = tty_trans_cnt[tty] /\ b = tty_req_buf[tty]
            /\ left > 0 /\ cnt = left + trans /\ trans <= Len(b)
      BY <1>1, <2>3 DEF LineInv, TypeOK, BufferFits, Open
    <3>. DEFINE text == SubSeq(b, 1, trans)
                line == Line(seen, cnt)
    <3>3. line.text = text /\ ~line.done /\ line \in Lines
      <4>1. Open(tty) /\ pc # "resume"
        BY <1>1, <2>3 DEF Open
      <4>. QED BY <1>6, <3>2, <4>1, LineNext DEF EditedLine, Text
    <3>4. Line(all, cnt) = IF ch = "nul" THEN line ELSE AfterKey(line, Key(ch), cnt)
      BY <1>6, <1>7, <1>8, <1>9, <3>2, LineNext
    <3>5. /\ SubSeq(text \o <<"x">>, 1, trans + 1) = Append(text, "x")
          /\ trans > 0 => text # <<>> /\ SubSeq(b, 1, trans - 1) = Front(text)
          /\ trans = 0 => text = <<>>
      BY <3>2, TextNext
    <3>. DEFINE left2 == tty_left_cnt'[tty]
                trans2 == tty_trans_cnt'[tty]
                text2 == SubSeq(tty_req_buf'[tty], 1, trans2)
                line2 == Line(all, cnt)
    <3>6. Text(tty)' = text2
      BY <1>1 DEF Text
    <3>7. left2 + trans2 = cnt /\ line2.text = text2 /\ (line2.done <=> pc' = "resume")
      <4>. HIDE DEF line
      <4>1. CASE ch = "nul"
        <5>1. left2 = left /\ trans2 = trans /\ tty_req_buf' = tty_req_buf /\ pc' = "write"
          BY <1>1, <3>1, <3>2, <4>1 DEF EditLine, LineComplete, TypeOK
        <5>. QED BY <3>2, <3>3, <3>4, <4>1, <5>1
      <4>2. CASE ch = "newline"
        <5>1. left2 = left /\ trans2 = trans /\ tty_req_buf' = tty_req_buf /\ pc' = "resume"
          BY <1>1, <3>1, <3>2, <4>2 DEF EditLine, LineComplete, TypeOK
        <5>2. line2 = [line EXCEPT !.done = TRUE]
          BY <3>3, <3>4, <4>2 DEF AfterKey, Key
        <5>3. line2.text = line.text /\ line2.done = TRUE
          BY <3>3, <5>2 DEF Lines
        <5>. QED BY <3>2, <3>3, <5>1, <5>3
      <4>3. CASE ch = "backspace" /\ trans > 0
        <5>1. left2 = left + 1 /\ trans2 = trans - 1 /\ tty_req_buf' = tty_req_buf /\ pc' = "write"
          BY <1>1, <3>1, <3>2, <4>3 DEF EditLine, LineComplete, TypeOK
        <5>2. line2 = [line EXCEPT !.text = Front(text)]
          BY <3>3, <3>4, <3>5, <4>3 DEF AfterKey, Key
        <5>3. line2.text = Front(text) /\ line2.done = line.done
          BY <3>3, <5>2 DEF Lines
        <5>4. left2 + trans2 = cnt
          <6>1. left + 1 + (trans - 1) = left + trans
            OBVIOUS
          <6>. QED BY <3>2, <5>1, <6>1
        <5>5. text2 = Front(text)
          BY <3>2, <3>5, <4>3, <5>1
        <5>. QED BY <3>3, <5>1, <5>3, <5>4, <5>5
      <4>4. CASE ch = "backspace" /\ trans = 0
        <5>1. left2 = left /\ trans2 = trans /\ tty_req_buf' = tty_req_buf /\ pc' = "write"
          BY <1>1, <3>1, <3>2, <4>4 DEF EditLine, LineComplete, TypeOK
        <5>2. line2 = [line EXCEPT !.text = line.text]
          BY <3>3, <3>4, <3>5, <4>4 DEF AfterKey, Key
        <5>3. line2.text = line.text /\ line2.done = line.done
          BY <3>3, <5>2 DEF Lines
        <5>. QED BY <3>2, <3>3, <5>1, <5>3
      <4>5. CASE ch = "x"
        <5>1. /\ left2 = left - 1 /\ trans2 = trans + 1
              /\ tty_req_buf'[tty] = text \o <<"x">>
              /\ pc' = IF left2 = 0 THEN "resume" ELSE "write"
          BY <1>1, <3>1, <3>2, <4>5 DEF EditLine, LineComplete, TypeOK
        <5>2. line2 = [line EXCEPT !.text = Append(line.text, "x"), !.done = Len(line.text) + 1 = cnt]
          BY <3>3, <3>4, <4>5 DEF AfterKey, Key
        <5>3. line2.text = Append(text, "x") /\ line2.done = (Len(text) + 1 = cnt)
          BY <3>3, <5>2 DEF Lines
        <5>4. Len(text) = trans
          BY <3>2, TextIs
        <5>5. left2 + trans2 = cnt /\ (trans + 1 = cnt <=> left2 = 0)
          BY <3>2, <5>1, SMTT(60)
        <5>6. text2 = Append(text, "x")
          BY <3>5, <5>1
        <5>. HIDE DEF text, left2, trans2, text2, line2
        <5>. QED BY <5>1, <5>3, <5>4, <5>5, <5>6
      <4>. QED BY <1>2, <3>2, <4>1, <4>2, <4>3, <4>4, <4>5 DEF Keys
    <3>. QED BY <1>1, <2>1, <3>6, <3>7 DEF EditedLine
  <2>. QED BY <2>2, <2>3
<1>11. ASSUME NEW t \in Consoles, t # tty, NEW got, EditedLine(t, got)
       PROVE  EditedLine(t, got)'
  <2>1. /\ tty_left_cnt'[t] = tty_left_cnt[t] /\ tty_trans_cnt'[t] = tty_trans_cnt[t]
        /\ tty_req_buf'[t] = tty_req_buf[t]
    BY <1>1, <1>11 DEF DevWrite, EditLine, TypeOK
  <2>2. Text(t)' = Text(t) /\ (Open(t)' <=> Open(t)) /\ KeysFor(t)' = KeysFor(t)
        /\ ibuf[t] = <<>> /\ ibuf'[t] = <<>>
    BY <1>1, <1>3, <1>4, <1>11, <2>1 DEF Text, Open, EditorInv, IbufInv
  <2>. QED BY <1>1, <1>11, <2>1, <2>2 DEF EditedLine, IsKey
<1>12. \A t \in Consoles : \E got \in Seq(EditKeys) : EditedLine(t, got)'
  <2>1. ASSUME NEW t \in Consoles PROVE \E got \in Seq(EditKeys) : EditedLine(t, got)'
    <3>1. CASE t = tty
      BY <1>1, <1>10, <3>1
    <3>2. CASE t # tty
      BY <1>11, <3>2 DEF EditorInv
    <3>. QED BY <3>1, <3>2
  <2>. QED BY <2>1
<1>. QED BY <1>5, <1>12 DEF EditorInv

\* Every step of the keyboard, of TTY and of its readers keeps the editor's invariant.
LEMMA EditorStep ==
  ASSUME RingInv, LineInv, EditorInv, [Next]_vars
  PROVE  EditorInv'
<1>. TypeOK
  BY DEF LineInv
<1>1. CASE Interrupt
  BY <1>1, TypingKeepsEditor
<1>2. CASE Request
  BY <1>2, ReadKeepsEditor, WaitingKeepsEditor DEF Request
<1>3. CASE Task
  <2>1. CASE KeyboardRead
    <3>1. CASE buf[p_tail] = "E0"
      BY <2>1, <3>1, PrefixKeepsEditor
    <3>2. CASE buf[p_tail] # "E0"
      BY <2>1, <3>2, KeyKeepsEditor
    <3>. QED BY <3>1, <3>2
  <2>2. CASE ReadExtended
    BY <2>2, KeyKeepsEditor DEF ReadExtended
  <2>3. CASE DevWrite
    BY <2>3, EditKeepsEditor
  <2>4. CASE Resume
    BY <2>4, ResumeKeepsEditor
  <2>5. CASE NothingToRead \/ Written \/ HardInt \/ ClearKeyPressed
    BY <2>5, WaitingKeepsEditor
  <2>. QED BY <1>3, <2>1, <2>2, <2>3, <2>4, <2>5 DEF Task
<1>4. CASE UNCHANGED vars
  <2>1. EditorKept
    BY <1>4 DEF EditorKept, vars, ring, keyState, lineVars
  <2>. QED BY <2>1, KeptEditor
<1>. QED BY <1>1, <1>2, <1>3, <1>4 DEF Next

\* What the codes taken mean is what TTY has made of them, between any two statements.
THEOREM EditorInvariant == Spec => []EditorInv
<1>1. RingInv /\ LineInv /\ EditorInv /\ [Next]_vars => EditorInv'
  BY EditorStep
<1>. QED BY <1>1, EditorInitially, TtyInvariant, PTL DEF Spec

\* Whenever TTY waits for a message, each reader's buffer holds the line that the keys
\* typed on its console since its read make, corrected, and its read is open while that line is
\* not complete: for any number of consoles and any keys.
THEOREM LinesAreRight == Spec => []LineIsRight
<1>1. LineInv /\ EditorInv => LineIsRight
  <2>. SUFFICES ASSUME LineInv, EditorInv, pc = "receive", NEW t \in Consoles, tty_left_cnt[t] > 0
                PROVE  /\ ~Line(KeysFor(t), tty_left_cnt[t] + tty_trans_cnt[t]).done
                       /\ Text(t) = Line(KeysFor(t), tty_left_cnt[t] + tty_trans_cnt[t]).text
    BY DEF LineIsRight
  <2>1. ibuf[t] = <<>>
    BY DEF EditorInv, IbufInv
  <2>2. PICK seen \in Seq(EditKeys) : EditedLine(t, seen)
    BY DEF EditorInv
  <2>. QED BY <2>1, <2>2 DEF EditedLine, IsKey, Open
<1>. QED BY <1>1, EditorInvariant, TtyInvariant, PTL

\* RESUME_PROC: a reader gets the complete line of the keys since its read, not before its
\* ENTER or its last byte, and with no key of the next line.
THEOREM ReadersGetLines == Spec => ResumedWithLine
<1>1. EditorInv /\ LineInv /\ [Next]_vars
        => (pc = "resume" /\ pc' # "resume" =>
              LET line == Line(KeysFor(tty), tty_left_cnt[tty] + tty_trans_cnt[tty])
              IN  line.done /\ Text(tty) = line.text)
  <2>. SUFFICES ASSUME EditorInv, LineInv, pc = "resume"
                PROVE  /\ Line(KeysFor(tty), tty_left_cnt[tty] + tty_trans_cnt[tty]).done
                       /\ Text(tty) = Line(KeysFor(tty), tty_left_cnt[tty] + tty_trans_cnt[tty]).text
    OBVIOUS
  <2>1. tty \in Consoles /\ ibuf[tty] = <<>>
    BY DEF LineInv, TypeOK, EditorInv, IbufInv
  <2>2. PICK seen \in Seq(EditKeys) : EditedLine(tty, seen)
    BY <2>1 DEF EditorInv
  <2>. QED BY <2>1, <2>2 DEF EditedLine, IsKey, Open
<1>. QED BY <1>1, EditorInvariant, TtyInvariant, PTL DEF Spec, ResumedWithLine

----------------------------------------------------------------------------
\* The rows of a console.

\* The rows of a console, the distance of row r from its first cell, the places of
\* its window and its cells.
NrRows == size_per_con \div SCR_WIDTH
Start(r) == r * SCR_WIDTH
Tops(n) == {Screen(n).orig + Start(r) : r \in 0 .. NrRows - SCR_ROWS}
Area(n) == Screen(n).orig .. Screen(n).orig + Screen(n).con_size - 1
Cells == 0 .. V_MEM_CELLS - 1

\* How far the cursor can be above the last row of a window without leaving it.
Margin == SCR_SIZE - SCR_WIDTH

\* Rows follow one another.
LEMMA RowsFollow ==
  /\ SCR_WIDTH \in Nat \ {0} /\ Start(0) = 0
  /\ \A r \in Nat : Start(r) \in Nat
  /\ \A r \in Nat, q \in Nat : r < q => Start(r) + SCR_WIDTH <= Start(q)
<1>1. SCR_WIDTH \in Nat \ {0}
  BY ConsoleAssumption
<1>2. PICK w \in Nat \ {0} : w = SCR_WIDTH
  BY <1>1
<1>3. ASSUME NEW r \in Nat PROVE r * w \in Nat /\ (r + 1) * w = r * w + w
  BY SMTT(30)
<1>4. ASSUME NEW r \in Nat, NEW q \in Nat, r < q PROVE r * w + w <= q * w
  <2>1. PICK d \in Nat : q = (r + 1) + d
    <3>1. q - (r + 1) \in Nat /\ q = (r + 1) + (q - (r + 1))
      BY <1>4
    <3>. QED BY <3>1
  <2>2. d * w \in Nat /\ r * w \in Nat
    BY <1>3
  <2>3. q * w = (r * w + w) + d * w
    BY <2>1, SMTT(30)
  <2>. QED BY <2>2, <2>3
<1>5. 0 * w = 0
  OBVIOUS
<1>. QED BY <1>2, <1>3, <1>4, <1>5 DEF Start

\* The row behind row r.
LEMMA NextRow ==
  ASSUME NEW r \in Nat
  PROVE  Start(r + 1) = Start(r) + SCR_WIDTH
<1>1. PICK w \in Nat \ {0} : w = SCR_WIDTH
  BY ConsoleAssumption
<1>2. (r + 1) * w = r * w + w
  BY SMTT(30)
<1>. QED BY <1>1, <1>2, Zenon DEF Start

\* An offset is in one row.
LEMMA RowOfOffset ==
  ASSUME NEW off \in Nat
  PROVE  \E y \in Nat : /\ off \div SCR_WIDTH = y
                        /\ (off \div SCR_WIDTH) * SCR_WIDTH = Start(y)
                        /\ Start(y) <= off /\ off < Start(y) + SCR_WIDTH
                        /\ off % SCR_WIDTH = off - Start(y)
<1>1. PICK w \in Nat \ {0} : w = SCR_WIDTH
  BY ConsoleAssumption
<1>2. off \div w \in Nat /\ off % w \in 0 .. w - 1 /\ off = (off \div w) * w + (off % w)
  BY SMTT(30)
<1>3. PICK y \in Nat : y = off \div w
  BY <1>2
<1>4. PICK base \in Int : base = y * w
  BY SMTT(30)
<1>5. base <= off /\ off < base + w /\ off % w = off - base
  BY <1>2, <1>3, <1>4
<1>. QED BY <1>1, <1>3, <1>4, <1>5 DEF Start

\* The row an offset is in.
LEMMA OffsetInRow ==
  ASSUME NEW off \in Nat, NEW y \in Nat, Start(y) <= off, off < Start(y) + SCR_WIDTH
  PROVE  /\ off \div SCR_WIDTH = y /\ (off \div SCR_WIDTH) * SCR_WIDTH = Start(y)
         /\ off % SCR_WIDTH = off - Start(y)
<1>1. PICK z \in Nat : /\ off \div SCR_WIDTH = z
                       /\ (off \div SCR_WIDTH) * SCR_WIDTH = Start(z)
                       /\ Start(z) <= off /\ off < Start(z) + SCR_WIDTH
                       /\ off % SCR_WIDTH = off - Start(z)
  BY RowOfOffset
<1>2. z = y
  <2>1. ~(z < y) /\ ~(y < z)
    BY <1>1, RowsFollow
  <2>. QED BY <2>1
<1>. QED BY <1>1, <1>2

\* Sizes.
LEMMA Sizes ==
  /\ SCR_ROWS \in Nat /\ SCR_ROWS > 1 /\ NrRows \in Nat /\ NrRows >= 2 * SCR_ROWS - 1
  /\ SCR_SIZE \in Nat /\ SCR_SIZE = Start(SCR_ROWS)
  /\ Start(SCR_ROWS - 1) = SCR_SIZE - SCR_WIDTH /\ SCR_WIDTH < SCR_SIZE
  /\ Start(NrRows) \in Nat
  /\ Start(NrRows - SCR_ROWS) = Start(NrRows) - SCR_SIZE
  /\ 2 * SCR_SIZE - SCR_WIDTH <= Start(NrRows)
  /\ Margin \in Nat /\ Margin = SCR_SIZE - SCR_WIDTH
<1>1. PICK w \in Nat \ {0} : w = SCR_WIDTH
  BY ConsoleAssumption
<1>2. PICK k \in Nat : k = SCR_ROWS /\ k > 1
  BY ConsoleAssumption
<1>3. PICK v \in Nat : v = size_per_con
  <2>1. V_MEM_CELLS \in Nat /\ NR_CONSOLES \in Nat \ {0}
    BY ConsoleAssumption
  <2>2. PICK a \in Nat, b \in Nat \ {0} : a = V_MEM_CELLS /\ b = NR_CONSOLES
    BY <2>1
  <2>3. a \div b \in Nat
    BY SMTT(30)
  <2>. QED BY <2>2, <2>3 DEF size_per_con
<1>4. PICK y \in Nat : /\ y = NrRows /\ Start(y) <= v /\ v < Start(y) + w
  BY <1>1, <1>3, RowOfOffset DEF NrRows
<1>5. Start(2 * k - 1) <= v
  <2>1. size_per_con >= (2 * SCR_ROWS - 1) * SCR_WIDTH
    BY ConsoleAssumption, Zenon DEF size_per_con
  <2>2. Start(2 * k - 1) = (2 * SCR_ROWS - 1) * SCR_WIDTH
    BY <1>2, Zenon DEF Start
  <2>3. Start(2 * k - 1) \in Nat
    BY <1>2, RowsFollow
  <2>. HIDE DEF Start
  <2>. QED BY <1>3, <2>1, <2>2, <2>3
<1>6. y >= 2 * k - 1
  <2>1. y < 2 * k - 1 => Start(y) + w <= Start(2 * k - 1)
    BY <1>1, <1>2, RowsFollow
  <2>. QED BY <2>1, <1>1, <1>2, <1>4, <1>5, RowsFollow
<1>7. ASSUME NEW a \in Nat, NEW b \in Nat PROVE Start(a + b) = Start(a) + Start(b)
  <2>1. (a + b) * w = a * w + b * w
    BY SMTT(30)
  <2>. QED BY <2>1, <1>1 DEF Start
<1>8. SCR_SIZE = Start(k)
  BY <1>2 DEF SCR_SIZE, Start
<1>9. Start(k) \in Nat /\ Start(k) = Start(k - 1) + w /\ Start(k - 1) \in Nat /\ Start(1) = w
  <2>1. k - 1 \in Nat /\ (k - 1) + 1 = k /\ 0 + 1 = 1
    BY <1>2
  <2>2. Start((k - 1) + 1) = Start(k - 1) + w /\ Start(0 + 1) = Start(0) + w
    BY <2>1, <1>1, NextRow
  <2>. QED BY <2>1, <2>2, <1>1, RowsFollow
<1>10. Start(y - k) + Start(k) = Start(y) /\ Start(y) \in Nat /\ Start(y - k) \in Nat
  <2>1. y - k \in Nat /\ (y - k) + k = y
    BY <1>2, <1>6
  <2>. QED BY <2>1, <1>7, RowsFollow
<1>11. Start(2 * k - 1) = Start(k) + Start(k - 1)
  <2>1. 2 * k - 1 = k + (k - 1) /\ k - 1 \in Nat
    BY <1>2
  <2>. QED BY <2>1, <1>7
<1>12. Start(2 * k - 1) <= Start(y)
  BY <1>1, <1>2, <1>6, RowsFollow
<1>13. w <= Start(k - 1)
  <2>1. k - 1 \in Nat /\ 0 < k - 1
    BY <1>2
  <2>. QED BY <2>1, <1>1, RowsFollow
<1>14. Margin = SCR_SIZE - SCR_WIDTH /\ SCR_SIZE - SCR_WIDTH = Start(k - 1)
  BY <1>1, <1>8, <1>9 DEF Margin
<1>. QED BY <1>1, <1>2, <1>4, <1>6, <1>8, <1>9, <1>10, <1>11, <1>12, <1>13, <1>14

\* Consoles lie one behind the other in the video memory.
LEMMA ConsolesFollow ==
  /\ 0 \in Consoles /\ Consoles \subseteq Nat
  /\ \A n \in Consoles :
       /\ Screen(n).orig \in Nat /\ Screen(n).con_size = Start(NrRows)
       /\ Screen(n).orig + Start(NrRows) <= V_MEM_CELLS
       /\ Screen(n).crtc_start = Screen(n).orig
       /\ Screen(n).cursor = Screen(n).orig + SCR_WIDTH
       /\ Screen(n).is_full = FALSE
       /\ n > 0 => Screen(n).orig > 0
  /\ Screen(0).orig = 0
  /\ \A n \in Consoles, m \in Consoles :
       n < m => Screen(n).orig + Start(NrRows) <= Screen(m).orig
<1>1. V_MEM_CELLS \in Nat /\ NR_CONSOLES \in Nat \ {0}
  BY ConsoleAssumption
<1>2. PICK k \in Nat \ {0} : k = NR_CONSOLES
  BY <1>1
<1>3. PICK cells \in Nat : cells = V_MEM_CELLS
  BY <1>1
<1>4. PICK v \in Nat : v = size_per_con /\ v * k <= cells
  <2>1. cells \div k \in Nat /\ (cells \div k) * k <= cells
    BY SMTT(30)
  <2>. QED BY <2>1, <1>2, <1>3 DEF size_per_con
<1>5. NrRows \in Nat /\ Start(NrRows) \in Nat /\ Start(NrRows) <= v /\ 0 < Start(NrRows)
  <2>1. Start(NrRows) <= v
    <3>1. size_per_con \in Nat
      BY <1>4
    <3>2. PICK y \in Nat : size_per_con \div SCR_WIDTH = y /\ Start(y) <= size_per_con
      BY <3>1, RowOfOffset
    <3>. QED BY <3>2, <1>4 DEF NrRows
  <2>. QED BY <2>1, Sizes, RowsFollow
<1>6. ASSUME NEW n \in Nat PROVE n * v \in Nat
  BY SMTT(30)
<1>7. ASSUME NEW n \in Nat, NEW m \in Nat, n < m PROVE n * v + v <= m * v
  <2>1. PICK d \in Nat : m = (n + 1) + d
    <3>1. m - (n + 1) \in Nat /\ m = (n + 1) + (m - (n + 1))
      BY <1>7
    <3>. QED BY <3>1
  <2>2. d * v \in Nat /\ n * v \in Nat
    BY <1>6
  <2>3. m * v = (n * v + v) + d * v
    BY <2>1, SMTT(30)
  <2>. QED BY <2>2, <2>3
<1>8. v * k = k * v /\ 0 * v = 0
  BY SMTT(30)
<1>9. ASSUME NEW n \in Consoles
      PROVE  /\ n \in Nat /\ n < k /\ n * v \in Nat /\ n * v + v <= cells
             /\ n > 0 => n * v > 0
  <2>1. n \in Nat /\ n < k
    BY <1>2 DEF Consoles
  <2>2. n * v + v <= k * v
    BY <2>1, <1>2, <1>7
  <2>3. n > 0 => 0 * v + v <= n * v
    BY <2>1, <1>7
  <2>4. n * v \in Nat
    BY <2>1, <1>6
  <2>. QED BY <2>1, <2>2, <2>3, <2>4, <1>4, <1>5, <1>8
<1>10. \A n \in Consoles : /\ Screen(n).orig = n * v /\ Screen(n).con_size = Start(NrRows)
                           /\ Screen(n).crtc_start = n * v
                           /\ Screen(n).cursor = n * v + SCR_WIDTH /\ Screen(n).is_full = FALSE
  BY <1>4 DEF Screen, Start, NrRows
<1>11. 0 \in Consoles
  BY <1>2 DEF Consoles
<1>12. ASSUME NEW n \in Consoles, NEW m \in Consoles, n < m
       PROVE  n * v + Start(NrRows) <= m * v
  <2>1. n * v + v <= m * v
    BY <1>12, <1>9, <1>7
  <2>. QED BY <2>1, <1>5, <1>9
<1>13. ASSUME NEW n \in Consoles
       PROVE  /\ Screen(n).orig \in Nat /\ Screen(n).con_size = Start(NrRows)
              /\ Screen(n).orig + Start(NrRows) <= V_MEM_CELLS
              /\ Screen(n).crtc_start = Screen(n).orig
              /\ Screen(n).cursor = Screen(n).orig + SCR_WIDTH
              /\ Screen(n).is_full = FALSE
              /\ n > 0 => Screen(n).orig > 0
  <2>1. PICK base \in Nat : base = n * v
    BY <1>9
  <2>2. base + v <= cells /\ (n > 0 => base > 0)
    BY <2>1, <1>9
  <2>. QED BY <2>1, <2>2, <1>3, <1>5, <1>10
<1>14. Screen(0).orig = 0
  BY <1>8, <1>10, <1>11
<1>15. \A n \in Consoles, m \in Consoles :
         n < m => Screen(n).orig + Start(NrRows) <= Screen(m).orig
  BY <1>10, <1>12
<1>16. Consoles \subseteq Nat
  BY <1>9
<1>. QED BY <1>11, <1>13, <1>14, <1>15, <1>16

----------------------------------------------------------------------------
\* What the statements of out_char() do to a screen.

\* A screen: console n keeps its place and size, its window stays within.
IsScreen(s) ==
  /\ s \in [vmem : [Cells -> {Blank, Letter}],
            con : [Consoles -> [orig : Int, con_size : Int, cursor : Int,
                                crtc_start : Int, is_full : BOOLEAN]],
            cursor : Int, start : Int]
  /\ \A n \in Consoles : /\ s.con[n].orig = Screen(n).orig
                         /\ s.con[n].con_size = Screen(n).con_size
                         /\ s.con[n].crtc_start \in Tops(n)

\* The cells of console n, the cells behind them that clear_screen() may reach.
BlankedBehind(n) == {p \in Cells : p - (Screen(n).orig + Screen(n).con_size)
                                     \in 0 .. SCR_WIDTH - 2}

\* From s to t only console n was written on, and blanks behind it.
Writes(s, t, n) ==
  /\ IsScreen(t)
  /\ \A m \in Consoles \ {n} : t.con[m] = s.con[m]
  /\ \A p \in Cells : \/ t.vmem[p] = s.vmem[p]
                      \/ p \in Area(n)
                      \/ p \in BlankedBehind(n) /\ t.vmem[p] = Blank

\* The registers of the CRTC are the same.
SameRegisters(s, t) == t.cursor = s.cursor /\ t.start = s.start

\* Writes join.
LEMMA WritesJoin ==
  ASSUME NEW s, NEW t, NEW u, NEW n \in Consoles, Writes(s, t, n), Writes(t, u, n)
  PROVE  Writes(s, u, n)
BY DEF Writes

\* A console's numbers.
LEMMA ConsoleNumbers ==
  ASSUME NEW s, IsScreen(s), NEW n \in Consoles
  PROVE  /\ s.con[n].orig \in Nat /\ s.con[n].orig = Screen(n).orig
         /\ s.con[n].con_size = Start(NrRows) /\ s.con[n].con_size \in Nat
         /\ s.con[n].cursor \in Int /\ s.con[n].crtc_start \in Int
         /\ s.con[n].is_full \in BOOLEAN
         /\ s.con[n].orig + s.con[n].con_size <= V_MEM_CELLS
         /\ Area(n) = s.con[n].orig .. s.con[n].orig + s.con[n].con_size - 1
         /\ Area(n) \subseteq Cells
         /\ \E r \in 0 .. NrRows - SCR_ROWS : s.con[n].crtc_start = s.con[n].orig + Start(r)
<1>1. s.con[n] \in [orig : Int, con_size : Int, cursor : Int, crtc_start : Int, is_full : BOOLEAN]
  BY DEF IsScreen
<1>2. s.con[n].orig = Screen(n).orig /\ s.con[n].con_size = Screen(n).con_size
      /\ s.con[n].crtc_start \in Tops(n)
  BY DEF IsScreen
<1>3. Screen(n).orig \in Nat /\ Screen(n).con_size = Start(NrRows) /\ Start(NrRows) \in Nat
      /\ Screen(n).orig + Start(NrRows) <= V_MEM_CELLS
  BY ConsolesFollow, Sizes
<1>4. V_MEM_CELLS \in Nat
  BY ConsoleAssumption
<1>5. Area(n) = s.con[n].orig .. s.con[n].orig + s.con[n].con_size - 1
  BY <1>2 DEF Area
<1>6. Area(n) \subseteq Cells
  BY <1>2, <1>3, <1>4, <1>5 DEF Cells
<1>7. \E r \in 0 .. NrRows - SCR_ROWS : s.con[n].crtc_start = s.con[n].orig + Start(r)
  BY <1>2 DEF Tops
<1>. QED BY <1>1, <1>2, <1>3, <1>5, <1>6, <1>7

\* The window a console has.
LEMMA WindowIn ==
  ASSUME NEW s, IsScreen(s), NEW n \in Consoles
  PROVE  /\ s.con[n].orig <= s.con[n].crtc_start
         /\ s.con[n].crtc_start + SCR_SIZE <= s.con[n].orig + s.con[n].con_size
<1>1. PICK r \in 0 .. NrRows - SCR_ROWS : s.con[n].crtc_start = s.con[n].orig + Start(r)
  BY ConsoleNumbers
<1>2. PICK last \in Nat : last = NrRows - SCR_ROWS
  BY Sizes
<1>3. r \in Nat /\ (r = last \/ r < last)
  BY <1>2
<1>4. Start(r) \in Nat /\ Start(r) <= Start(last)
  BY <1>3, RowsFollow
<1>5. s.con[n].orig \in Nat /\ s.con[n].con_size = Start(NrRows)
  BY ConsoleNumbers
<1>6. Start(last) = Start(NrRows) - SCR_SIZE /\ Start(NrRows) \in Nat /\ SCR_SIZE \in Nat
  BY <1>2, Sizes
<1>. QED BY <1>1, <1>4, <1>5, <1>6

\* l.71-74.
LEMMA PutEffect ==
  ASSUME NEW s, IsScreen(s), NEW n \in Consoles, NEW ch, NEW p \in Area(n)
  PROVE  /\ Writes(s, Put(s, n, ch, p), n) /\ SameRegisters(s, Put(s, n, ch, p))
         /\ Put(s, n, ch, p).con = s.con
         /\ \A x \in Cells : Put(s, n, ch, p).vmem[x] =
                               IF ch = Letter /\ x = p THEN Letter ELSE s.vmem[x]
<1>1. p \in Cells
  BY ConsoleNumbers
<1>2. CASE ch = Letter
  <2>1. Put(s, n, ch, p) = [s EXCEPT !.vmem = [s.vmem EXCEPT ![p] = Letter]]
    BY <1>2 DEF Put
  <2>. QED BY <2>1, <1>1, <1>2 DEF IsScreen, Writes, SameRegisters
<1>3. CASE ch # Letter
  BY <1>3 DEF Put, Writes, SameRegisters, IsScreen
<1>. QED BY <1>2, <1>3

\* From s to t con->cursor was stored, and '\b' erased the cell before p.
Stored(s, t, n, ch, p, reg) ==
  /\ Writes(s, t, n) /\ SameRegisters(s, t)
  /\ t.con[n] = [s.con[n] EXCEPT !.cursor = reg]
  /\ \A x \in Cells : t.vmem[x] = IF ch = Backspace /\ x = p - 1 THEN Blank ELSE s.vmem[x]

\* l.60-70: the store into con->cursor, and the cell '\b' erases.
LEMMA StoreEffect ==
  ASSUME NEW s, IsScreen(s), NEW n \in Consoles, NEW ch, NEW p \in Int, NEW reg \in Int,
         ch = Backspace => p - 1 \in Area(n) \/ p - 1 \notin Cells
  PROVE  Stored(s, Store(s, n, ch, p, reg), n, ch, p, reg)
<1>. DEFINE mem == IF ch = Backspace THEN [s.vmem EXCEPT ![p - 1] = Blank] ELSE s.vmem
            con == [s.con EXCEPT ![n] = [s.con[n] EXCEPT !.cursor = reg]]
            t == Store(s, n, ch, p, reg)
<1>1. t = [s EXCEPT !.con = con, !.vmem = mem]
  BY DEF Store, IsScreen
<1>2. mem \in [Cells -> {Blank, Letter}]
      /\ \A x \in Cells : mem[x] = IF ch = Backspace /\ x = p - 1 THEN Blank ELSE s.vmem[x]
  BY DEF IsScreen
<1>3. /\ con \in [Consoles -> [orig : Int, con_size : Int, cursor : Int,
                                crtc_start : Int, is_full : BOOLEAN]]
      /\ con[n] = [s.con[n] EXCEPT !.cursor = reg]
      /\ \A m \in Consoles \ {n} : con[m] = s.con[m]
  BY DEF IsScreen
<1>4. t.vmem = mem /\ t.con = con /\ t.cursor = s.cursor /\ t.start = s.start
      /\ t \in [vmem : [Cells -> {Blank, Letter}],
            con : [Consoles -> [orig : Int, con_size : Int, cursor : Int,
                                crtc_start : Int, is_full : BOOLEAN]],
            cursor : Int, start : Int]
  <2>. HIDE DEF mem, con, t
  <2>. QED BY <1>1, <1>2, <1>3 DEF IsScreen
<1>5. con[n].orig = s.con[n].orig /\ con[n].con_size = s.con[n].con_size
      /\ con[n].crtc_start = s.con[n].crtc_start
  BY <1>3 DEF IsScreen
<1>6. IsScreen(t)
  <2>. HIDE DEF mem, con, t
  <2>. QED BY <1>3, <1>4, <1>5 DEF IsScreen
<1>. HIDE DEF mem, con, t
<1>7. Writes(s, t, n)
  <2>1. \A x \in Cells : t.vmem[x] = s.vmem[x] \/ x \in Area(n)
    BY <1>2, <1>4
  <2>. QED BY <2>1, <1>3, <1>4, <1>6 DEF Writes
<1>8. /\ Writes(s, t, n) /\ SameRegisters(s, t)
      /\ t.con[n] = [s.con[n] EXCEPT !.cursor = reg]
      /\ \A x \in Cells : t.vmem[x] = IF ch = Backspace /\ x = p - 1 THEN Blank ELSE s.vmem[x]
  BY <1>2, <1>3, <1>4, <1>7 DEF SameRegisters
<1>. QED BY <1>8 DEF Stored, t

\* clear_screen(con->cursor, SCR_WIDTH).
LEMMA ClearEffect ==
  ASSUME NEW s, IsScreen(s), NEW n \in Consoles, s.con[n].cursor \in Area(n)
  PROVE  /\ Writes(s, ClearFromCursor(s, n), n) /\ SameRegisters(s, ClearFromCursor(s, n))
         /\ ClearFromCursor(s, n).con = s.con
         /\ \A x \in Cells : ClearFromCursor(s, n).vmem[x] =
              IF x - s.con[n].cursor \in 0 .. SCR_WIDTH - 1 THEN Blank ELSE s.vmem[x]
<1>. DEFINE t == ClearFromCursor(s, n)
            mem == [p \in Cells |-> IF p - s.con[n].cursor \in 0 .. SCR_WIDTH - 1
                                    THEN Blank ELSE s.vmem[p]]
<1>1. t = [s EXCEPT !.vmem = mem]
  BY DEF ClearFromCursor, IsScreen
<1>2. mem \in [Cells -> {Blank, Letter}]
  BY DEF IsScreen
<1>3. t.vmem = mem /\ t.con = s.con /\ SameRegisters(s, t) /\ IsScreen(t)
  <2>. HIDE DEF mem
  <2>. QED BY <1>1, <1>2 DEF IsScreen, SameRegisters
<1>4. ASSUME NEW x \in Cells, x - s.con[n].cursor \in 0 .. SCR_WIDTH - 1, x \notin Area(n)
      PROVE  x \in BlankedBehind(n)
  <2>1. x \in Nat /\ SCR_WIDTH \in Nat
    BY ConsoleAssumption DEF Cells
  <2>2. PICK o \in Nat, z \in Nat : /\ o = Screen(n).orig /\ z = Screen(n).con_size
                                   /\ Area(n) = o .. o + z - 1
    BY ConsolesFollow, Sizes DEF Area
  <2>3. PICK c \in Area(n) : c = s.con[n].cursor
    OBVIOUS
  <2>4. c \in Int /\ c <= o + z - 1 /\ c <= x /\ x <= c + SCR_WIDTH - 1 /\ o <= c
    <3>1. x - c \in 0 .. SCR_WIDTH - 1
      BY <1>4, <2>3
    <3>. QED BY <2>1, <2>2, <3>1
  <2>5. x > o + z - 1
    <3>1. x \notin o .. o + z - 1
      BY <1>4, <2>2, Zenon
    <3>. QED BY <2>1, <2>4, <3>1
  <2>6. x - (o + z) \in 0 .. SCR_WIDTH - 2
    BY <2>1, <2>4, <2>5
  <2>. QED BY <2>2, <2>6 DEF BlankedBehind
<1>5. Writes(s, t, n)
  <2>1. ASSUME NEW x \in Cells
        PROVE  t.vmem[x] = s.vmem[x] \/ x \in Area(n) \/ (x \in BlankedBehind(n) /\ t.vmem[x] = Blank)
    <3>1. x - s.con[n].cursor \in 0 .. SCR_WIDTH - 1 \/ t.vmem[x] = s.vmem[x]
      BY <1>3
    <3>2. x - s.con[n].cursor \in 0 .. SCR_WIDTH - 1 => t.vmem[x] = Blank
      BY <1>3
    <3>. QED BY <3>1, <3>2, <1>4, Zenon
  <2>. HIDE DEF t, mem
  <2>. QED BY <2>1, <1>3 DEF Writes
<1>. QED BY <1>3, <1>5

\* l.78-81, when the cursor is right behind the console.
LEMMA CopyEffect ==
  ASSUME NEW s, IsScreen(s), NEW n \in Consoles,
         s.con[n].cursor = s.con[n].orig + s.con[n].con_size
  PROVE  LET t == CopyToTop(s, n)
             orig == s.con[n].orig
         IN  /\ Writes(s, t, n) /\ SameRegisters(s, t) /\ t.con = s.con
             /\ Offset(s, n) % SCR_WIDTH = 0
             /\ \A x \in Cells :
                  t.vmem[x] = IF x - orig \in 0 .. SCR_SIZE - SCR_WIDTH - 1
                              THEN s.vmem[x + Start(NrRows) + SCR_WIDTH - SCR_SIZE]
                              ELSE s.vmem[x]
<1>. DEFINE t == CopyToTop(s, n)
            orig == s.con[n].orig
            cp_orig == orig + (Offset(s, n) \div SCR_WIDTH + 1) * SCR_WIDTH - SCR_SIZE
            mem == [p \in Cells |-> IF p - orig \in 0 .. SCR_SIZE - SCR_WIDTH - 1
                                    THEN s.vmem[cp_orig + p - orig] ELSE s.vmem[p]]
<1>1. t = [s EXCEPT !.vmem = mem]
  BY DEF CopyToTop, IsScreen
<1>2. PICK o \in Nat, z \in Nat : /\ o = orig /\ z = Start(NrRows) /\ z = s.con[n].con_size
                                  /\ o + z <= V_MEM_CELLS
  BY ConsoleNumbers
<1>3. Offset(s, n) = z
  BY <1>2 DEF Offset
<1>4. z \div SCR_WIDTH = NrRows /\ z % SCR_WIDTH = 0
  <2>1. NrRows \in Nat /\ SCR_WIDTH \in Nat \ {0}
    BY Sizes, RowsFollow
  <2>2. Start(NrRows) <= z /\ z < Start(NrRows) + SCR_WIDTH /\ z - Start(NrRows) = 0
    BY <1>2, <2>1
  <2>. QED BY <2>1, <2>2, OffsetInRow
<1>5. cp_orig = o + z + SCR_WIDTH - SCR_SIZE
  <2>1. Start(NrRows + 1) = Start(NrRows) + SCR_WIDTH
    BY NextRow, Sizes
  <2>2. (Offset(s, n) \div SCR_WIDTH + 1) * SCR_WIDTH = Start(NrRows + 1)
    BY <1>3, <1>4, Zenon DEF Start
  <2>3. cp_orig = o + Start(NrRows + 1) - SCR_SIZE
    BY <1>2, <2>2, Zenon
  <2>4. SCR_SIZE \in Nat /\ SCR_WIDTH \in Nat
    BY Sizes, RowsFollow
  <2>. HIDE DEF cp_orig
  <2>. QED BY <2>1, <2>3, <2>4, <1>2
<1>6. SCR_SIZE \in Nat /\ SCR_WIDTH \in Nat /\ SCR_WIDTH < SCR_SIZE /\ 2 * SCR_SIZE - SCR_WIDTH <= z
  BY Sizes, RowsFollow, <1>2
<1>7. ASSUME NEW x \in Cells, x - orig \in 0 .. SCR_SIZE - SCR_WIDTH - 1
      PROVE  /\ x \in Area(n) /\ x + z + SCR_WIDTH - SCR_SIZE \in Cells
             /\ cp_orig + x - orig = x + z + SCR_WIDTH - SCR_SIZE
  <2>1. x \in Nat /\ V_MEM_CELLS \in Nat
    BY ConsoleAssumption DEF Cells
  <2>2. Area(n) = o .. o + z - 1
    BY <1>2, ConsoleNumbers
  <2>3. x - o \in 0 .. SCR_SIZE - SCR_WIDTH - 1
    BY <1>2, <1>7
  <2>. HIDE DEF cp_orig, orig
  <2>4. PICK w \in Nat, sz \in Nat, mc \in Nat : w = SCR_WIDTH /\ sz = SCR_SIZE /\ mc = V_MEM_CELLS
    BY <1>6, <2>1
  <2>5. o <= x /\ x <= o + sz - w - 1 /\ o + z <= mc /\ w < sz /\ 2 * sz - w <= z
    BY <2>1, <2>3, <2>4, <1>2, <1>6
  <2>6. x \in o .. o + z - 1 /\ x + z + w - sz \in 0 .. mc - 1
    BY <2>1, <2>5
  <2>7. cp_orig + x - orig = x + z + w - sz
    BY <1>2, <1>5, <2>1, <2>4
  <2>. QED BY <2>2, <2>4, <2>6, <2>7 DEF Cells
<1>8. mem \in [Cells -> {Blank, Letter}]
      /\ \A x \in Cells : mem[x] = IF x - orig \in 0 .. SCR_SIZE - SCR_WIDTH - 1
                              THEN s.vmem[x + Start(NrRows) + SCR_WIDTH - SCR_SIZE]
                              ELSE s.vmem[x]
  <2>1. s.vmem \in [Cells -> {Blank, Letter}]
    BY DEF IsScreen
  <2>2. ASSUME NEW x \in Cells
        PROVE  /\ mem[x] = IF x - orig \in 0 .. SCR_SIZE - SCR_WIDTH - 1
                           THEN s.vmem[x + Start(NrRows) + SCR_WIDTH - SCR_SIZE] ELSE s.vmem[x]
               /\ mem[x] \in {Blank, Letter}
    <3>1. CASE x - orig \in 0 .. SCR_SIZE - SCR_WIDTH - 1
      <4>1. mem[x] = s.vmem[cp_orig + x - orig]
        BY <3>1
      <4>. HIDE DEF mem, cp_orig, orig
      <4>. QED BY <4>1, <3>1, <1>7, <1>2, <2>1
    <3>2. CASE x - orig \notin 0 .. SCR_SIZE - SCR_WIDTH - 1
      <4>1. mem[x] = s.vmem[x]
        BY <3>2
      <4>. HIDE DEF mem, cp_orig, orig
      <4>. QED BY <4>1, <3>2, <2>1
    <3>. QED BY <3>1, <3>2
  <2>3. mem = [x \in Cells |-> mem[x]]
    OBVIOUS
  <2>. HIDE DEF mem, orig
  <2>. QED BY <2>2, <2>3
<1>. HIDE DEF mem, orig, cp_orig
<1>9. t.vmem = mem /\ t.con = s.con /\ SameRegisters(s, t) /\ IsScreen(t)
  <2>. HIDE DEF t
  <2>. QED BY <1>1, <1>8 DEF IsScreen, SameRegisters
<1>10. Writes(s, t, n)
  <2>1. \A x \in Cells : t.vmem[x] = s.vmem[x] \/ x \in Area(n)
    BY <1>7, <1>8, <1>9
  <2>. HIDE DEF t
  <2>. QED BY <2>1, <1>9 DEF Writes
<1>11. Offset(s, n) % SCR_WIDTH = 0
  BY <1>3, <1>4
<1>. QED BY <1>8, <1>9, <1>10, <1>11 DEF orig

\* l.82-86.
LEMMA HomeEffect ==
  ASSUME NEW s, IsScreen(s), NEW n \in Consoles
  PROVE  LET t == Home(s, n, 0)
             cursor == s.con[n].orig + SCR_SIZE - SCR_WIDTH
         IN  /\ Writes(s, t, n) /\ SameRegisters(s, t) /\ cursor \in Area(n)
             /\ t.con[n] = [s.con[n] EXCEPT !.crtc_start = s.con[n].orig, !.cursor = cursor,
                                            !.is_full = TRUE]
             /\ \A x \in Cells : t.vmem[x] = IF x - cursor \in 0 .. SCR_WIDTH - 1
                                             THEN Blank ELSE s.vmem[x]
<1>. DEFINE cursor == s.con[n].orig + SCR_SIZE - SCR_WIDTH
            c == [s.con[n] EXCEPT !.crtc_start = s.con[n].orig, !.cursor = cursor,
                                  !.is_full = TRUE]
            u == [s EXCEPT !.con = [s.con EXCEPT ![n] = c]]
<1>1. /\ s.con[n].orig \in Nat /\ s.con[n].con_size = Start(NrRows)
      /\ Area(n) = s.con[n].orig .. s.con[n].orig + s.con[n].con_size - 1
  BY ConsoleNumbers
<1>2. cursor \in Area(n)
  <2>1. /\ SCR_SIZE \in Nat /\ SCR_WIDTH \in Nat /\ SCR_WIDTH < SCR_SIZE /\ Start(NrRows) \in Nat
        /\ 2 * SCR_SIZE - SCR_WIDTH <= Start(NrRows)
    BY Sizes, RowsFollow
  <2>. QED BY <2>1, <1>1
<1>3. c \in [orig : Int, con_size : Int, cursor : Int, crtc_start : Int, is_full : BOOLEAN]
      /\ c.orig = s.con[n].orig /\ c.con_size = s.con[n].con_size /\ c.cursor = cursor
      /\ c.crtc_start = s.con[n].orig
  <2>1. cursor \in Int
    BY <1>1, <1>2
  <2>2. s.con[n] \in [orig : Int, con_size : Int, cursor : Int, crtc_start : Int, is_full : BOOLEAN]
    BY DEF IsScreen
  <2>. HIDE DEF cursor
  <2>. QED BY <2>1, <2>2
<1>4. s.con[n].orig \in Tops(n)
  <2>1. 0 \in 0 .. NrRows - SCR_ROWS
    BY Sizes
  <2>2. s.con[n].orig = Screen(n).orig + Start(0)
    BY <1>1, RowsFollow, SMTT(60) DEF IsScreen
  <2>. QED BY <2>1, <2>2 DEF Tops
<1>. HIDE DEF cursor, c
<1>5. IsScreen(u) /\ u.con[n] = c /\ u.vmem = s.vmem /\ SameRegisters(s, u)
      /\ \A m \in Consoles \ {n} : u.con[m] = s.con[m]
  BY <1>3, <1>4 DEF IsScreen, SameRegisters
<1>6. Home(s, n, 0) = ClearFromCursor(u, n)
  <2>1. u = [s EXCEPT !.con[n].crtc_start = s.con[n].orig,
                      !.con[n].cursor = s.con[n].orig + SCR_SIZE - SCR_WIDTH + 0,
                      !.con[n].is_full = TRUE]
    <3>1. PICK o \in Nat, z \in Nat, w \in Nat : o = s.con[n].orig /\ z = SCR_SIZE /\ w = SCR_WIDTH
      BY <1>1, Sizes, RowsFollow
    <3>2. o + z - w + 0 = o + z - w
      OBVIOUS
    <3>3. s.con[n].orig + SCR_SIZE - SCR_WIDTH + 0 = cursor
      BY <3>1, <3>2, Zenon DEF cursor
    <3>. QED BY <3>3 DEF c, IsScreen
  <2>. QED BY <2>1 DEF Home
<1>7. u.con[n].cursor = cursor
  BY <1>3, <1>5
<1>. HIDE DEF u
<1>8. Writes(s, u, n)
  BY <1>5 DEF Writes
<1>9. /\ Writes(u, ClearFromCursor(u, n), n) /\ SameRegisters(u, ClearFromCursor(u, n))
      /\ ClearFromCursor(u, n).con = u.con
      /\ \A x \in Cells : ClearFromCursor(u, n).vmem[x] =
           IF x - u.con[n].cursor \in 0 .. SCR_WIDTH - 1 THEN Blank ELSE u.vmem[x]
  BY <1>2, <1>5, <1>7, ClearEffect
<1>10. Writes(s, ClearFromCursor(u, n), n)
  BY <1>8, <1>9, WritesJoin
<1>. QED BY <1>2, <1>5, <1>6, <1>7, <1>9, <1>10 DEF SameRegisters, c, cursor

----------------------------------------------------------------------------
\* The window and the cursor, in rows.

\* Distances add up.
LEMMA StartSum ==
  ASSUME NEW a \in Nat, NEW b \in Nat
  PROVE  Start(a + b) = Start(a) + Start(b)
<1>1. PICK w \in Nat \ {0} : w = SCR_WIDTH
  BY ConsoleAssumption
<1>2. (a + b) * w = a * w + b * w
  BY SMTT(30)
<1>. QED BY <1>1, <1>2, Zenon DEF Start

\* The window of console n begins with row r, the cursor is in row y.
InRows(s, n, r, y) ==
  /\ r \in 0 .. NrRows - SCR_ROWS /\ s.con[n].crtc_start = s.con[n].orig + Start(r)
  /\ y \in 0 .. NrRows - 1 /\ Newest(s.con[n]) = Start(y)
  /\ Start(y) <= Offset(s, n) /\ Offset(s, n) < Start(y) + SCR_WIDTH
  /\ Offset(s, n) \div SCR_WIDTH = y

\* Whether a cursor is in its console.
LEMMA FitsArea ==
  ASSUME NEW s, IsScreen(s), NEW n \in Consoles
  PROVE  /\ CursorFits(s, n) <=> s.con[n].cursor \in Area(n)
         /\ Offset(s, n) = s.con[n].cursor - s.con[n].orig /\ Offset(s, n) \in Int
         /\ CursorFits(s, n) <=> 0 <= Offset(s, n) /\ Offset(s, n) < Start(NrRows)
<1>1. PICK o \in Nat, z \in Nat, c \in Int :
         /\ o = s.con[n].orig /\ z = s.con[n].con_size /\ z = Start(NrRows) /\ c = s.con[n].cursor
         /\ Area(n) = o .. o + z - 1
  BY ConsoleNumbers
<1>2. Offset(s, n) = c - o
  BY <1>1 DEF Offset
<1>3. CursorFits(s, n) <=> c - o \in 0 .. z - 1
  BY <1>1, <1>2 DEF CursorFits
<1>4. c - o \in 0 .. z - 1 <=> c \in Area(n)
  <2>1. c - o \in 0 .. z - 1 <=> c \in o .. o + z - 1
    OBVIOUS
  <2>. QED BY <1>1, <2>1, Zenon
<1>5. c - o \in 0 .. z - 1 <=> 0 <= c - o /\ c - o < z
  BY <1>1, SMTT(60)
<1>6. c - o \in Int
  BY <1>1
<1>. QED BY <1>1, <1>2, <1>3, <1>4, <1>5, <1>6, Zenon

\* There are such rows.
LEMMA RowsExist ==
  ASSUME NEW s, IsScreen(s), NEW n \in Consoles, CursorFits(s, n)
  PROVE  \E r \in 0 .. NrRows - SCR_ROWS, y \in 0 .. NrRows - 1 : InRows(s, n, r, y)
<1>1. PICK r \in 0 .. NrRows - SCR_ROWS : s.con[n].crtc_start = s.con[n].orig + Start(r)
  BY ConsoleNumbers
<1>2. PICK off \in Nat : off = Offset(s, n) /\ off < Start(NrRows)
  BY FitsArea
<1>3. PICK y \in Nat : /\ off \div SCR_WIDTH = y
                       /\ (off \div SCR_WIDTH) * SCR_WIDTH = Start(y)
                       /\ Start(y) <= off /\ off < Start(y) + SCR_WIDTH
  BY RowOfOffset
<1>4. y \in 0 .. NrRows - 1
  <2>1. PICK k \in Nat : k = NrRows
    BY Sizes
  <2>2. k <= y => Start(k) <= Start(y)
    <3>1. k < y => Start(k) + SCR_WIDTH <= Start(y)
      BY RowsFollow
    <3>2. Start(k) \in Nat /\ Start(y) \in Nat /\ SCR_WIDTH \in Nat
      BY RowsFollow
    <3>. QED BY <3>1, <3>2
  <2>3. Start(k) \in Nat /\ Start(y) \in Nat
    BY RowsFollow
  <2>4. ~(k <= y)
    BY <1>2, <1>3, <2>1, <2>2, <2>3
  <2>. QED BY <2>1, <2>4
<1>5. Newest(s.con[n]) = Start(y)
  <2>1. Newest(s.con[n]) = (off \div SCR_WIDTH) * SCR_WIDTH
    BY <1>2, Zenon DEF Newest, Offset
  <2>. QED BY <2>1, <1>3
<1>6. InRows(s, n, r, y)
  BY <1>1, <1>2, <1>3, <1>4, <1>5, Zenon DEF InRows
<1>. QED BY <1>4, <1>6

\* The order of rows.
LEMMA RowOrder ==
  ASSUME NEW r \in Nat, NEW q \in Nat
  PROVE  /\ Start(r) \in Nat /\ Start(q) \in Nat
         /\ r <= q <=> Start(r) <= Start(q)
         /\ r <= q <=> Start(r) < Start(q) + SCR_WIDTH
         /\ r = q <=> Start(r) = Start(q)
<1>1. Start(r) \in Nat /\ Start(q) \in Nat /\ SCR_WIDTH \in Nat \ {0}
  BY RowsFollow
<1>2. r < q => Start(r) + SCR_WIDTH <= Start(q)
  BY RowsFollow
<1>3. q < r => Start(q) + SCR_WIDTH <= Start(r)
  BY RowsFollow
<1>. QED BY <1>1, <1>2, <1>3

\* l.90, in rows.
LEMMA WindowRows ==
  ASSUME NEW s, IsScreen(s), NEW n \in Consoles, NEW r, NEW y, InRows(s, n, r, y)
  PROVE  /\ InWindow(s.con[n]) <=> r <= y /\ y < r + SCR_ROWS
         /\ s.con[n].crtc_start <= s.con[n].cursor <=> r <= y
<1>1. PICK o \in Nat, c \in Int : o = s.con[n].orig /\ c = s.con[n].cursor /\ Offset(s, n) = c - o
  BY ConsoleNumbers, FitsArea
<1>2. r \in Nat /\ y \in Nat /\ SCR_ROWS \in Nat
  BY Sizes DEF InRows
<1>3. PICK sr \in Nat, sy \in Nat, w \in Nat, sz \in Nat :
         sr = Start(r) /\ sy = Start(y) /\ w = SCR_WIDTH /\ sz = SCR_SIZE
  BY <1>2, RowsFollow, Sizes
<1>4. s.con[n].crtc_start = o + sr /\ sy <= c - o /\ c - o < sy + w
  BY <1>1, <1>3 DEF InRows
<1>5. r <= y <=> sr < sy + w
  BY <1>2, <1>3, RowOrder
<1>6. r <= y <=> sr <= sy
  BY <1>2, <1>3, RowOrder
<1>7. r + SCR_ROWS <= y <=> sr + sz <= sy
  <2>1. r + SCR_ROWS \in Nat /\ Start(r + SCR_ROWS) = sr + sz
    BY <1>2, <1>3, StartSum, Sizes
  <2>2. r + SCR_ROWS <= y <=> Start(r + SCR_ROWS) <= Start(y)
    BY <1>2, <2>1, RowOrder
  <2>. QED BY <2>1, <2>2, <1>3
<1>8. r + SCR_ROWS <= y <=> sr + sz < sy + w
  <2>1. r + SCR_ROWS \in Nat /\ Start(r + SCR_ROWS) = sr + sz
    BY <1>2, <1>3, StartSum, Sizes
  <2>2. r + SCR_ROWS <= y <=> Start(r + SCR_ROWS) < Start(y) + SCR_WIDTH
    BY <1>2, <2>1, RowOrder
  <2>. QED BY <2>1, <2>2, <1>3
<1>9. InWindow(s.con[n]) <=> o + sr <= c /\ c <= o + sr + sz - 1
  BY <1>1, <1>3, <1>4 DEF InWindow
<1>. QED BY <1>1, <1>2, <1>3, <1>4, <1>5, <1>6, <1>7, <1>8, <1>9
\* scroll_screen(), in rows.
UpRow(full, r, y) ==
  IF full THEN IF r + SCR_ROWS - 1 = y THEN r ELSE IF r + SCR_ROWS = NrRows THEN 0 ELSE r + 1
  ELSE IF r + SCR_ROWS <= y THEN r + 1 ELSE r

\* The row it moves the window to.
LEMMA ScrollUpRows ==
  ASSUME NEW s, IsScreen(s), NEW n \in Consoles, NEW r, NEW y, InRows(s, n, r, y)
  PROVE  /\ UpRow(s.con[n].is_full, r, y) \in 0 .. NrRows - SCR_ROWS
         /\ ScrollUp(s.con[n]) = s.con[n].orig + Start(UpRow(s.con[n].is_full, r, y))
<1>1. PICK o \in Nat, z \in Nat, full \in BOOLEAN :
         o = s.con[n].orig /\ z = s.con[n].con_size /\ z = Start(NrRows) /\ full = s.con[n].is_full
  BY ConsoleNumbers
<1>2. PICK k \in Nat, rows \in Nat : /\ k = SCR_ROWS /\ k > 1 /\ rows = NrRows /\ rows >= 2 * k - 1
  BY Sizes
<1>3. r \in Nat /\ r <= rows - k /\ y \in Nat /\ y <= rows - 1
  BY <1>2 DEF InRows
<1>4. PICK sr \in Nat, sy \in Nat, w \in Nat, sz \in Nat :
         sr = Start(r) /\ sy = Start(y) /\ w = SCR_WIDTH /\ sz = SCR_SIZE
  BY <1>3, RowsFollow, Sizes
<1>5. /\ s.con[n].crtc_start = o + sr /\ s.con[n].crtc_start - o = sr
      /\ Newest(s.con[n]) = sy
  <2>1. s.con[n].crtc_start = o + sr /\ Newest(s.con[n]) = sy
    BY <1>1, <1>4 DEF InRows
  <2>2. (o + sr) - o = sr
    OBVIOUS
  <2>. QED BY <2>1, <2>2
<1>6. /\ r + k \in Nat /\ Start(r + k) = sr + sz
      /\ r + k - 1 \in Nat /\ Start(r + k - 1) = sr + sz - w
  <2>1. Start(r + k) = sr + sz
    BY <1>2, <1>3, <1>4, StartSum, Sizes
  <2>2. k - 1 \in Nat /\ r + k - 1 = r + (k - 1)
    BY <1>2, <1>3
  <2>3. Start(r + (k - 1)) = sr + Start(k - 1)
    BY <1>3, <1>4, <2>2, StartSum
  <2>4. Start(k - 1) = sz - w
    BY <1>2, <1>4, Sizes
  <2>. QED BY <2>1, <2>2, <2>3, <2>4, <1>2, <1>3, <1>4
<1>7. r + k <= y <=> sr + sz <= sy
  BY <1>3, <1>4, <1>6, RowOrder
<1>8. r + k - 1 = y <=> sr + sz - w = sy
  BY <1>3, <1>4, <1>6, RowOrder
<1>9. r + k = rows <=> sr + sz = z
  BY <1>1, <1>2, <1>6, RowOrder
<1>10. Start(r + 1) = sr + w /\ Start(0) = 0
  BY <1>3, <1>4, NextRow, RowsFollow
<1>11. UpRow(full, r, y) \in 0 .. rows - k
  BY <1>2, <1>3 DEF UpRow
<1>12. ScrollUp(s.con[n]) = CASE ~full /\ sy >= sr + sz -> o + sr + w
                              [] full /\ sr + sz - w # sy -> IF sr + sz = z THEN o ELSE o + sr + w
                              [] OTHER -> o + sr
  BY <1>1, <1>4, <1>5 DEF ScrollUp
<1>13. CASE full
  <2>1. ScrollUp(s.con[n]) = IF sr + sz - w # sy THEN IF sr + sz = z THEN o ELSE o + sr + w ELSE o + sr
    BY <1>12, <1>13
  <2>2. UpRow(full, r, y) = IF r + k - 1 = y THEN r ELSE IF r + k = rows THEN 0 ELSE r + 1
    BY <1>13, <1>2 DEF UpRow
  <2>3. CASE r + k - 1 = y
    BY <2>1, <2>2, <2>3, <1>1, <1>2, <1>4, <1>8, <1>11
  <2>4. CASE r + k - 1 # y /\ r + k = rows
    BY <2>1, <2>2, <2>4, <1>1, <1>2, <1>8, <1>9, <1>10, <1>11
  <2>5. CASE r + k - 1 # y /\ r + k # rows
    BY <2>1, <2>2, <2>5, <1>1, <1>2, <1>8, <1>9, <1>10, <1>11
  <2>. QED BY <2>3, <2>4, <2>5
<1>14. CASE ~full
  <2>1. ScrollUp(s.con[n]) = IF sr + sz <= sy THEN o + sr + w ELSE o + sr
    BY <1>12, <1>14
  <2>2. UpRow(full, r, y) = IF r + k <= y THEN r + 1 ELSE r
    BY <1>14, <1>2 DEF UpRow
  <2>3. CASE r + k <= y
    BY <2>1, <2>2, <2>3, <1>1, <1>2, <1>7, <1>10, <1>11
  <2>4. CASE ~(r + k <= y)
    BY <2>1, <2>2, <2>4, <1>1, <1>2, <1>4, <1>7, <1>11
  <2>. QED BY <2>3, <2>4
<1>. QED BY <1>13, <1>14

\* The window is never above the place where the last rows written fill the screen, but
\* for the k cells that '\b' may take back.
NotPast(c, k) ==
  c.is_full \/ c.crtc_start = c.orig \/ c.crtc_start + SCR_SIZE - SCR_WIDTH <= c.cursor + k

\* Scrolled anywhere.
LEMMA ScrolledWithin ==
  ASSUME NEW s, IsScreen(s), NEW n \in Consoles, CursorFits(s, n), NEW dir
  PROVE  /\ Scrolled(s.con[n], dir) \in Tops(n) /\ Scrolled(s.con[n], dir) \in Int
         /\ \A k \in Nat : NotPast(s.con[n], k)
              => NotPast([s.con[n] EXCEPT !.crtc_start = Scrolled(s.con[n], dir)], k)
<1>1. PICK r \in 0 .. NrRows - SCR_ROWS, y \in 0 .. NrRows - 1 : InRows(s, n, r, y)
  BY RowsExist
<1>2. PICK o \in Nat, z \in Nat, c \in Int, full \in BOOLEAN, off \in Nat :
         /\ o = s.con[n].orig /\ z = s.con[n].con_size /\ z = Start(NrRows)
         /\ c = s.con[n].cursor /\ full = s.con[n].is_full /\ off = Offset(s, n) /\ off = c - o
  <2>1. /\ s.con[n].orig \in Nat /\ s.con[n].con_size = Start(NrRows) /\ s.con[n].con_size \in Nat
        /\ s.con[n].cursor \in Int /\ s.con[n].is_full \in BOOLEAN
    BY ConsoleNumbers
  <2>2. Offset(s, n) \in Nat /\ Offset(s, n) = s.con[n].cursor - s.con[n].orig
    BY FitsArea
  <2>. QED BY <2>1, <2>2
<1>3. PICK k \in Nat, rows \in Nat : /\ k = SCR_ROWS /\ k > 1 /\ rows = NrRows /\ rows >= 2 * k - 1
  BY Sizes
<1>4. PICK sr \in Nat, sy \in Nat, w \in Nat, sz \in Nat :
         sr = Start(r) /\ sy = Start(y) /\ w = SCR_WIDTH /\ sz = SCR_SIZE
  <2>1. r \in Nat /\ y \in Nat
    BY <1>3
  <2>. QED BY <2>1, RowsFollow, Sizes
<1>5. /\ s.con[n].crtc_start = o + sr /\ s.con[n].crtc_start - o = sr
      /\ sy <= off /\ off < sy + w
  <2>1. s.con[n].crtc_start = o + sr /\ sy <= off /\ off < sy + w
    BY <1>1, <1>2, <1>4 DEF InRows
  <2>2. (o + sr) - o = sr
    OBVIOUS
  <2>. QED BY <2>1, <2>2
<1>6. \A q \in 0 .. rows - k : o + Start(q) \in Tops(n)
  <2>1. Screen(n).orig = o
    BY <1>2, ConsoleNumbers
  <2>. QED BY <2>1, <1>3 DEF Tops
<1>7. s.con[n].crtc_start \in Tops(n)
  BY DEF IsScreen
<1>. DEFINE new == Scrolled(s.con[n], dir)
<1>8. ASSUME dir = SCR_DN
      PROVE  new \in Tops(n) /\ (~full => \/ new <= o + sr /\ (sr = 0 => new = o + sr)
                                          \/ new + sz - w <= c)
  <2>1. new = ScrollDown(s.con[n])
    BY <1>8 DEF Scrolled
  <2>2. \/ sr > 0 /\ new = o + sr - w
        \/ sr = 0 /\ full /\ new = o + z - sz
        \/ new = o + sr
    BY <2>1, <1>2, <1>4, <1>5 DEF ScrollDown
  <2>3. ASSUME sr > 0 PROVE r - 1 \in 0 .. rows - k /\ Start(r - 1) = sr - w
    <3>1. r # 0
      BY <1>4, <2>3, RowsFollow
    <3>2. r - 1 \in Nat /\ r - 1 <= rows - k /\ (r - 1) + 1 = r
      BY <3>1, <1>3
    <3>3. Start((r - 1) + 1) = Start(r - 1) + w
      BY <3>2, <1>4, NextRow
    <3>4. Start(r - 1) \in Nat
      BY <3>2, RowsFollow
    <3>. QED BY <3>2, <3>3, <3>4, <1>3, <1>4
  <2>4. rows - k \in 0 .. rows - k /\ Start(rows - k) = z - sz
    BY <1>2, <1>3, <1>4, Sizes
  <2>5. new \in Tops(n)
    <3>1. CASE sr > 0 /\ new = o + sr - w
      <4>1. new = o + Start(r - 1)
        BY <3>1, <2>3, <1>4
      <4>. HIDE DEF new
      <4>. QED BY <4>1, <3>1, <2>3, <1>6
    <3>2. CASE sr = 0 /\ full /\ new = o + z - sz
      <4>1. new = o + Start(rows - k)
        BY <3>2, <2>4, <1>2, <1>4
      <4>. HIDE DEF new
      <4>. QED BY <4>1, <2>4, <1>6
    <3>3. CASE new = o + sr
      BY <3>3, <1>5, <1>7
    <3>. QED BY <3>1, <3>2, <3>3, <2>2
  <2>6. ~full => new <= o + sr /\ (sr = 0 => new = o + sr)
    <3>. HIDE DEF new
    <3>. QED BY <2>2, <1>4
  <2>. QED BY <2>5, <2>6
<1>9. ASSUME dir # SCR_DN
      PROVE  new \in Tops(n) /\ (~full => \/ new <= o + sr /\ (sr = 0 => new = o + sr)
                                          \/ new + sz - w <= c)
  <2>1. new = ScrollUp(s.con[n])
    BY <1>9 DEF Scrolled
  <2>2. PICK q \in 0 .. rows - k : q = UpRow(full, r, y) /\ new = o + Start(q)
    <3>1. /\ UpRow(full, r, y) \in 0 .. rows - k
          /\ ScrollUp(s.con[n]) = o + Start(UpRow(full, r, y))
      BY <1>1, <1>2, <1>3, ScrollUpRows
    <3>. QED BY <2>1, <3>1
  <2>3. new \in Tops(n)
    <3>. HIDE DEF new
    <3>. QED BY <2>2, <1>6
  <2>4. ~full => new = o + sr \/ new + sz - w <= c
    <3>1. ASSUME ~full, r + k <= y PROVE Start(r + 1) + sz - w <= off
      <4>1. Start(r + k) <= sy /\ Start(r + k) = sr + sz
        <5>1. r + k \in Nat /\ y \in Nat
          BY <1>3
        <5>2. Start(r + k) = sr + sz
          BY <1>3, <1>4, StartSum, Sizes
        <5>. QED BY <5>1, <5>2, <3>1, <1>4, RowOrder
      <4>2. Start(r + 1) = sr + w
        BY <1>3, <1>4, NextRow
      <4>. QED BY <4>1, <4>2, <1>4, <1>5
    <3>2. ASSUME ~full PROVE (r + k <= y /\ q = r + 1) \/ q = r
      BY <3>2, <2>2, <1>3 DEF UpRow
    <3>3. ASSUME ~full, q = r PROVE new = o + sr
      BY <2>2, <3>3, <1>4
    <3>4. ASSUME ~full, r + k <= y, q = r + 1 PROVE new + sz - w <= c
      <4>1. Start(r + 1) + sz - w <= off /\ Start(r + 1) = sr + w
        BY <3>1, <3>4, <1>3, <1>4, NextRow
      <4>2. new = o + (sr + w)
        BY <2>2, <3>4, <4>1
      <4>. HIDE DEF new
      <4>. QED BY <4>1, <4>2, <1>2, <1>4
    <3>. QED BY <3>2, <3>3, <3>4
  <2>. HIDE DEF new
  <2>. QED BY <2>3, <2>4, <1>4
<1>10. new \in Tops(n)
  BY <1>8, <1>9
<1>. HIDE DEF new
<1>11. new \in Int
  <2>1. \A q \in 0 .. rows - k : Start(q) \in Nat
    BY <1>3, RowsFollow
  <2>2. Screen(n).orig = o
    BY <1>2, ConsoleNumbers
  <2>3. PICK q \in 0 .. rows - k : new = o + Start(q)
    BY <1>10, <1>3, <2>2 DEF Tops
  <2>. QED BY <2>1, <2>3
<1>12. ~full => \/ new <= o + sr /\ (sr = 0 => new = o + sr)
                \/ new + sz - w <= c
  BY <1>8, <1>9
<1>13. ASSUME NEW j \in Nat, NotPast(s.con[n], j)
       PROVE  NotPast([s.con[n] EXCEPT !.crtc_start = new], j)
  <2>1. full \/ o + sr = o \/ o + sr + sz - w <= c + j
    BY <1>13, <1>2, <1>4, <1>5, Zenon DEF NotPast
  <2>2. full \/ new = o \/ new + sz - w <= c + j
    BY <2>1, <1>12, <1>11, <1>2, <1>4
  <2>3. [s.con[n] EXCEPT !.crtc_start = new].is_full = full
        /\ [s.con[n] EXCEPT !.crtc_start = new].crtc_start = new
        /\ [s.con[n] EXCEPT !.crtc_start = new].orig = o
        /\ [s.con[n] EXCEPT !.crtc_start = new].cursor = c
    <3>1. s.con[n] \in [orig : Int, con_size : Int, cursor : Int, crtc_start : Int, is_full : BOOLEAN]
      BY DEF IsScreen
    <3>. QED BY <3>1, <1>2
  <2>. QED BY <2>2, <2>3, <1>4, Zenon DEF NotPast
<1>. QED BY <1>10, <1>11, <1>13 DEF new
----------------------------------------------------------------------------
\* The loop of l.90-93.

\* flush(con).
LEMMA FlushEffect ==
  ASSUME NEW s, IsScreen(s), NEW n \in Consoles
  PROVE  LET t == Flushed(s, n)
         IN  /\ IsScreen(t) /\ t.vmem = s.vmem /\ t.con = s.con /\ Writes(s, t, n)
             /\ n # current => SameRegisters(s, t)
             /\ n = current => t.cursor = s.con[n].cursor /\ t.start = s.con[n].crtc_start
<1>1. s.con[n].cursor \in Int /\ s.con[n].crtc_start \in Int
  BY ConsoleNumbers
<1>2. CASE n = current
  <2>1. Flushed(s, n) = [s EXCEPT !.cursor = s.con[n].cursor, !.start = s.con[n].crtc_start]
    BY <1>2 DEF Flushed
  <2>. QED BY <2>1, <1>1, <1>2 DEF IsScreen, Writes
<1>3. CASE n # current
  BY <1>3 DEF Flushed, SameRegisters, Writes
<1>. QED BY <1>2, <1>3

\* The store into crtc_start.
LEMMA ScrollEffect ==
  ASSUME NEW s, IsScreen(s), NEW n \in Consoles, NEW top \in Tops(n), top \in Int
  PROVE  LET t == [s EXCEPT !.con[n].crtc_start = top]
         IN  /\ Writes(s, t, n) /\ SameRegisters(s, t) /\ t.vmem = s.vmem
             /\ t.con[n] = [s.con[n] EXCEPT !.crtc_start = top]
<1>. DEFINE c == [s.con[n] EXCEPT !.crtc_start = top]
            con == [s.con EXCEPT ![n] = c]
            t == [s EXCEPT !.con = con]
<1>1. t = [s EXCEPT !.con[n].crtc_start = top]
  OBVIOUS
<1>2. /\ c \in [orig : Int, con_size : Int, cursor : Int, crtc_start : Int, is_full : BOOLEAN]
      /\ c.orig = s.con[n].orig /\ c.con_size = s.con[n].con_size /\ c.crtc_start = top
  BY DEF IsScreen
<1>. HIDE DEF c
<1>3. /\ con \in [Consoles -> [orig : Int, con_size : Int, cursor : Int, crtc_start : Int,
                               is_full : BOOLEAN]]
      /\ con[n] = c /\ \A m \in Consoles \ {n} : con[m] = s.con[m]
  BY <1>2 DEF IsScreen
<1>. HIDE DEF con
<1>4. t.vmem = s.vmem /\ t.con = con /\ SameRegisters(s, t)
      /\ t \in [vmem : [Cells -> {Blank, Letter}],
            con : [Consoles -> [orig : Int, con_size : Int, cursor : Int,
                                crtc_start : Int, is_full : BOOLEAN]],
            cursor : Int, start : Int]
  BY <1>3 DEF IsScreen, SameRegisters
<1>. HIDE DEF t
<1>5. IsScreen(t)
  BY <1>2, <1>3, <1>4 DEF IsScreen
<1>6. Writes(s, t, n) /\ t.con[n] = c
  BY <1>3, <1>4, <1>5 DEF Writes
<1>. QED BY <1>1, <1>4, <1>6 DEF c

\* One turn.
LEMMA TurnEffect ==
  ASSUME NEW s, IsScreen(s), NEW n \in Consoles, CursorFits(s, n)
  PROVE  LET t == FollowCursor(s, n)
         IN  /\ Writes(s, t, n)
             /\ n # current => SameRegisters(s, t)
             /\ t.con[n] = [s.con[n] EXCEPT !.crtc_start = ScrollUp(s.con[n])]
             /\ \A k \in Nat : NotPast(s.con[n], k) => NotPast(t.con[n], k)
             /\ \A x \in Cells : t.vmem[x] = IF x - s.con[n].cursor \in 0 .. SCR_WIDTH - 1
                                             THEN Blank ELSE s.vmem[x]
<1>. DEFINE top == ScrollUp(s.con[n])
            u == [s EXCEPT !.con[n].crtc_start = top]
            v == Flushed(u, n)
<1>1. /\ top \in Tops(n) /\ top \in Int
      /\ \A k \in Nat : NotPast(s.con[n], k)
           => NotPast([s.con[n] EXCEPT !.crtc_start = top], k)
  <2>1. Scrolled(s.con[n], SCR_UP) = top
    BY DEF Scrolled, SCR_UP, SCR_DN
  <2>2. /\ Scrolled(s.con[n], SCR_UP) \in Tops(n) /\ Scrolled(s.con[n], SCR_UP) \in Int
        /\ \A k \in Nat : NotPast(s.con[n], k)
             => NotPast([s.con[n] EXCEPT !.crtc_start = Scrolled(s.con[n], SCR_UP)], k)
    BY ScrolledWithin
  <2>. HIDE DEF top
  <2>. QED BY <2>1, <2>2
<1>2. FollowCursor(s, n) = ClearFromCursor(v, n)
  <2>1. Scrolled(s.con[n], SCR_UP) = top
    BY DEF Scrolled, SCR_UP, SCR_DN
  <2>. QED BY <2>1 DEF FollowCursor, scroll_screen
<1>. HIDE DEF top
<1>3. /\ Writes(s, u, n) /\ SameRegisters(s, u) /\ u.vmem = s.vmem
      /\ u.con[n] = [s.con[n] EXCEPT !.crtc_start = top]
  BY <1>1, ScrollEffect
<1>. HIDE DEF u
<1>4. IsScreen(u)
  BY <1>3 DEF Writes
<1>5. /\ IsScreen(v) /\ v.vmem = u.vmem /\ v.con = u.con /\ Writes(u, v, n)
      /\ n # current => SameRegisters(u, v)
  BY <1>4, FlushEffect
<1>. HIDE DEF v
<1>6. v.con[n].cursor \in Area(n) /\ v.con[n].cursor = s.con[n].cursor
  <2>1. s.con[n].cursor \in Area(n)
    BY FitsArea
  <2>2. s.con[n] \in [orig : Int, con_size : Int, cursor : Int, crtc_start : Int, is_full : BOOLEAN]
    BY DEF IsScreen
  <2>. QED BY <2>1, <2>2, <1>3, <1>5
<1>7. /\ Writes(v, ClearFromCursor(v, n), n) /\ SameRegisters(v, ClearFromCursor(v, n))
      /\ ClearFromCursor(v, n).con = v.con
      /\ \A x \in Cells : ClearFromCursor(v, n).vmem[x] =
           IF x - v.con[n].cursor \in 0 .. SCR_WIDTH - 1 THEN Blank ELSE v.vmem[x]
  BY <1>5, <1>6, ClearEffect
<1>8. Writes(s, v, n)
  BY <1>3, <1>5, WritesJoin
<1>9. Writes(s, ClearFromCursor(v, n), n)
  BY <1>7, <1>8, WritesJoin
<1>10. n # current => SameRegisters(s, ClearFromCursor(v, n))
  BY <1>3, <1>5, <1>7 DEF SameRegisters
<1>11. ClearFromCursor(v, n).con[n] = [s.con[n] EXCEPT !.crtc_start = top]
  BY <1>3, <1>5, <1>7
<1>. QED BY <1>1, <1>2, <1>3, <1>5, <1>6, <1>7, <1>9, <1>10, <1>11 DEF top

\* How many turns it takes a window at row r to reach a cursor in row y.
TurnsLeft(r, y) ==
  IF y >= r THEN IF y >= r + SCR_ROWS THEN y - (r + SCR_ROWS - 1) ELSE 0
  ELSE (NrRows - SCR_ROWS - r) + 1 + (IF y >= SCR_ROWS THEN y - (SCR_ROWS - 1) ELSE 0)

\* Each turn is one less.
LEMMA TurnsShrink ==
  ASSUME NEW r \in 0 .. NrRows - SCR_ROWS, NEW y \in 0 .. NrRows - 1, NEW full \in BOOLEAN,
         full \/ r <= y
  PROVE  /\ TurnsLeft(r, y) \in 0 .. NrRows
         /\ TurnsLeft(r, y) = 0 <=> r <= y /\ y < r + SCR_ROWS
         /\ TurnsLeft(r, y) > 0 => /\ TurnsLeft(UpRow(full, r, y), y) = TurnsLeft(r, y) - 1
                                   /\ full \/ UpRow(full, r, y) <= y
<1>1. PICK k \in Nat, rows \in Nat : /\ k = SCR_ROWS /\ k > 1 /\ rows = NrRows /\ rows >= 2 * k - 1
  BY Sizes
<1>2. r \in Nat /\ r <= rows - k /\ y \in Nat /\ y <= rows - 1
  BY <1>1
<1>. DEFINE Turns(q) == IF y >= q THEN IF y >= q + k THEN y - (q + k - 1) ELSE 0
                        ELSE (rows - k - q) + 1 + (IF y >= k THEN y - (k - 1) ELSE 0)
            up == IF full THEN IF r + k - 1 = y THEN r ELSE IF r + k = rows THEN 0 ELSE r + 1
                  ELSE IF r + k <= y THEN r + 1 ELSE r
<1>3. Turns(r) \in 0 .. rows /\ (Turns(r) = 0 <=> r <= y /\ y < r + k)
  BY <1>1, <1>2
<1>4. Turns(r) > 0 => Turns(up) = Turns(r) - 1
  BY <1>1, <1>2
<1>5. Turns(r) > 0 => full \/ up <= y
  BY <1>1, <1>2
<1>6. UpRow(full, r, y) = up
  BY <1>1 DEF UpRow
<1>7. \A q : TurnsLeft(q, y) = Turns(q)
  BY <1>1, Zenon DEF TurnsLeft
<1>. HIDE DEF Turns, up
<1>8. TurnsLeft(r, y) = Turns(r) /\ TurnsLeft(UpRow(full, r, y), y) = Turns(up)
  BY <1>6, <1>7, Zenon
<1>. QED BY <1>1, <1>3, <1>4, <1>5, <1>6, <1>8, Zenon
\* f is the states of the loop of l.90-93, from s on.
IsLoopOf(f, s, n, N) == f = [k \in 0 .. N |-> IF k = 0 THEN s ELSE OneTurn(f[k - 1], n)]

\* There is one.
LEMMA LoopOfExists ==
  ASSUME NEW s, NEW n, NEW N \in Nat
  PROVE  \E f : IsLoopOf(f, s, n, N)
<1>. DEFINE P == {m \in 0 .. N : \E f : IsLoopOf(f, s, n, m)}
<1>1. 0 \in P
  <2>1. IsLoopOf([k \in 0 .. 0 |-> s], s, n, 0)
    BY DEF IsLoopOf
  <2>. QED BY <2>1
<1>2. ASSUME NEW m \in 1 .. N, m - 1 \in P PROVE m \in P
  <2>1. PICK f : IsLoopOf(f, s, n, m - 1)
    BY <1>2
  <2>. DEFINE g == [k \in 0 .. m |-> IF k < m THEN f[k] ELSE OneTurn(f[m - 1], n)]
  <2>2. ASSUME NEW k \in 0 .. m
        PROVE  g[k] = IF k = 0 THEN s ELSE OneTurn(g[k - 1], n)
    <3>1. CASE k = m
      <4>1. g[k] = OneTurn(f[m - 1], n) /\ g[m - 1] = f[m - 1] /\ k # 0
        BY <3>1
      <4>. QED BY <3>1, <4>1
    <3>2. CASE k < m
      <4>1. k \in 0 .. m - 1 /\ g[k] = f[k]
        BY <3>2
      <4>2. f[k] = IF k = 0 THEN s ELSE OneTurn(f[k - 1], n)
        BY <4>1, <2>1 DEF IsLoopOf
      <4>3. k # 0 => g[k - 1] = f[k - 1]
        BY <3>2
      <4>. QED BY <4>1, <4>2, <4>3
    <3>. QED BY <3>1, <3>2
  <2>3. IsLoopOf(g, s, n, m)
    <3>1. g = [k \in 0 .. m |-> g[k]]
      OBVIOUS
    <3>. HIDE DEF g
    <3>2. [k \in 0 .. m |-> g[k]]
          = [k \in 0 .. m |-> IF k = 0 THEN s ELSE OneTurn(g[k - 1], n)]
      BY <2>2
    <3>. QED BY <3>1, <3>2 DEF IsLoopOf
  <2>. QED BY <2>3
<1>. HIDE DEF P
<1>3. 0 .. N \subseteq P
  BY <1>1, <1>2, CountUp
<1>. QED BY <1>3 DEF P

\* Followed is what its definition says.
LEMMA FollowedIs ==
  ASSUME NEW s, IsScreen(s), NEW n \in Consoles
  PROVE  \E f : /\ f[0] = s /\ Followed(s, n) = f[Start(NrRows)]
                /\ \A k \in 1 .. Start(NrRows) : f[k] = OneTurn(f[k - 1], n)
<1>1. PICK N \in Nat : N = s.con[n].con_size /\ N = Start(NrRows)
  BY ConsoleNumbers
<1>2. \E f : IsLoopOf(f, s, n, N)
  BY LoopOfExists
<1>. DEFINE f == CHOOSE f : IsLoopOf(f, s, n, N)
<1>3. IsLoopOf(f, s, n, N)
  BY <1>2, Zenon
<1>4. Followed(s, n) = f[N]
  BY <1>1, Zenon DEF Followed, IsLoopOf
<1>. HIDE DEF f
<1>5. f[0] = s /\ \A k \in 1 .. N : f[k] = OneTurn(f[k - 1], n)
  <2>1. ASSUME NEW k \in 0 .. N PROVE f[k] = IF k = 0 THEN s ELSE OneTurn(f[k - 1], n)
    BY <1>3 DEF IsLoopOf
  <2>2. 0 \in 0 .. N
    OBVIOUS
  <2>3. ASSUME NEW k \in 1 .. N PROVE f[k] = OneTurn(f[k - 1], n)
    <3>1. k \in 0 .. N /\ k # 0
      OBVIOUS
    <3>. QED BY <2>1, <3>1
  <2>. QED BY <2>1, <2>2, <2>3
<1>. QED BY <1>1, <1>4, <1>5

\* What the loop leaves alone.
Follows(s, t, n) ==
  /\ Writes(s, t, n)
  /\ n # current => SameRegisters(s, t)
  /\ t.con[n] = [s.con[n] EXCEPT !.crtc_start = t.con[n].crtc_start]
  /\ \A k \in Nat : NotPast(s.con[n], k) => NotPast(t.con[n], k)

\* A screen on which only the window of console n differs.
LEMMA FollowsFacts ==
  ASSUME NEW s, IsScreen(s), NEW n \in Consoles, NEW t, Follows(s, t, n)
  PROVE  /\ IsScreen(t) /\ Offset(t, n) = Offset(s, n) /\ Newest(t.con[n]) = Newest(s.con[n])
         /\ t.con[n].is_full = s.con[n].is_full /\ t.con[n].cursor = s.con[n].cursor
         /\ CursorFits(s, n) => CursorFits(t, n)
<1>1. IsScreen(t)
  BY DEF Follows, Writes
<1>2. s.con[n] \in [orig : Int, con_size : Int, cursor : Int, crtc_start : Int, is_full : BOOLEAN]
  BY DEF IsScreen
<1>3. /\ t.con[n].is_full = s.con[n].is_full /\ t.con[n].cursor = s.con[n].cursor
      /\ t.con[n].orig = s.con[n].orig /\ t.con[n].con_size = s.con[n].con_size
  BY <1>2 DEF Follows
<1>4. Offset(t, n) = Offset(s, n) /\ Newest(t.con[n]) = Newest(s.con[n])
  BY <1>3, Zenon DEF Offset, Newest
<1>5. CursorFits(s, n) => CursorFits(t, n)
  BY <1>3, <1>4, Zenon DEF CursorFits
<1>. QED BY <1>1, <1>3, <1>4, <1>5

\* Following on.
LEMMA FollowsJoin ==
  ASSUME NEW s, IsScreen(s), NEW n \in Consoles, NEW t, Follows(s, t, n), NEW u, Follows(t, u, n)
  PROVE  Follows(s, u, n)
<1>1. Writes(s, u, n)
  BY WritesJoin DEF Follows
<1>2. n # current => SameRegisters(s, u)
  BY DEF Follows, SameRegisters
<1>3. u.con[n] = [s.con[n] EXCEPT !.crtc_start = u.con[n].crtc_start]
  <2>1. s.con[n] \in [orig : Int, con_size : Int, cursor : Int, crtc_start : Int, is_full : BOOLEAN]
    BY DEF IsScreen
  <2>2. u.con[n] = [t.con[n] EXCEPT !.crtc_start = u.con[n].crtc_start]
        /\ t.con[n] = [s.con[n] EXCEPT !.crtc_start = t.con[n].crtc_start]
    BY DEF Follows
  <2>. QED BY <2>1, <2>2
<1>4. \A k \in Nat : NotPast(s.con[n], k) => NotPast(u.con[n], k)
  BY DEF Follows
<1>. QED BY <1>1, <1>2, <1>3, <1>4 DEF Follows

\* Nothing written.
LEMMA FollowsSelf ==
  ASSUME NEW s, IsScreen(s), NEW n \in Consoles
  PROVE  Follows(s, s, n)
<1>1. s.con[n] \in [orig : Int, con_size : Int, cursor : Int, crtc_start : Int, is_full : BOOLEAN]
  BY DEF IsScreen
<1>2. s.con[n] = [s.con[n] EXCEPT !.crtc_start = s.con[n].crtc_start]
  BY <1>1
<1>3. Writes(s, s, n) /\ SameRegisters(s, s)
  BY DEF Writes, SameRegisters
<1>. QED BY <1>2, <1>3 DEF Follows

\* One turn, or none when the window holds the cursor, in rows.
LEMMA TurnFollows ==
  ASSUME NEW s, IsScreen(s), NEW n \in Consoles, CursorFits(s, n)
  PROVE  /\ Follows(s, OneTurn(s, n), n)
         /\ \A r \in 0 .. NrRows - SCR_ROWS, y \in 0 .. NrRows - 1 :
              InRows(s, n, r, y) =>
                InRows(OneTurn(s, n), n,
                       IF r <= y /\ y < r + SCR_ROWS THEN r ELSE UpRow(s.con[n].is_full, r, y), y)
<1>. DEFINE t == OneTurn(s, n)
<1>1. CASE InWindow(s.con[n])
  <2>1. t = s
    BY <1>1 DEF OneTurn
  <2>2. Follows(s, t, n)
    BY <2>1, FollowsSelf
  <2>3. ASSUME NEW r \in 0 .. NrRows - SCR_ROWS, NEW y \in 0 .. NrRows - 1, InRows(s, n, r, y)
        PROVE  r <= y /\ y < r + SCR_ROWS
    BY <1>1, <2>3, WindowRows
  <2>. QED BY <2>1, <2>2, <2>3
<1>2. CASE ~InWindow(s.con[n])
  <2>1. t = FollowCursor(s, n)
    BY <1>2 DEF OneTurn
  <2>2. /\ Writes(s, t, n)
        /\ n # current => SameRegisters(s, t)
        /\ t.con[n] = [s.con[n] EXCEPT !.crtc_start = ScrollUp(s.con[n])]
        /\ \A k \in Nat : NotPast(s.con[n], k) => NotPast(t.con[n], k)
    BY <2>1, TurnEffect
  <2>. HIDE DEF t
  <2>3. s.con[n] \in [orig : Int, con_size : Int, cursor : Int, crtc_start : Int, is_full : BOOLEAN]
    BY DEF IsScreen
  <2>4. t.con[n].crtc_start = ScrollUp(s.con[n]) /\ t.con[n].orig = s.con[n].orig
    BY <2>2, <2>3
  <2>5. Follows(s, t, n)
    BY <2>2, <2>4 DEF Follows
  <2>6. ASSUME NEW r \in 0 .. NrRows - SCR_ROWS, NEW y \in 0 .. NrRows - 1, InRows(s, n, r, y)
        PROVE  ~(r <= y /\ y < r + SCR_ROWS) /\ InRows(t, n, UpRow(s.con[n].is_full, r, y), y)
    <3>1. ~(r <= y /\ y < r + SCR_ROWS)
      BY <1>2, <2>6, WindowRows
    <3>2. /\ UpRow(s.con[n].is_full, r, y) \in 0 .. NrRows - SCR_ROWS
          /\ ScrollUp(s.con[n]) = s.con[n].orig + Start(UpRow(s.con[n].is_full, r, y))
      BY <2>6, ScrollUpRows
    <3>3. Offset(t, n) = Offset(s, n) /\ Newest(t.con[n]) = Newest(s.con[n])
      BY <2>5, FollowsFacts
    <3>4. InRows(t, n, UpRow(s.con[n].is_full, r, y), y)
      <4>. DEFINE up == UpRow(s.con[n].is_full, r, y)
      <4>1. /\ Newest(s.con[n]) = Start(y) /\ Start(y) <= Offset(s, n)
            /\ Offset(s, n) < Start(y) + SCR_WIDTH /\ Offset(s, n) \div SCR_WIDTH = y
        BY <2>6, Zenon DEF InRows
      <4>. HIDE DEF up
      <4>2. up \in 0 .. NrRows - SCR_ROWS /\ t.con[n].crtc_start = t.con[n].orig + Start(up)
        BY <2>4, <3>2 DEF up
      <4>3. InRows(t, n, up, y)
        BY <3>3, <4>1, <4>2, Zenon DEF InRows
      <4>. QED BY <4>3 DEF up
    <3>. QED BY <3>1, <3>4
  <2>7. ASSUME NEW r \in 0 .. NrRows - SCR_ROWS, NEW y \in 0 .. NrRows - 1, InRows(s, n, r, y)
        PROVE  InRows(t, n, IF r <= y /\ y < r + SCR_ROWS THEN r
                            ELSE UpRow(s.con[n].is_full, r, y), y)
    BY <2>6, <2>7, Zenon
  <2>. QED BY <2>5, <2>7 DEF t
<1>. QED BY <1>1, <1>2

\* The loop takes the window to the cursor, unless that is above it and the console is
\* not yet full.
LEMMA FollowedEffect ==
  ASSUME NEW s, IsScreen(s), NEW n \in Consoles, CursorFits(s, n)
  PROVE  /\ Follows(s, Followed(s, n), n)
         /\ s.con[n].is_full \/ s.con[n].crtc_start <= s.con[n].cursor
              => InWindow(Followed(s, n).con[n])
<1>. DEFINE N == Start(NrRows)
<1>1. N \in Nat /\ NrRows \in Nat /\ NrRows <= N
  <2>1. PICK k \in Nat : k = NrRows
    BY Sizes
  <2>2. PICK w \in Nat \ {0} : w = SCR_WIDTH
    BY RowsFollow
  <2>3. k * w \in Nat /\ k <= k * w
    BY SMTT(30)
  <2>. QED BY <2>1, <2>2, <2>3, Zenon DEF Start
<1>. HIDE DEF N
<1>2. PICK f : /\ f[0] = s /\ Followed(s, n) = f[N]
               /\ \A k \in 1 .. N : f[k] = OneTurn(f[k - 1], n)
  BY FollowedIs DEF N
<1>3. PICK r \in 0 .. NrRows - SCR_ROWS, y \in 0 .. NrRows - 1 : InRows(s, n, r, y)
  BY RowsExist
<1>4. PICK full \in BOOLEAN : full = s.con[n].is_full
  BY ConsoleNumbers
<1>5. full \/ s.con[n].crtc_start <= s.con[n].cursor <=> full \/ r <= y
  BY <1>3, WindowRows
<1>. DEFINE Good(t) == Follows(s, t, n)
            Near(t, k) == \E q \in 0 .. NrRows - SCR_ROWS :
                            /\ InRows(t, n, q, y) /\ (full \/ q <= y)
                            /\ TurnsLeft(q, y) <= NrRows - k \/ TurnsLeft(q, y) = 0
            P == {k \in 0 .. N : Good(f[k]) /\ (full \/ r <= y => Near(f[k], k))}
<1>6. 0 \in P
  <2>1. Good(f[0]) /\ IsScreen(s)
    BY <1>2, FollowsSelf
  <2>2. ASSUME full \/ r <= y PROVE Near(f[0], 0)
    <3>1. TurnsLeft(r, y) \in 0 .. NrRows
      BY <2>2, TurnsShrink
    <3>2. TurnsLeft(r, y) <= NrRows - 0
      BY <3>1, <1>1
    <3>. QED BY <3>2, <2>2, <1>2, <1>3
  <2>3. 0 \in 0 .. N
    BY <1>1
  <2>. HIDE DEF Good, Near
  <2>. QED BY <2>1, <2>2, <2>3
<1>7. ASSUME NEW k \in 1 .. N, k - 1 \in P PROVE k \in P
  <2>1. PICK t : t = f[k - 1]
    OBVIOUS
  <2>2. Good(t) /\ (full \/ r <= y => Near(t, k - 1)) /\ f[k] = OneTurn(t, n)
    <3>. HIDE DEF Good, Near
    <3>. QED BY <2>1, <1>2, <1>7
  <2>3. /\ IsScreen(t) /\ CursorFits(t, n) /\ t.con[n].is_full = full
    BY <2>2, <1>4, FollowsFacts
  <2>4. /\ Follows(t, OneTurn(t, n), n)
        /\ \A q \in 0 .. NrRows - SCR_ROWS :
             InRows(t, n, q, y) =>
               InRows(OneTurn(t, n), n,
                      IF q <= y /\ y < q + SCR_ROWS THEN q ELSE UpRow(full, q, y), y)
    BY <2>3, TurnFollows
  <2>5. Good(f[k])
    BY <2>2, <2>4, FollowsJoin
  <2>6. ASSUME full \/ r <= y PROVE Near(f[k], k)
    <3>1. PICK q \in 0 .. NrRows - SCR_ROWS :
            /\ InRows(t, n, q, y) /\ (full \/ q <= y)
            /\ TurnsLeft(q, y) <= NrRows - (k - 1) \/ TurnsLeft(q, y) = 0
      BY <2>2, <2>6
    <3>. DEFINE q2 == IF q <= y /\ y < q + SCR_ROWS THEN q ELSE UpRow(full, q, y)
    <3>2. InRows(f[k], n, q2, y)
      BY <3>1, <2>2, <2>4
    <3>3. q2 \in 0 .. NrRows - SCR_ROWS
      BY <3>2 DEF InRows
    <3>4. /\ TurnsLeft(q, y) \in 0 .. NrRows
          /\ TurnsLeft(q, y) = 0 <=> q <= y /\ y < q + SCR_ROWS
          /\ TurnsLeft(q, y) > 0 => /\ TurnsLeft(UpRow(full, q, y), y) = TurnsLeft(q, y) - 1
                                    /\ full \/ UpRow(full, q, y) <= y
      BY <3>1, TurnsShrink
    <3>5. TurnsLeft(q, y) \in Nat /\ k \in Nat
      BY <3>4, <1>1
    <3>6. CASE TurnsLeft(q, y) = 0
      <4>1. q2 = q
        BY <3>4, <3>6
      <4>. QED BY <4>1, <3>1, <3>2, <3>6
    <3>7. CASE TurnsLeft(q, y) # 0
      <4>1. TurnsLeft(q, y) > 0 /\ TurnsLeft(q, y) <= NrRows - (k - 1)
        BY <3>1, <3>5, <3>7
      <4>2. q2 = UpRow(full, q, y) /\ (full \/ q2 <= y) /\ TurnsLeft(q2, y) = TurnsLeft(q, y) - 1
        BY <3>4, <4>1, <3>7
      <4>3. TurnsLeft(q2, y) <= NrRows - k
        BY <4>1, <4>2, <3>5, <1>1
      <4>. HIDE DEF q2
      <4>. QED BY <4>2, <4>3, <3>2, <3>3
    <3>. QED BY <3>6, <3>7
  <2>. HIDE DEF Good, Near
  <2>. QED BY <2>5, <2>6
<1>. HIDE DEF P
<1>8. 0 .. N \subseteq P
  BY <1>1, <1>6, <1>7, CountUp
<1>9. N \in P
  BY <1>1, <1>8
<1>10. Good(f[N]) /\ (full \/ r <= y => Near(f[N], N))
  <2>. HIDE DEF Good, Near
  <2>. QED BY <1>9 DEF P
<1>11. ASSUME full \/ r <= y PROVE InWindow(Followed(s, n).con[n])
  <2>1. PICK q \in 0 .. NrRows - SCR_ROWS :
          /\ InRows(f[N], n, q, y) /\ (full \/ q <= y)
          /\ TurnsLeft(q, y) <= NrRows - N \/ TurnsLeft(q, y) = 0
    BY <1>10, <1>11
  <2>2. /\ TurnsLeft(q, y) \in 0 .. NrRows
        /\ TurnsLeft(q, y) = 0 <=> q <= y /\ y < q + SCR_ROWS
    BY <2>1, TurnsShrink
  <2>3. TurnsLeft(q, y) = 0
    BY <2>1, <2>2, <1>1
  <2>4. IsScreen(f[N])
    BY <1>10, FollowsFacts
  <2>5. InWindow(f[N].con[n]) <=> q <= y /\ y < q + SCR_ROWS
    BY <2>1, <2>4, WindowRows
  <2>. QED BY <2>2, <2>3, <2>5, <1>2
<1>. QED BY <1>2, <1>5, <1>4, <1>10, <1>11
----------------------------------------------------------------------------
\* A whole out_char().

Chars == {Letter, Newline, Backspace}

\* The cursor a character leads to.
LEMMA NewCursorFits ==
  ASSUME NEW s, IsScreen(s), NEW n \in Consoles, CursorFits(s, n), NEW ch \in Chars,
         ch = Backspace => Offset(s, n) > 0, NEW row \in 0 .. NrRows - 1
  PROVE  LET new == NewCursor(s, n, ch, row)
         IN  /\ new \in Int /\ s.con[n].orig <= new
             /\ new <= s.con[n].orig + s.con[n].con_size
             /\ ch = Letter => new = s.con[n].cursor + 1
             /\ ch = Backspace => new = s.con[n].cursor - 1 /\ s.con[n].cursor - 1 \in Area(n)
             /\ ch = Newline /\ row = Offset(s, n) \div SCR_WIDTH => new > s.con[n].cursor
<1>1. PICK o \in Nat, z \in Nat, c \in Int :
         /\ o = s.con[n].orig /\ z = s.con[n].con_size /\ z = Start(NrRows) /\ c = s.con[n].cursor
         /\ Area(n) = o .. o + z - 1
  BY ConsoleNumbers
<1>2. Offset(s, n) = c - o /\ 0 <= c - o /\ c - o < z
  BY <1>1, FitsArea
<1>3. Letter # Newline /\ Letter # Backspace /\ Newline # Backspace
  BY DEF Letter, Newline, Backspace
<1>4. CASE ch = Letter
  <2>1. NewCursor(s, n, ch, row) = c + 1
    BY <1>1, <1>3, <1>4 DEF NewCursor
  <2>2. c + 1 \in Int /\ o <= c + 1 /\ c + 1 <= o + z
    BY <1>2
  <2>. QED BY <2>1, <2>2, <1>1, <1>3, <1>4, Zenon
<1>5. CASE ch = Backspace
  <2>1. NewCursor(s, n, ch, row) = c - 1
    BY <1>1, <1>3, <1>5 DEF NewCursor
  <2>2. c - o > 0
    BY <1>2, <1>5
  <2>3. c - 1 \in Int /\ o <= c - 1 /\ c - 1 <= o + z /\ c - 1 \in o .. o + z - 1
    BY <2>2, <1>2
  <2>. QED BY <2>1, <2>3, <1>1, <1>3, <1>5, Zenon
<1>6. CASE ch = Newline
  <2>1. PICK q \in Nat : q = row /\ q + 1 \in 0 .. NrRows
    BY Sizes
  <2>2. PICK sq \in Nat, w \in Nat : sq = Start(q) /\ w = SCR_WIDTH
    BY RowsFollow
  <2>3. SCR_WIDTH * (row + 1) = Start(q + 1)
    <3>1. PICK v \in Nat : v = SCR_WIDTH
      BY <2>2
    <3>2. v * (q + 1) = (q + 1) * v
      BY SMTT(30)
    <3>. QED BY <2>1, <3>1, <3>2, Zenon DEF Start
  <2>4. NewCursor(s, n, ch, row) = o + Start(q + 1)
    <3>1. NewCursor(s, n, ch, row) = s.con[n].orig + SCR_WIDTH * (row + 1)
      BY <1>3, <1>6 DEF NewCursor
    <3>. QED BY <2>3, <3>1, <1>1, Zenon
  <2>5. Start(q + 1) = sq + w
    BY <2>2, NextRow
  <2>6. sq + w <= z
    <3>1. q + 1 \in Nat /\ NrRows \in Nat /\ q + 1 <= NrRows
      BY <2>1, Sizes
    <3>2. Start(q + 1) <= Start(NrRows)
      BY <3>1, RowOrder
    <3>. QED BY <3>2, <2>5, <1>1
  <2>7. ASSUME row = Offset(s, n) \div SCR_WIDTH PROVE c < o + sq + w
    <3>1. PICK r \in 0 .. NrRows - SCR_ROWS, y \in 0 .. NrRows - 1 : InRows(s, n, r, y)
      BY RowsExist
    <3>2. y = q /\ c - o < Start(y) + SCR_WIDTH
      BY <3>1, <2>1, <2>7, <1>2 DEF InRows
    <3>3. c - o < sq + w
      BY <3>2, <2>2
    <3>. QED BY <3>3
  <2>8. o + Start(q + 1) = o + sq + w
    BY <2>5
  <2>9. o + sq + w \in Int /\ o <= o + sq + w /\ o + sq + w <= o + z
    BY <2>6
  <2>10. c < o + sq + w <=> o + sq + w > c
    OBVIOUS
  <2>. QED BY <2>4, <2>7, <2>8, <2>9, <2>10, <1>1, <1>3, <1>6, Zenon
<1>. QED BY <1>4, <1>5, <1>6 DEF Chars

\* A window that is not past the cursor is not below it.
LEMMA NotPastAbove ==
  ASSUME NEW s, IsScreen(s), NEW n \in Consoles, NotPast(s.con[n], Margin),
         s.con[n].orig <= s.con[n].cursor
  PROVE  s.con[n].is_full \/ s.con[n].crtc_start <= s.con[n].cursor
<1>1. PICK o \in Nat, top \in Int, c \in Int :
        o = s.con[n].orig /\ top = s.con[n].crtc_start /\ c = s.con[n].cursor
  BY ConsoleNumbers
<1>2. PICK k \in Nat, sz \in Nat, w \in Nat :
        k = Margin /\ sz = SCR_SIZE /\ w = SCR_WIDTH /\ k = sz - w
  BY Sizes, RowsFollow
<1>3. s.con[n].is_full \/ top = o \/ top + sz - w <= c + k
  BY <1>1, <1>2 DEF NotPast
<1>. QED BY <1>1, <1>2, <1>3

\* A window with the cursor in it is not past it.
LEMMA InWindowNotPast ==
  ASSUME NEW s, IsScreen(s), NEW n \in Consoles, InWindow(s.con[n])
  PROVE  NotPast(s.con[n], Margin)
<1>1. PICK top \in Int, c \in Int : top = s.con[n].crtc_start /\ c = s.con[n].cursor
  BY ConsoleNumbers
<1>2. PICK k \in Nat, sz \in Nat, w \in Nat :
        k = Margin /\ sz = SCR_SIZE /\ w = SCR_WIDTH /\ k = sz - w
  BY Sizes, RowsFollow
<1>3. top <= c
  BY <1>1, <1>2 DEF InWindow
<1>4. top + sz - w <= c + k
  BY <1>2, <1>3
<1>. QED BY <1>1, <1>2, <1>4, Zenon DEF NotPast

\* From s to t the cursor of console n went forward.
Advanced(s, t, n) ==
  /\ Writes(s, t, n) /\ SameRegisters(s, t)
  /\ t.con[n] = [s.con[n] EXCEPT !.cursor = t.con[n].cursor]
  /\ t.con[n].cursor > s.con[n].cursor
  /\ t.con[n].cursor <= s.con[n].orig + s.con[n].con_size

\* l.60-75, for a character that is text.
LEMMA PutCharEffect ==
  ASSUME NEW s, IsScreen(s), NEW n \in Consoles, CursorFits(s, n), NEW ch \in {Letter, Newline}
  PROVE  Advanced(s, PutChar(s, n, ch), n)
<1>. DEFINE p == s.con[n].cursor
            row == Offset(s, n) \div SCR_WIDTH
            u == Put(s, n, ch, p)
            new == NewCursor(s, n, ch, row)
            t == Store(u, n, ch, p, new)
<1>1. ch # Backspace /\ ch \in Chars /\ (ch = Letter \/ ch = Newline)
  BY DEF Letter, Newline, Backspace, Chars
<1>2. PutChar(s, n, ch) = t
  BY <1>1 DEF PutChar
<1>3. p \in Area(n) /\ p \in Int
  BY FitsArea, ConsoleNumbers
<1>4. Writes(s, u, n) /\ SameRegisters(s, u) /\ u.con = s.con
  BY <1>3, PutEffect
<1>5. row \in 0 .. NrRows - 1
  <2>1. PICK r \in 0 .. NrRows - SCR_ROWS, y \in 0 .. NrRows - 1 : InRows(s, n, r, y)
    BY RowsExist
  <2>. QED BY <2>1 DEF InRows
<1>6. /\ new \in Int /\ new <= s.con[n].orig + s.con[n].con_size
      /\ new > s.con[n].cursor
  <2>1. /\ new \in Int /\ new <= s.con[n].orig + s.con[n].con_size
        /\ ch = Letter => new = s.con[n].cursor + 1
        /\ ch = Newline => new > s.con[n].cursor
    <3>. HIDE DEF new
    <3>1. \A r \in 0 .. NrRows - 1 : r = row =>
            /\ NewCursor(s, n, ch, r) \in Int
            /\ NewCursor(s, n, ch, r) <= s.con[n].orig + s.con[n].con_size
            /\ ch = Letter => NewCursor(s, n, ch, r) = s.con[n].cursor + 1
            /\ ch = Newline => NewCursor(s, n, ch, r) > s.con[n].cursor
      BY <1>1, NewCursorFits
    <3>. QED BY <3>1, <1>5, Zenon DEF new
  <2>2. s.con[n].cursor + 1 > s.con[n].cursor
    BY <1>3
  <2>. HIDE DEF new
  <2>. QED BY <2>1, <2>2, <1>1
<1>. HIDE DEF new, u
<1>7. IsScreen(u)
  BY <1>4 DEF Writes
<1>8. /\ Writes(u, t, n) /\ SameRegisters(u, t)
      /\ t.con[n] = [u.con[n] EXCEPT !.cursor = new]
  <2>1. PICK at \in Int : at = p
    BY <1>3
  <2>2. /\ Writes(u, Store(u, n, ch, at, new), n) /\ SameRegisters(u, Store(u, n, ch, at, new))
        /\ Store(u, n, ch, at, new).con[n] = [u.con[n] EXCEPT !.cursor = new]
    <3>1. ch = Backspace => at - 1 \in Area(n) \/ at - 1 \notin Cells
      BY <1>1
    <3>2. new \in Int
      BY <1>6
    <3>3. Stored(u, Store(u, n, ch, at, new), n, ch, at, new)
      BY <3>1, <3>2, <1>7, StoreEffect
    <3>. QED BY <3>3, Zenon DEF Stored
  <2>. QED BY <2>1, <2>2
<1>. HIDE DEF t
<1>9. Writes(s, t, n)
  BY <1>4, <1>8, WritesJoin
<1>10. SameRegisters(s, t)
  BY <1>4, <1>8 DEF SameRegisters
<1>11. t.con[n] = [s.con[n] EXCEPT !.cursor = new] /\ t.con[n].cursor = new
  <2>1. s.con[n] \in [orig : Int, con_size : Int, cursor : Int, crtc_start : Int, is_full : BOOLEAN]
    BY DEF IsScreen
  <2>. QED BY <2>1, <1>4, <1>8
<1>. QED BY <1>2, <1>6, <1>9, <1>10, <1>11 DEF Advanced

\* l.77-87.
LEMMA WrappedEffect ==
  ASSUME NEW s, IsScreen(s), NEW n \in Consoles, s.con[n].orig <= s.con[n].cursor,
         s.con[n].cursor <= s.con[n].orig + s.con[n].con_size
  PROVE  LET t == Wrapped(s, n)
         IN  /\ Writes(s, t, n) /\ SameRegisters(s, t) /\ CursorFits(t, n)
             /\ CursorFits(s, n) => t = s
             /\ ~CursorFits(s, n) => t.con[n].is_full = TRUE
<1>1. CASE CursorFits(s, n)
  BY <1>1 DEF Wrapped, Writes, SameRegisters
<1>2. CASE ~CursorFits(s, n)
  <2>. DEFINE u == CopyToTop(s, n)
              t == Home(u, n, 0)
  <2>1. s.con[n].cursor = s.con[n].orig + s.con[n].con_size
    <3>1. PICK o \in Nat, z \in Nat, c \in Int :
             /\ o = s.con[n].orig /\ z = s.con[n].con_size /\ z = Start(NrRows) /\ c = s.con[n].cursor
             /\ Area(n) = o .. o + z - 1
      BY ConsoleNumbers
    <3>2. c \notin o .. o + z - 1
      BY <3>1, <1>2, FitsArea
    <3>3. c < o \/ o + z - 1 < c
      BY <3>2
    <3>. QED BY <3>1, <3>3, SMTT(60)
  <2>2. /\ Writes(s, u, n) /\ SameRegisters(s, u) /\ u.con = s.con
        /\ Offset(s, n) % SCR_WIDTH = 0
    BY <2>1, CopyEffect
  <2>3. Wrapped(s, n) = t
    BY <1>2, <2>2 DEF Wrapped
  <2>. HIDE DEF u
  <2>4. IsScreen(u)
    BY <2>2 DEF Writes
  <2>5. /\ Writes(u, t, n) /\ SameRegisters(u, t)
        /\ u.con[n].orig + SCR_SIZE - SCR_WIDTH \in Area(n)
        /\ t.con[n] = [u.con[n] EXCEPT !.crtc_start = u.con[n].orig,
                         !.cursor = u.con[n].orig + SCR_SIZE - SCR_WIDTH, !.is_full = TRUE]
    BY <2>4, HomeEffect
  <2>. HIDE DEF t
  <2>6. u.con[n] \in [orig : Int, con_size : Int, cursor : Int, crtc_start : Int, is_full : BOOLEAN]
    BY <2>4 DEF IsScreen
  <2>7. t.con[n].is_full = TRUE /\ t.con[n].cursor \in Area(n)
    BY <2>5, <2>6
  <2>8. Writes(s, t, n) /\ SameRegisters(s, t) /\ IsScreen(t)
    BY <2>2, <2>5, WritesJoin DEF SameRegisters, Writes
  <2>9. CursorFits(t, n)
    BY <2>7, <2>8, FitsArea
  <2>. QED BY <1>2, <2>3, <2>7, <2>8, <2>9
<1>. QED BY <1>1, <1>2
\* The CRTC shows console n.
ShownBy(s, n) == s.cursor = s.con[n].cursor /\ s.start = s.con[n].crtc_start

\* Printing on console n led from s to st.
Printed(s, st, n) ==
  /\ st = [screen |-> st.screen, failed |-> st.failed]
  /\ Writes(s, st.screen, n)
  /\ n # current => SameRegisters(s, st.screen)
  /\ CursorFits(s, n) /\ st.failed = 0 => CursorFits(st.screen, n)
  /\ ~CursorFits(s, n) /\ st.failed = 0 => st.screen = s
  /\ n = current /\ ShownBy(s, n) /\ st.failed = 0 => ShownBy(st.screen, n)
  /\ CursorFits(s, n) /\ NotPast(s.con[n], Margin)
       => st.failed = 0 /\ NotPast(st.screen.con[n], Margin)

\* out_char() of text.
LEMMA OutCharEffect ==
  ASSUME NEW s, IsScreen(s), NEW n \in Consoles, NEW ch \in {Letter, Newline}
  PROVE  Printed(s, OutChar([screen |-> s, failed |-> 0], n, ch), n)
<1>. DEFINE t1 == PutChar(s, n, ch)
            t2 == Wrapped(t1, n)
            t3 == Followed(t2, n)
            t4 == Flushed(t3, n)
            st == OutChar([screen |-> s, failed |-> 0], n, ch)
<1>1. st = IF ~CursorFits(s, n) THEN [screen |-> s, failed |-> 55]
           ELSE IF ~InWindow(t3.con[n]) THEN [screen |-> t3, failed |-> 90]
           ELSE [screen |-> t4, failed |-> 0]
  BY DEF OutChar
<1>2. CASE ~CursorFits(s, n)
  <2>1. st.screen = s /\ st.failed = 55 /\ st = [screen |-> st.screen, failed |-> st.failed]
    BY <1>1, <1>2
  <2>2. Writes(s, s, n) /\ SameRegisters(s, s)
    BY DEF Writes, SameRegisters
  <2>. HIDE DEF st
  <2>. QED BY <2>1, <2>2, <1>2 DEF Printed, st
<1>3. CASE CursorFits(s, n)
  <2>1. s.con[n] \in [orig : Int, con_size : Int, cursor : Int, crtc_start : Int, is_full : BOOLEAN]
        /\ s.con[n].orig <= s.con[n].cursor
    <3>1. s.con[n].cursor \in s.con[n].orig .. s.con[n].orig + s.con[n].con_size - 1
      BY <1>3, FitsArea, ConsoleNumbers
    <3>. QED BY <3>1, ConsoleNumbers DEF IsScreen
  <2>2. /\ Writes(s, t1, n) /\ SameRegisters(s, t1)
        /\ t1.con[n] = [s.con[n] EXCEPT !.cursor = t1.con[n].cursor]
        /\ t1.con[n].cursor > s.con[n].cursor
        /\ t1.con[n].cursor <= s.con[n].orig + s.con[n].con_size
    <3>1. Advanced(s, t1, n)
      BY <1>3, PutCharEffect
    <3>. QED BY <3>1, Zenon DEF Advanced
  <2>. HIDE DEF t1
  <2>3. /\ IsScreen(t1) /\ t1.con[n].orig = s.con[n].orig
        /\ t1.con[n].con_size = s.con[n].con_size /\ t1.con[n].cursor \in Int
        /\ t1.con[n].crtc_start = s.con[n].crtc_start /\ t1.con[n].is_full = s.con[n].is_full
    BY <2>1, <2>2, ConsoleNumbers DEF Writes
  <2>4. t1.con[n].orig <= t1.con[n].cursor
    BY <2>1, <2>2, <2>3
  <2>5. \A k \in Nat : NotPast(s.con[n], k) => NotPast(t1.con[n], k)
    <3>1. PICK o \in Int, c \in Int, d \in Int, top \in Int, full \in BOOLEAN :
            /\ o = s.con[n].orig /\ c = s.con[n].cursor /\ d = t1.con[n].cursor
            /\ top = s.con[n].crtc_start /\ full = s.con[n].is_full
      BY <2>1, <2>3
    <3>2. d > c
      BY <3>1, <2>2
    <3>3. SCR_SIZE \in Nat /\ SCR_WIDTH \in Nat
      BY Sizes, RowsFollow
    <3>4. ASSUME NEW k \in Nat, NotPast(s.con[n], k) PROVE NotPast(t1.con[n], k)
      <4>1. full \/ top = o \/ top + SCR_SIZE - SCR_WIDTH <= c + k
        BY <3>1, <3>4, Zenon DEF NotPast
      <4>2. full \/ top = o \/ top + SCR_SIZE - SCR_WIDTH <= d + k
        BY <4>1, <3>2, <3>3
      <4>. QED BY <4>2, <3>1, <2>3, Zenon DEF NotPast
    <3>. QED BY <3>4
  <2>6. /\ Writes(t1, t2, n) /\ SameRegisters(t1, t2) /\ CursorFits(t2, n)
        /\ CursorFits(t1, n) => t2 = t1
        /\ ~CursorFits(t1, n) => t2.con[n].is_full = TRUE
    BY <2>2, <2>3, <2>4, WrappedEffect
  <2>. HIDE DEF t2
  <2>7. IsScreen(t2) /\ \A k \in Nat : NotPast(t1.con[n], k) => NotPast(t2.con[n], k)
    <3>1. t2.con[n].is_full = TRUE => \A k \in Nat : NotPast(t2.con[n], k)
      BY Zenon DEF NotPast
    <3>. QED BY <3>1, <2>6 DEF Writes
  <2>8. /\ Follows(t2, t3, n)
        /\ t2.con[n].is_full \/ t2.con[n].crtc_start <= t2.con[n].cursor => InWindow(t3.con[n])
    BY <2>6, <2>7, FollowedEffect
  <2>. HIDE DEF t3
  <2>9. /\ IsScreen(t3) /\ CursorFits(t3, n) /\ Writes(t2, t3, n)
        /\ \A k \in Nat : NotPast(t2.con[n], k) => NotPast(t3.con[n], k)
    BY <2>6, <2>7, <2>8, FollowsFacts DEF Follows
  <2>10. /\ IsScreen(t4) /\ t4.con = t3.con /\ Writes(t3, t4, n)
         /\ n # current => SameRegisters(t3, t4)
         /\ n = current => t4.cursor = t3.con[n].cursor /\ t4.start = t3.con[n].crtc_start
    BY <2>9, FlushEffect
  <2>. HIDE DEF t4
  <2>11. Writes(s, t3, n) /\ Writes(s, t4, n)
    <3>1. Writes(s, t2, n)
      BY <2>2, <2>6, WritesJoin
    <3>2. Writes(s, t3, n)
      BY <3>1, <2>9, WritesJoin
    <3>3. Writes(s, t4, n)
      BY <3>2, <2>10, WritesJoin
    <3>. QED BY <3>2, <3>3
  <2>12. n # current => SameRegisters(s, t3) /\ SameRegisters(s, t4)
    BY <2>2, <2>6, <2>8, <2>10 DEF Follows, SameRegisters
  <2>13. ASSUME NotPast(s.con[n], Margin)
         PROVE  InWindow(t3.con[n]) /\ NotPast(t4.con[n], Margin)
    <3>1. Margin \in Nat
      BY Sizes
    <3>2. NotPast(t2.con[n], Margin)
      BY <2>13, <3>1, <2>5, <2>7
    <3>3. t2.con[n].orig <= t2.con[n].cursor
      <4>1. t2.con[n].cursor \in t2.con[n].orig .. t2.con[n].orig + t2.con[n].con_size - 1
        BY <2>6, <2>7, FitsArea, ConsoleNumbers
      <4>2. t2.con[n].orig \in Int /\ t2.con[n].con_size \in Int
        BY <2>7, ConsoleNumbers
      <4>. QED BY <4>1, <4>2
    <3>4. t2.con[n].is_full \/ t2.con[n].crtc_start <= t2.con[n].cursor
      BY <3>2, <3>3, <2>7, NotPastAbove
    <3>5. NotPast(t4.con[n], Margin)
      BY <3>1, <3>2, <2>9, <2>10
    <3>. QED BY <3>4, <3>5, <2>8
  <2>14. CASE ~InWindow(t3.con[n])
    <3>1. st.screen = t3 /\ st.failed = 90 /\ st = [screen |-> st.screen, failed |-> st.failed]
      BY <1>1, <1>3, <2>14
    <3>. HIDE DEF st
    <3>. QED BY <3>1, <1>3, <2>11, <2>12, <2>13, <2>14 DEF Printed, st
  <2>15. CASE InWindow(t3.con[n])
    <3>1. st.screen = t4 /\ st.failed = 0 /\ st = [screen |-> st.screen, failed |-> st.failed]
      BY <1>1, <1>3, <2>15
    <3>2. CursorFits(t4, n)
      BY <2>9, <2>10, Zenon DEF CursorFits, Offset
    <3>3. n = current => ShownBy(t4, n)
      BY <2>10 DEF ShownBy
    <3>4. Printed(s, st, n)
      <4>. HIDE DEF st
      <4>. QED BY <3>1, <3>2, <3>3, <1>3, <2>11, <2>12, <2>13 DEF Printed
    <3>. QED BY <3>4
  <2>. QED BY <2>14, <2>15
<1>. QED BY <1>2, <1>3
\* Printing goes on.
LEMMA PrintedJoin ==
  ASSUME NEW s, NEW st, NEW u, NEW n \in Consoles, Printed(s, st, n), st.failed = 0,
         Printed(st.screen, u, n)
  PROVE  Printed(s, u, n)
<1>. DEFINE t == st.screen
            v == u.screen
<1>1. Writes(s, v, n)
  BY WritesJoin DEF Printed
<1>2. n # current => SameRegisters(s, v)
  BY DEF Printed, SameRegisters
<1>3. CursorFits(s, n) /\ u.failed = 0 => CursorFits(v, n)
  BY DEF Printed
<1>4. ~CursorFits(s, n) /\ u.failed = 0 => v = s
  BY DEF Printed
<1>5. n = current /\ ShownBy(s, n) /\ u.failed = 0 => ShownBy(v, n)
  BY DEF Printed
<1>6. ASSUME CursorFits(s, n), NotPast(s.con[n], Margin)
      PROVE  u.failed = 0 /\ NotPast(v.con[n], Margin)
  <2>1. CursorFits(t, n) /\ NotPast(t.con[n], Margin)
    BY <1>6 DEF Printed
  <2>. QED BY <2>1 DEF Printed
<1>. QED BY <1>1, <1>2, <1>3, <1>4, <1>5, <1>6 DEF Printed

\* f is what the loop of sys_printx() does.
IsStringOf(f, s, str, N) ==
  f = [k \in 0 .. N |-> IF k = 0 THEN [screen |-> s, failed |-> 0]
                        ELSE OutChar(f[k - 1], 0, str[k])]

\* There is one.
LEMMA StringOfExists ==
  ASSUME NEW s, NEW str, NEW N \in Nat
  PROVE  \E f : IsStringOf(f, s, str, N)
<1>. DEFINE first == [screen |-> s, failed |-> 0]
            P == {m \in 0 .. N : \E f : IsStringOf(f, s, str, m)}
<1>1. 0 \in P
  <2>1. IsStringOf([k \in 0 .. 0 |-> first], s, str, 0)
    BY DEF IsStringOf
  <2>. QED BY <2>1
<1>2. ASSUME NEW m \in 1 .. N, m - 1 \in P PROVE m \in P
  <2>1. PICK f : IsStringOf(f, s, str, m - 1)
    BY <1>2
  <2>. DEFINE g == [k \in 0 .. m |-> IF k < m THEN f[k] ELSE OutChar(f[m - 1], 0, str[m])]
  <2>2. ASSUME NEW k \in 0 .. m
        PROVE  g[k] = IF k = 0 THEN first ELSE OutChar(g[k - 1], 0, str[k])
    <3>1. CASE k = m
      <4>1. g[k] = OutChar(f[m - 1], 0, str[m]) /\ g[m - 1] = f[m - 1] /\ k # 0
        BY <3>1
      <4>. QED BY <3>1, <4>1
    <3>2. CASE k < m
      <4>1. k \in 0 .. m - 1 /\ g[k] = f[k]
        BY <3>2
      <4>2. f[k] = IF k = 0 THEN first ELSE OutChar(f[k - 1], 0, str[k])
        BY <4>1, <2>1 DEF IsStringOf
      <4>3. k # 0 => g[k - 1] = f[k - 1]
        BY <3>2
      <4>. QED BY <4>1, <4>2, <4>3
    <3>. QED BY <3>1, <3>2
  <2>3. IsStringOf(g, s, str, m)
    <3>1. g = [k \in 0 .. m |-> g[k]]
      OBVIOUS
    <3>. HIDE DEF g
    <3>2. [k \in 0 .. m |-> g[k]]
          = [k \in 0 .. m |-> IF k = 0 THEN first ELSE OutChar(g[k - 1], 0, str[k])]
      BY <2>2
    <3>. QED BY <3>1, <3>2 DEF IsStringOf
  <2>. QED BY <2>3
<1>. HIDE DEF P
<1>3. 0 .. N \subseteq P
  BY <1>1, <1>2, CountUp
<1>. QED BY <1>3 DEF P

\* sys_printx(), its loop.
LEMMA OutStringEffect ==
  ASSUME NEW s, IsScreen(s), NEW str \in Seq({Letter, Newline})
  PROVE  Printed(s, OutString(s, str), 0)
<1>1. PICK N \in Nat : N = Len(str) /\ \A k \in 1 .. N : str[k] \in {Letter, Newline}
  OBVIOUS
<1>2. \E f : IsStringOf(f, s, str, N)
  BY StringOfExists
<1>. DEFINE f == CHOOSE f : IsStringOf(f, s, str, N)
            first == [screen |-> s, failed |-> 0]
<1>3. IsStringOf(f, s, str, N)
  BY <1>2, Zenon
<1>4. OutString(s, str) = f[N]
  BY <1>1, Zenon DEF OutString, IsStringOf
<1>. HIDE DEF f
<1>5. f[0] = first /\ \A k \in 1 .. N : f[k] = OutChar(f[k - 1], 0, str[k])
  <2>1. ASSUME NEW k \in 0 .. N PROVE f[k] = IF k = 0 THEN first ELSE OutChar(f[k - 1], 0, str[k])
    BY <1>3 DEF IsStringOf
  <2>2. 0 \in 0 .. N
    OBVIOUS
  <2>3. ASSUME NEW k \in 1 .. N PROVE f[k] = OutChar(f[k - 1], 0, str[k])
    <3>1. k \in 0 .. N /\ k # 0
      OBVIOUS
    <3>. QED BY <2>1, <3>1
  <2>. QED BY <2>1, <2>2, <2>3
<1>6. 0 \in Consoles
  BY ConsolesFollow
<1>. DEFINE P == {k \in 0 .. N : Printed(s, f[k], 0)}
<1>7. 0 \in P
  <2>1. first.screen = s /\ first.failed = 0 /\ first = [screen |-> first.screen, failed |-> first.failed]
    OBVIOUS
  <2>2. Writes(s, s, 0) /\ SameRegisters(s, s)
    BY DEF Writes, SameRegisters
  <2>. HIDE DEF first
  <2>3. Printed(s, first, 0)
    BY <2>1, <2>2 DEF Printed
  <2>. QED BY <2>3, <1>5
<1>8. ASSUME NEW k \in 1 .. N, k - 1 \in P PROVE k \in P
  <2>1. PICK st : st = f[k - 1]
    OBVIOUS
  <2>2. PICK ch \in {Letter, Newline} : ch = str[k]
    BY <1>1
  <2>3. Printed(s, st, 0) /\ f[k] = OutChar(st, 0, ch)
    BY <2>1, <2>2, <1>5, <1>8
  <2>4. CASE st.failed # 0
    <3>1. f[k] = st
      BY <2>3, <2>4 DEF OutChar
    <3>. QED BY <3>1, <2>3
  <2>5. CASE st.failed = 0
    <3>1. st = [screen |-> st.screen, failed |-> 0] /\ IsScreen(st.screen)
      BY <2>3, <2>5 DEF Printed, Writes
    <3>2. Printed(st.screen, OutChar([screen |-> st.screen, failed |-> 0], 0, ch), 0)
      BY <3>1, <1>6, OutCharEffect
    <3>3. Printed(st.screen, f[k], 0)
      BY <3>1, <3>2, <2>3, Zenon
    <3>4. Printed(s, f[k], 0)
      BY <3>3, <2>3, <2>5, <1>6, PrintedJoin
    <3>. QED BY <3>4
  <2>. QED BY <2>4, <2>5
<1>. HIDE DEF P
<1>9. 0 .. N \subseteq P /\ N \in 0 .. N
  BY <1>7, <1>8, CountUp
<1>. QED BY <1>4, <1>9 DEF P
----------------------------------------------------------------------------
\* The inductive invariant.

Stops == {"idle", "put", "store", "wrap", "home", "loop", "set_cursor", "set_video_start_addr"}

ConsoleTypes ==
  /\ IsScreen(screen) /\ current \in Consoles /\ printed \in Nat
  /\ writer \in [pc : Stops, con : Consoles, ch : Chars \cup {Blank}, pch : Int, row : Int,
                 reg : Int]
  /\ raced \in BOOLEAN

\* TTY is between the store of a cursor behind the console and the store of its new place.
Behind(n) == n = writer.con /\ writer.pc \in {"wrap", "home"}

\* The cursors are in their consoles but while TTY is about to wrap.
CursorsFit ==
  \A n \in Consoles : IF Behind(n) THEN screen.con[n].cursor = Screen(n).orig + Screen(n).con_size
                      ELSE CursorFits(screen, n)

\* What TTY has read is a place in its console; it is the cursor's unless printx() has moved it.
WriterInv ==
  LET n == writer.con IN
  /\ writer.pc \in {"put", "store"} =>
       writer.ch \in Chars /\ writer.pch \in Area(n) /\ writer.row \in 0 .. NrRows - 1
  /\ writer.pc = "put" /\ ~(raced /\ n = 0) =>
       /\ writer.pch = screen.con[n].cursor
       /\ writer.row = Offset(screen, n) \div SCR_WIDTH
  /\ writer.pc = "store" =>
       /\ Screen(n).orig <= writer.reg /\ writer.reg <= Screen(n).orig + Screen(n).con_size
       /\ writer.ch = Backspace => writer.pch > Screen(n).orig \/ n = 0
  /\ writer.pc = "home" => writer.reg = 0
  /\ writer.pc \in {"set_cursor", "set_video_start_addr"} => n = current

\* TTY is in out_char() before the end of the loop of l.90: the window follows the cursor.
Moving(n) == n = writer.con /\ writer.pc \in {"put", "store", "wrap", "home", "loop"}

\* Else the window of console n is not past the cursor.
WindowInv(n) == Moving(n) \/ NotPast(screen.con[n], Margin)

\* The registers show the current console, or are being written.
RegistersInv ==
  /\ writer.pc = "set_cursor" => writer.reg = screen.con[current].cursor
  /\ writer.pc = "set_video_start_addr" =>
       screen.cursor = screen.con[current].cursor /\ writer.reg = screen.con[current].crtc_start
  /\ writer.pc = "idle" \/ writer.con # current => ShownBy(screen, current)

ConsoleInv ==
  /\ ConsoleTypes
  /\ failed = 0 => CursorsFit /\ WriterInv
  /\ ~raced => failed = 0 /\ (\A n \in Consoles : WindowInv(n)) /\ RegistersInv

\* A step writes on TTY's console, or printx() on the first.
WritesOwn ==
  \/ screen'.vmem = screen.vmem
  \/ Writes(screen, screen', writer.con)
  \/ Writes(screen, screen', 0) /\ printed' > printed

\* The consoles begin well.
LEMMA ConsoleInitInv == ConsoleInit => ConsoleInv
<1>. SUFFICES ASSUME ConsoleInit PROVE ConsoleInv
  OBVIOUS
<1>1. /\ screen.con = [n \in Consoles |-> Screen(n)]
      /\ screen.cursor = Screen(0).cursor /\ screen.start = Screen(0).crtc_start
      /\ screen.vmem \in [Cells -> {Blank, Letter}]
      /\ screen = [vmem |-> screen.vmem, con |-> screen.con, cursor |-> screen.cursor,
                   start |-> screen.start]
  <2>. DEFINE Used(p) == \E n \in Consoles : p \in Screen(n).orig .. Screen(n).cursor - 1
              mem == [p \in 0 .. V_MEM_CELLS - 1 |-> IF Used(p) THEN Letter ELSE Blank]
  <2>1. screen = [vmem |-> mem, con |-> [n \in Consoles |-> Screen(n)],
                  cursor |-> Screen(0).cursor, start |-> Screen(0).crtc_start]
    BY DEF ConsoleInit
  <2>. HIDE DEF Used
  <2>2. mem \in [Cells -> {Blank, Letter}]
    BY DEF Cells
  <2>. HIDE DEF mem
  <2>. QED BY <2>1, <2>2
<1>2. /\ current = 0 /\ writer = Idle /\ printed = 0 /\ failed = 0 /\ raced = FALSE
  BY DEF ConsoleInit
<1>3. 0 \in Consoles
  BY ConsolesFollow
<1>4. ASSUME NEW n \in Consoles
      PROVE  /\ screen.con[n] = Screen(n)
             /\ Screen(n) \in [orig : Int, con_size : Int, cursor : Int, crtc_start : Int,
                               is_full : BOOLEAN]
             /\ Screen(n).crtc_start \in Tops(n) /\ Screen(n).crtc_start = Screen(n).orig
             /\ Screen(n).cursor \in Area(n)
  <2>1. /\ Screen(n).orig \in Nat /\ Screen(n).con_size = Start(NrRows)
        /\ Screen(n).crtc_start = Screen(n).orig
        /\ Screen(n).cursor = Screen(n).orig + SCR_WIDTH /\ Screen(n).is_full = FALSE
    BY ConsolesFollow
  <2>2. PICK z \in Nat, w \in Nat, sz \in Nat :
          z = Start(NrRows) /\ w = SCR_WIDTH /\ sz = SCR_SIZE /\ 2 * sz - w <= z /\ w < sz
    BY Sizes, RowsFollow
  <2>3. Screen(n).cursor \in Area(n)
    <3>1. PICK o \in Nat : o = Screen(n).orig
      BY <2>1
    <3>2. o + w \in o .. o + z - 1
      BY <2>2
    <3>. QED BY <2>1, <2>2, <3>1, <3>2 DEF Area
  <2>4. Screen(n) = [orig |-> Screen(n).orig, con_size |-> Screen(n).con_size,
                     cursor |-> Screen(n).cursor, crtc_start |-> Screen(n).crtc_start,
                     is_full |-> Screen(n).is_full]
    <3>. DEFINE a == n * size_per_con
                b == (size_per_con \div SCR_WIDTH) * SCR_WIDTH
                d == n * size_per_con + SCR_WIDTH
    <3>1. Screen(n) = [orig |-> a, con_size |-> b, cursor |-> d, crtc_start |-> a, is_full |-> FALSE]
      BY Zenon DEF Screen
    <3>. HIDE DEF a, b, d
    <3>. QED BY <3>1
  <2>5. Screen(n).crtc_start \in Tops(n)
    <3>1. 0 \in 0 .. NrRows - SCR_ROWS /\ Screen(n).orig = Screen(n).orig + Start(0)
      BY <2>1, Sizes, RowsFollow
    <3>. QED BY <2>1, <3>1 DEF Tops
  <2>6. /\ Screen(n).orig \in Int /\ Screen(n).con_size \in Int /\ Screen(n).cursor \in Int
        /\ Screen(n).crtc_start \in Int /\ Screen(n).is_full \in BOOLEAN
    <3>1. PICK o \in Nat : o = Screen(n).orig
      BY <2>1
    <3>2. o \in Int /\ z \in Int /\ o + w \in Int /\ FALSE \in BOOLEAN
      OBVIOUS
    <3>3. Screen(n).cursor = o + w /\ Screen(n).con_size = z
      BY <2>1, <2>2, <3>1
    <3>. QED BY <2>1, <3>1, <3>2, <3>3, Zenon
  <2>7. Screen(n) \in [orig : Int, con_size : Int, cursor : Int, crtc_start : Int, is_full : BOOLEAN]
    BY <2>4, <2>6
  <2>. QED BY <1>1, <2>1, <2>3, <2>5, <2>7
<1>5. IsScreen(screen)
  <2>1. screen.con \in [Consoles -> [orig : Int, con_size : Int, cursor : Int,
                                     crtc_start : Int, is_full : BOOLEAN]]
    BY <1>1, <1>4
  <2>2. screen.cursor \in Int /\ screen.start \in Int
    BY <1>1, <1>3, <1>4
  <2>. QED BY <1>1, <1>4, <2>1, <2>2 DEF IsScreen
<1>6. ConsoleTypes
  <2>1. writer \in [pc : Stops, con : Consoles, ch : Chars \cup {Blank}, pch : Int, row : Int,
                    reg : Int]
    BY <1>2, <1>3 DEF Idle, Stops
  <2>. QED BY <1>2, <1>3, <1>5, <2>1 DEF ConsoleTypes
<1>7. writer.pc = "idle" /\ writer.con = 0
  BY <1>2 DEF Idle
<1>8. CursorsFit
  <2>1. \A n \in Consoles : CursorFits(screen, n)
    BY <1>4, <1>5, FitsArea
  <2>. QED BY <2>1, <1>7 DEF CursorsFit, Behind
<1>9. WriterInv
  BY <1>7 DEF WriterInv
<1>10. ASSUME NEW n \in Consoles PROVE WindowInv(n)
  <2>1. screen.con[n].crtc_start = screen.con[n].orig
    BY <1>4
  <2>. QED BY <2>1, Zenon DEF NotPast, WindowInv
<1>11. RegistersInv
  BY <1>1, <1>2, <1>3, <1>7 DEF RegistersInv, ShownBy
<1>. QED BY <1>2, <1>6, <1>8, <1>9, <1>10, <1>11 DEF ConsoleInv
----------------------------------------------------------------------------
\* The steps keep it.

\* What the invariant says while the system runs.
LEMMA Running ==
  ASSUME ConsoleInv, failed = 0
  PROVE  /\ IsScreen(screen) /\ current \in Consoles /\ printed \in Nat /\ raced \in BOOLEAN
         /\ writer \in [pc : Stops, con : Consoles, ch : Chars \cup {Blank}, pch : Int,
                        row : Int, reg : Int]
         /\ CursorsFit /\ WriterInv
         /\ ~raced => (\A n \in Consoles : WindowInv(n)) /\ RegistersInv
BY DEF ConsoleInv, ConsoleTypes

\* The consoles that are written on by nobody keep window and cursor.
LEMMA ElsewhereKept ==
  ASSUME ConsoleInv, failed = 0, NEW n \in Consoles, Writes(screen, screen', n),
         n = writer.con \/ writer.pc = "idle", writer'.con = n \/ writer'.pc = "idle",
         NEW m \in Consoles \ {n}
  PROVE  /\ CursorFits(screen', m) /\ ~Behind(m)' /\ screen'.con[m] = screen.con[m]
         /\ WindowInv(m) => WindowInv(m)'
<1>1. screen'.con[m] = screen.con[m]
  BY DEF Writes
<1>2. ~Behind(m) /\ ~Behind(m)'
  BY DEF Behind
<1>3. CursorFits(screen', m)
  <2>1. CursorFits(screen, m)
    BY <1>2, Running DEF CursorsFit
  <2>. QED BY <1>1, <2>1, Zenon DEF CursorFits, Offset
<1>4. ~Moving(m)
  BY DEF Moving
<1>5. WindowInv(m) => WindowInv(m)'
  BY <1>1, <1>4, Zenon DEF WindowInv
<1>. QED BY <1>1, <1>2, <1>3, <1>5

\* What has to be seen of a step of TTY's on console n.
LEMMA TtyKeeps ==
  ASSUME ConsoleInv, failed = 0, NEW n \in Consoles, Writes(screen, screen', n),
         n = writer.con \/ writer.pc = "idle", writer'.con = n \/ writer'.pc = "idle",
         writer' \in [pc : Stops, con : Consoles, ch : Chars \cup {Blank}, pch : Int,
                      row : Int, reg : Int],
         current' \in Consoles, printed' \in Nat, raced' = raced, failed' = 0,
         IF Behind(n)' THEN screen'.con[n].cursor = Screen(n).orig + Screen(n).con_size
         ELSE CursorFits(screen', n),
         WriterInv', ~raced => WindowInv(n)' /\ RegistersInv'
  PROVE  ConsoleInv' /\ (n = writer.con => WritesOwn)
<1>1. ASSUME NEW m \in Consoles \ {n}
      PROVE  /\ CursorFits(screen', m) /\ ~Behind(m)'
             /\ WindowInv(m) => WindowInv(m)'
  BY <1>1, ElsewhereKept
<1>2. CursorsFit'
  <2>1. \A m \in Consoles : IF Behind(m)' THEN screen'.con[m].cursor = Screen(m).orig + Screen(m).con_size
                            ELSE CursorFits(screen', m)
    BY <1>1
  <2>. QED BY <2>1 DEF CursorsFit
<1>3. ConsoleTypes'
  <2>1. IsScreen(screen') /\ raced \in BOOLEAN
    BY Running DEF Writes
  <2>2. IsScreen(screen)'
    BY <2>1 DEF IsScreen
  <2>. QED BY <2>1, <2>2 DEF ConsoleTypes
<1>4. ~raced => \A m \in Consoles : WindowInv(m)'
  <2>1. ~raced => \A m \in Consoles : WindowInv(m)
    BY Running
  <2>. QED BY <1>1, <2>1
<1>5. n = writer.con => WritesOwn
  BY DEF WritesOwn
<1>. QED BY <1>2, <1>3, <1>4, <1>5 DEF ConsoleInv

\* The registers of the CRTC while TTY is inside out_char().
LEMMA RegistersKept ==
  ASSUME ConsoleInv, failed = 0, ~raced, NEW n \in Consoles, Writes(screen, screen', n),
         n = writer.con \/ writer.pc = "idle", writer'.con = n,
         writer'.pc \notin {"idle", "set_cursor", "set_video_start_addr"},
         n # current => SameRegisters(screen, screen'), current' = current
  PROVE  RegistersInv'
<1>1. n # current => ShownBy(screen, current)
  BY Running DEF RegistersInv
<1>2. n # current => screen'.con[current] = screen.con[current]
  BY Running DEF Writes
<1>3. n # current => ShownBy(screen', current')
  BY <1>1, <1>2 DEF ShownBy, SameRegisters
<1>. QED BY <1>3 DEF RegistersInv, ShownBy

\* A writer that has nothing in hand.
WriterType(w) ==
  w \in [pc : Stops, con : Consoles, ch : Chars \cup {Blank}, pch : Int, row : Int, reg : Int]

\* The idle writer, at another stop.
LEMMA IdleAt ==
  ASSUME NEW stop \in Stops, NEW n \in Consoles
  PROVE  LET w == [Idle EXCEPT !.pc = stop, !.con = n]
         IN  WriterType(w) /\ w.pc = stop /\ w.con = n /\ w.reg = 0
<1>. DEFINE idle == [pc |-> "idle", con |-> 0, ch |-> Blank, pch |-> 0, row |-> 0, reg |-> 0]
            v == [idle EXCEPT !.pc = stop]
            w == [v EXCEPT !.con = n]
<1>1. Idle = idle
  BY DEF Idle
<1>2. idle \in [pc : {"idle"}, con : Int, ch : {Blank}, pch : {0}, row : {0}, reg : {0}]
  OBVIOUS
<1>. HIDE DEF idle
<1>3. v \in [pc : Stops, con : Int, ch : {Blank}, pch : {0}, row : {0}, reg : {0}] /\ v.pc = stop
  BY <1>2
<1>. HIDE DEF v
<1>4. /\ w \in [pc : Stops, con : Consoles, ch : {Blank}, pch : {0}, row : {0}, reg : {0}]
      /\ w.pc = stop /\ w.con = n /\ w.reg = 0
  BY <1>3
<1>. HIDE DEF w
<1>5. WriterType(w)
  BY <1>4 DEF WriterType
<1>. QED BY <1>1, <1>4, <1>5, Zenon DEF v, w

\* l.71-74.
LEMMA TtyPutKeeps ==
  ASSUME ConsoleInv, TtyPut
  PROVE  ConsoleInv' /\ WritesOwn
<1>1. /\ failed = 0 /\ writer.pc = "put" /\ screen' = Put(screen, writer.con, writer.ch, writer.pch)
      /\ current' = current /\ printed' = printed /\ failed' = failed /\ raced' = raced
  BY Zenon DEF TtyPut, At, histories
<1>2. PICK n \in Consoles, ch \in Chars, p \in Int, row \in 0 .. NrRows - 1 :
        /\ p \in Area(n) /\ n = writer.con /\ ch = writer.ch /\ p = writer.pch /\ row = writer.row
        /\ ~(raced /\ n = 0) => /\ p = screen.con[n].cursor
                                /\ row = Offset(screen, n) \div SCR_WIDTH
  <2>1. WriterInv /\ writer.con \in Consoles /\ writer.pch \in Int
    BY <1>1, Running
  <2>. QED BY <1>1, <2>1 DEF WriterInv
<1>3. /\ Writes(screen, screen', n) /\ SameRegisters(screen, screen') /\ screen'.con = screen.con
  BY <1>1, <1>2, Running, PutEffect
<1>4. CursorFits(screen, n) /\ ~Behind(n) /\ Offset(screen, n) \in Int
  <2>1. ~Behind(n)
    BY <1>1 DEF Behind
  <2>. QED BY <2>1, <1>1, Running, FitsArea DEF CursorsFit
<1>. DEFINE stays == ch = Backspace /\ Offset(screen, n) <= 0
            new == NewCursor(screen, n, ch, row)
<1>7. ASSUME writer' \in [pc : Stops, con : Consoles, ch : Chars \cup {Blank}, pch : Int, row : Int,
                          reg : Int],
             writer'.con = n, writer'.pc \in {"loop", "store"}, WriterInv', ~Behind(n)',
             CursorFits(screen', n)
      PROVE  ConsoleInv' /\ WritesOwn
  <2>1. ~raced => RegistersInv'
    BY <1>1, <1>2, <1>3, <1>7, RegistersKept
  <2>2. current' \in Consoles /\ printed' \in Nat
    BY <1>1, Running
  <2>3. WindowInv(n)'
    BY <1>7 DEF Moving, WindowInv
  <2>. QED BY <1>1, <1>2, <1>3, <1>7, <2>1, <2>2, <2>3, TtyKeeps
<1>5. CASE stays
  <2>1. writer' = [Idle EXCEPT !.pc = "loop", !.con = n]
    BY <1>2, <1>5 DEF TtyPut
  <2>2. /\ writer' \in [pc : Stops, con : Consoles, ch : Chars \cup {Blank}, pch : Int, row : Int,
                        reg : Int]
        /\ writer'.pc = "loop" /\ writer'.con = n
    <3>1. "loop" \in Stops
      BY DEF Stops
    <3>. QED BY <2>1, <3>1, IdleAt DEF WriterType
  <2>3. WriterInv'
    BY <2>2 DEF WriterInv
  <2>4. ~Behind(n)'
    BY <2>2 DEF Behind
  <2>5. CursorFits(screen', n)
    BY <1>3, <1>4, Zenon DEF CursorFits, Offset
  <2>. QED BY <2>2, <2>3, <2>4, <2>5, <1>7
<1>6. CASE ~stays
  <2>1. /\ new \in Int /\ screen.con[n].orig <= new
        /\ new <= screen.con[n].orig + screen.con[n].con_size
        /\ ch = Backspace => screen.con[n].cursor - 1 \in Area(n)
    <3>1. ch = Backspace => Offset(screen, n) > 0
      BY <1>4, <1>6
    <3>2. IsScreen(screen)
      BY <1>1, Running
    <3>. QED BY <3>1, <3>2, <1>4, NewCursorFits
  <2>2. writer' = [writer EXCEPT !.pc = "store", !.reg = new]
    BY <1>2, <1>6 DEF TtyPut
  <2>3. /\ writer' \in [pc : Stops, con : Consoles, ch : Chars \cup {Blank}, pch : Int, row : Int,
                        reg : Int]
        /\ writer'.pc = "store" /\ writer'.con = n /\ writer'.ch = ch /\ writer'.pch = p
        /\ writer'.row = row /\ writer'.reg = new
    <3>1. writer \in [pc : Stops, con : Consoles, ch : Chars \cup {Blank}, pch : Int, row : Int,
                      reg : Int]
      BY <1>1, Running
    <3>. HIDE DEF new
    <3>. QED BY <1>2, <2>1, <2>2, <3>1 DEF Stops
  <2>. HIDE DEF new
  <2>4. WriterInv'
    <3>1. screen.con[n].orig = Screen(n).orig /\ screen.con[n].con_size = Screen(n).con_size
      BY <1>1, Running DEF IsScreen
    <3>2. ch = Backspace => p > Screen(n).orig \/ n = 0
      <4>1. ASSUME ch = Backspace, n # 0 PROVE p > Screen(n).orig
        <5>1. p = screen.con[n].cursor
          BY <1>2, <4>1
        <5>2. p - 1 \in Area(n) /\ p \in Area(n)
          BY <1>2, <2>1, <4>1, <5>1
        <5>3. Screen(n).orig \in Nat /\ Screen(n).con_size \in Nat
          BY ConsolesFollow, Sizes
        <5>. QED BY <5>2, <5>3 DEF Area
      <4>. QED BY <4>1
    <3>. QED BY <1>2, <2>1, <2>3, <3>1, <3>2 DEF WriterInv
  <2>5. ~Behind(n)'
    BY <2>3 DEF Behind
  <2>6. CursorFits(screen', n)
    BY <1>3, <1>4, Zenon DEF CursorFits, Offset
  <2>. QED BY <2>3, <2>4, <2>5, <2>6, <1>7
<1>. QED BY <1>5, <1>6
\* l.60-70.
LEMMA TtyStoreKeeps ==
  ASSUME ConsoleInv, TtyStore
  PROVE  ConsoleInv' /\ WritesOwn
<1>1. /\ failed = 0 /\ writer.pc = "store"
      /\ screen' = Store(screen, writer.con, writer.ch, writer.pch, writer.reg)
      /\ writer' = [Idle EXCEPT !.pc = IF CursorFits(screen', writer.con) THEN "loop" ELSE "wrap",
                                !.con = writer.con]
      /\ current' = current /\ printed' = printed /\ failed' = failed /\ raced' = raced
  BY Zenon DEF TtyStore, At, histories
<1>2. PICK n \in Consoles, ch \in Chars, p \in Int, reg \in Int :
        /\ p \in Area(n) /\ n = writer.con /\ ch = writer.ch /\ p = writer.pch /\ reg = writer.reg
        /\ Screen(n).orig <= reg /\ reg <= Screen(n).orig + Screen(n).con_size
        /\ ch = Backspace => p > Screen(n).orig \/ n = 0
  <2>1. /\ WriterInv /\ writer.con \in Consoles /\ writer.pch \in Int /\ writer.reg \in Int
    BY <1>1, Running
  <2>. QED BY <1>1, <2>1 DEF WriterInv
<1>3. ch = Backspace => p - 1 \in Area(n) \/ p - 1 \notin Cells
  <2>1. Area(n) = Screen(n).orig .. Screen(n).orig + Screen(n).con_size - 1
    BY DEF Area
  <2>2. Screen(n).orig \in Nat /\ Screen(n).con_size \in Nat /\ (n = 0 => Screen(n).orig = 0)
    BY ConsolesFollow, Sizes
  <2>3. CASE p > Screen(n).orig
    BY <1>2, <2>1, <2>2, <2>3
  <2>4. CASE n = 0
    <3>1. p = 0 \/ p > Screen(n).orig
      BY <1>2, <2>1, <2>2, <2>4
    <3>2. p = 0 => p - 1 \notin Cells
      BY DEF Cells
    <3>. QED BY <2>3, <3>1, <3>2
  <2>. QED BY <1>2, <2>3, <2>4
<1>4. Stored(screen, screen', n, ch, p, reg)
  <2>1. IsScreen(screen)
    BY <1>1, Running
  <2>2. Stored(screen, Store(screen, n, ch, p, reg), n, ch, p, reg)
    BY <1>3, <2>1, StoreEffect
  <2>. QED BY <1>1, <1>2, <2>2
<1>5. /\ Writes(screen, screen', n) /\ SameRegisters(screen, screen')
      /\ screen'.con[n] = [screen.con[n] EXCEPT !.cursor = reg]
  BY <1>4 DEF Stored
<1>6. screen'.con[n].cursor = reg /\ IsScreen(screen')
  <2>1. screen.con[n] \in [orig : Int, con_size : Int, cursor : Int, crtc_start : Int,
                           is_full : BOOLEAN]
    BY <1>1, Running DEF IsScreen
  <2>. QED BY <1>5, <2>1 DEF Writes
<1>7. CursorFits(screen', n) <=> reg \in Area(n)
  BY <1>6, FitsArea
<1>. DEFINE stop == IF CursorFits(screen', n) THEN "loop" ELSE "wrap"
<1>8. /\ WriterType(writer') /\ writer'.pc = stop /\ writer'.con = n
  <2>1. stop \in Stops /\ writer' = [Idle EXCEPT !.pc = stop, !.con = n]
    BY <1>1, <1>2 DEF Stops
  <2>. HIDE DEF stop
  <2>. QED BY <2>1, IdleAt
<1>9. IF Behind(n)' THEN screen'.con[n].cursor = Screen(n).orig + Screen(n).con_size
      ELSE CursorFits(screen', n)
  <2>1. CASE CursorFits(screen', n)
    BY <1>8, <2>1 DEF Behind
  <2>2. CASE ~CursorFits(screen', n)
    <3>1. Screen(n).orig \in Nat /\ Screen(n).con_size \in Nat
      BY ConsolesFollow, Sizes
    <3>2. reg = Screen(n).orig + Screen(n).con_size
      BY <1>2, <1>7, <2>2, <3>1 DEF Area
    <3>. QED BY <1>6, <1>8, <2>2, <3>2 DEF Behind
  <2>. QED BY <2>1, <2>2
<1>10. WriterInv'
  BY <1>8 DEF WriterInv
<1>11. WindowInv(n)'
  BY <1>8 DEF Moving, WindowInv
<1>12. ~raced => RegistersInv'
  BY <1>1, <1>2, <1>5, <1>8, RegistersKept
<1>. QED
  <2>1. current' \in Consoles /\ printed' \in Nat
    BY <1>1, Running
  <2>2. writer' \in [pc : Stops, con : Consoles, ch : Chars \cup {Blank}, pch : Int,
                      row : Int, reg : Int]
    BY <1>8 DEF WriterType
  <2>. QED BY <1>1, <1>2, <1>5, <1>8, <1>9, <1>10, <1>11, <1>12, <2>1, <2>2, TtyKeeps

\* l.78-81.
LEMMA TtyWrapKeeps ==
  ASSUME ConsoleInv, TtyWrap
  PROVE  ConsoleInv' /\ WritesOwn
<1>1. /\ failed = 0 /\ writer.pc = "wrap" /\ screen' = CopyToTop(screen, writer.con)
      /\ writer' = [writer EXCEPT !.pc = "home", !.reg = Offset(screen, writer.con) % SCR_WIDTH]
      /\ current' = current /\ printed' = printed /\ failed' = failed /\ raced' = raced
  BY Zenon DEF TtyWrap, At, histories
<1>2. PICK n \in Consoles : n = writer.con
  BY <1>1, Running
<1>3. Behind(n) /\ screen.con[n].cursor = Screen(n).orig + Screen(n).con_size /\ IsScreen(screen)
  <2>1. Behind(n)
    BY <1>1, <1>2 DEF Behind
  <2>. QED BY <2>1, <1>1, Running DEF CursorsFit
<1>4. screen.con[n].cursor = screen.con[n].orig + screen.con[n].con_size
  BY <1>3 DEF IsScreen
<1>5. /\ Writes(screen, screen', n) /\ SameRegisters(screen, screen') /\ screen'.con = screen.con
      /\ Offset(screen, n) % SCR_WIDTH = 0
  BY <1>1, <1>2, <1>3, <1>4, CopyEffect
<1>6. WriterType(writer') /\ writer'.pc = "home" /\ writer'.con = n /\ writer'.reg = 0
  <2>1. WriterType(writer)
    BY <1>1, Running DEF WriterType
  <2>2. writer' = [writer EXCEPT !.pc = "home", !.reg = 0]
    BY <1>1, <1>2, <1>5
  <2>. DEFINE w == [writer EXCEPT !.pc = "home"]
  <2>3. WriterType(w) /\ w.pc = "home" /\ w.con = n
    BY <1>2, <2>1 DEF WriterType, Stops
  <2>4. writer' = [w EXCEPT !.reg = 0]
    BY <2>2
  <2>. HIDE DEF w
  <2>. QED BY <2>3, <2>4 DEF WriterType
<1>7. Behind(n)'
  BY <1>6 DEF Behind
<1>8. WriterInv' /\ WindowInv(n)'
  BY <1>6 DEF WriterInv, Moving, WindowInv
<1>9. ~raced => RegistersInv'
  BY <1>1, <1>2, <1>5, <1>6, RegistersKept
<1>. QED
  <2>1. current' \in Consoles /\ printed' \in Nat
    BY <1>1, Running
  <2>2. writer' \in [pc : Stops, con : Consoles, ch : Chars \cup {Blank}, pch : Int,
                      row : Int, reg : Int]
    BY <1>6 DEF WriterType
  <2>3. screen'.con[n].cursor = Screen(n).orig + Screen(n).con_size
    BY <1>3, <1>5
  <2>. QED BY <1>1, <1>2, <1>5, <1>6, <1>7, <1>8, <1>9, <2>1, <2>2, <2>3, TtyKeeps

\* l.82-88.
LEMMA TtyHomeKeeps ==
  ASSUME ConsoleInv, TtyHome
  PROVE  ConsoleInv' /\ WritesOwn
<1>1. /\ failed = 0 /\ writer.pc = "home" /\ screen' = Home(screen, writer.con, writer.reg)
      /\ failed' = (IF CursorFits(screen', writer.con) THEN 0 ELSE 88)
      /\ writer' = [writer EXCEPT !.pc = "loop", !.reg = 0]
      /\ current' = current /\ printed' = printed /\ raced' = raced
  BY Zenon DEF TtyHome, At, histories
<1>2. PICK n \in Consoles : n = writer.con /\ writer.reg = 0
  BY <1>1, Running DEF WriterInv
<1>3. IsScreen(screen)
  BY <1>1, Running
<1>. DEFINE cursor == screen.con[n].orig + SCR_SIZE - SCR_WIDTH
            c == [screen.con[n] EXCEPT !.crtc_start = screen.con[n].orig, !.cursor = cursor,
                                       !.is_full = TRUE]
<1>4. /\ Writes(screen, screen', n) /\ SameRegisters(screen, screen') /\ cursor \in Area(n)
      /\ screen'.con[n] = c
  <2>1. screen' = Home(screen, n, 0)
    BY <1>1, <1>2
  <2>. QED BY <1>3, <2>1, HomeEffect
<1>5. screen'.con[n].cursor = cursor /\ screen'.con[n].is_full = TRUE /\ IsScreen(screen')
  <2>1. screen.con[n] \in [orig : Int, con_size : Int, cursor : Int, crtc_start : Int,
                           is_full : BOOLEAN]
    BY <1>3 DEF IsScreen
  <2>. HIDE DEF cursor
  <2>. QED BY <1>4, <2>1 DEF Writes
<1>. HIDE DEF cursor, c
<1>6. CursorFits(screen', n) /\ failed' = 0
  <2>1. CursorFits(screen', n)
    BY <1>4, <1>5, FitsArea
  <2>. QED BY <1>1, <1>2, <2>1
<1>7. WriterType(writer') /\ writer'.pc = "loop" /\ writer'.con = n
  <2>1. WriterType(writer)
    BY <1>1, Running DEF WriterType
  <2>. QED BY <1>1, <1>2, <2>1 DEF WriterType, Stops
<1>8. ~Behind(n)' /\ WriterInv'
  BY <1>7 DEF Behind, WriterInv
<1>9. WindowInv(n)'
  BY <1>7 DEF Moving, WindowInv
<1>10. ~raced => RegistersInv'
  BY <1>1, <1>2, <1>4, <1>7, RegistersKept
<1>. QED
  <2>1. current' \in Consoles /\ printed' \in Nat
    BY <1>1, Running
  <2>2. writer' \in [pc : Stops, con : Consoles, ch : Chars \cup {Blank}, pch : Int,
                      row : Int, reg : Int]
    BY <1>7 DEF WriterType
  <2>. QED BY <1>1, <1>2, <1>4, <1>6, <1>7, <1>8, <1>9, <1>10, <2>1, <2>2, TtyKeeps

\* flush(con) begins.
LEMMA StartFlushIs ==
  ASSUME NEW s, IsScreen(s), NEW n \in Consoles
  PROVE  LET w == StartFlush(s, n)
         IN  /\ WriterType(w) /\ w.pc \in {"idle", "set_cursor"}
             /\ n = current => w.pc = "set_cursor" /\ w.con = n /\ w.reg = s.con[n].cursor
             /\ n # current => w.pc = "idle"
<1>1. WriterType(Idle) /\ Idle.pc = "idle"
  BY ConsolesFollow DEF WriterType, Idle, Stops
<1>2. CASE n = current
  <2>. DEFINE v == [Idle EXCEPT !.pc = "set_cursor", !.con = n]
  <2>1. WriterType(v) /\ v.pc = "set_cursor" /\ v.con = n
    <3>1. "set_cursor" \in Stops
      BY DEF Stops
    <3>. QED BY <3>1, IdleAt
  <2>2. [Idle EXCEPT !.pc = "set_cursor", !.con = n, !.reg = s.con[n].cursor]
          = [v EXCEPT !.reg = s.con[n].cursor]
    OBVIOUS
  <2>. HIDE DEF v
  <2>3. s.con[n].cursor \in Int
    BY ConsoleNumbers
  <2>4. [v EXCEPT !.reg = s.con[n].cursor].pc = "set_cursor"
        /\ [v EXCEPT !.reg = s.con[n].cursor].con = n
        /\ [v EXCEPT !.reg = s.con[n].cursor].reg = s.con[n].cursor
        /\ WriterType([v EXCEPT !.reg = s.con[n].cursor])
    BY <2>1, <2>3 DEF WriterType
  <2>5. StartFlush(s, n) = [v EXCEPT !.reg = s.con[n].cursor]
    BY <1>2, <2>2 DEF StartFlush
  <2>. QED BY <1>2, <2>4, <2>5
<1>3. CASE n # current
  BY <1>1, <1>3 DEF StartFlush
<1>. QED BY <1>2, <1>3

\* l.90-93, a turn, or the way out.
LEMMA TtyLoopKeeps ==
  ASSUME ConsoleInv, TtyLoop
  PROVE  ConsoleInv' /\ WritesOwn
<1>1. /\ failed = 0 /\ writer.pc = "loop"
      /\ current' = current /\ printed' = printed /\ failed' = failed /\ raced' = raced
  BY Zenon DEF TtyLoop, At, histories
<1>2. PICK n \in Consoles : n = writer.con
  BY <1>1, Running
<1>3. IsScreen(screen) /\ CursorFits(screen, n) /\ ~Behind(n)
  <2>1. ~Behind(n)
    BY <1>1, <1>2 DEF Behind
  <2>. QED BY <2>1, <1>1, Running DEF CursorsFit
<1>5. current' \in Consoles /\ printed' \in Nat
  BY <1>1, Running
<1>6. CASE InWindow(screen.con[n])
  <2>1. writer' = StartFlush(screen, n) /\ screen' = screen
    BY <1>2, <1>6 DEF TtyLoop
  <2>2. /\ WriterType(writer') /\ writer'.pc \in {"idle", "set_cursor"}
        /\ n = current => /\ writer'.pc = "set_cursor" /\ writer'.con = n
                          /\ writer'.reg = screen.con[n].cursor
        /\ n # current => writer'.pc = "idle"
    BY <1>3, <2>1, StartFlushIs
  <2>3. Writes(screen, screen', n)
    BY <1>3, <2>1 DEF Writes
  <2>4. ~Behind(n)' /\ WriterInv'
    BY <1>1, <2>2 DEF Behind, WriterInv
  <2>5. WindowInv(n)'
    BY <1>3, <1>6, <2>1, InWindowNotPast DEF WindowInv
  <2>6. ~raced => RegistersInv'
    <3>1. ~raced /\ n # current => ShownBy(screen, current)
      BY <1>1, <1>2, Running DEF RegistersInv
    <3>. QED BY <1>1, <2>1, <2>2, <3>1 DEF RegistersInv, ShownBy
  <2>7. writer' \in [pc : Stops, con : Consoles, ch : Chars \cup {Blank}, pch : Int,
                      row : Int, reg : Int] /\ (writer'.con = n \/ writer'.pc = "idle")
    BY <2>2 DEF WriterType
  <2>8. CursorFits(screen', n)
    BY <1>3, <2>1
  <2>. QED BY <1>1, <1>2, <1>5, <2>3, <2>4, <2>5, <2>6, <2>7, <2>8, TtyKeeps
<1>7. CASE ~InWindow(screen.con[n])
  <2>1. screen' = FollowCursor(screen, n) /\ writer' = writer
    BY <1>2, <1>7 DEF TtyLoop
  <2>2. /\ Writes(screen, screen', n) /\ (n # current => SameRegisters(screen, screen'))
        /\ screen'.con[n] = [screen.con[n] EXCEPT !.crtc_start = ScrollUp(screen.con[n])]
        /\ \A k \in Nat : NotPast(screen.con[n], k) => NotPast(screen'.con[n], k)
    BY <1>3, <2>1, TurnEffect
  <2>3. IsScreen(screen') /\ screen'.con[n].cursor = screen.con[n].cursor
    <3>1. screen.con[n] \in [orig : Int, con_size : Int, cursor : Int, crtc_start : Int,
                             is_full : BOOLEAN]
      BY <1>3 DEF IsScreen
    <3>. QED BY <2>2, <3>1 DEF Writes
  <2>4. CursorFits(screen', n)
    BY <1>3, <2>3, FitsArea
  <2>5. ~Behind(n)' /\ WriterInv'
    BY <1>1, <2>1 DEF Behind, WriterInv
  <2>6. WindowInv(n)'
    BY <1>1, <1>2, <2>1 DEF Moving, WindowInv
  <2>7. ~raced => RegistersInv'
    BY <1>1, <1>2, <2>1, <2>2, RegistersKept
  <2>8. writer' \in [pc : Stops, con : Consoles, ch : Chars \cup {Blank}, pch : Int,
                      row : Int, reg : Int] /\ writer'.con = n
    BY <1>1, <1>2, <2>1, Running
  <2>. QED BY <1>1, <1>2, <1>5, <2>2, <2>4, <2>5, <2>6, <2>7, <2>8, TtyKeeps
<1>. QED BY <1>6, <1>7

\* A register changes, no console does.
LEMMA RegisterWritten ==
  ASSUME ConsoleInv, failed = 0, NEW n \in Consoles, ~Behind(n),
         n = writer.con \/ writer.pc = "idle", ~Moving(n),
         IsScreen(screen'), screen'.con = screen.con, screen'.vmem = screen.vmem,
         WriterType(writer'), writer'.con = n \/ writer'.pc = "idle",
         writer'.pc \in {"idle", "set_cursor", "set_video_start_addr"},
         writer'.pc # "idle" => n = current', current' \in Consoles,
         printed' = printed, failed' = failed, raced' = raced,
         ~raced => RegistersInv'
  PROVE  ConsoleInv' /\ WritesOwn
<1>1. Writes(screen, screen', n)
  BY DEF Writes
<1>2. CursorFits(screen', n)
  <2>1. CursorFits(screen, n)
    BY Running DEF CursorsFit
  <2>. QED BY <2>1, Zenon DEF CursorFits, Offset
<1>3. ~Behind(n)' /\ WriterInv'
  BY DEF Behind, WriterInv
<1>4. ~raced => WindowInv(n)'
  <2>1. ~raced => WindowInv(n)
    BY Running
  <2>. QED BY <2>1, Zenon DEF WindowInv
<1>5. WritesOwn
  BY DEF WritesOwn
<1>. QED
  <2>1. printed' \in Nat /\ failed' = 0
    BY Running
  <2>2. writer' \in [pc : Stops, con : Consoles, ch : Chars \cup {Blank}, pch : Int,
                      row : Int, reg : Int]
    BY DEF WriterType
  <2>. QED BY <1>1, <1>2, <1>3, <1>4, <1>5, <2>1, <2>2, TtyKeeps

\* set_cursor().
LEMMA TtySetCursorKeeps ==
  ASSUME ConsoleInv, TtySetCursor
  PROVE  ConsoleInv' /\ WritesOwn
<1>1. /\ failed = 0 /\ writer.pc = "set_cursor" /\ screen' = [screen EXCEPT !.cursor = writer.reg]
      /\ writer' = [writer EXCEPT !.pc = "set_video_start_addr",
                                  !.reg = screen.con[writer.con].crtc_start]
      /\ current' = current /\ printed' = printed /\ failed' = failed /\ raced' = raced
  BY Zenon DEF TtySetCursor, At, histories
<1>2. PICK n \in Consoles : n = writer.con /\ n = current
  BY <1>1, Running DEF WriterInv
<1>3. WriterType(writer) /\ IsScreen(screen) /\ ~Behind(n) /\ ~Moving(n)
  BY <1>1, Running DEF WriterType, Behind, Moving
<1>4. IsScreen(screen') /\ screen'.con = screen.con /\ screen'.vmem = screen.vmem
      /\ screen'.cursor = writer.reg
  BY <1>1, <1>3 DEF IsScreen, WriterType
<1>5. /\ WriterType(writer') /\ writer'.pc = "set_video_start_addr" /\ writer'.con = n
      /\ writer'.reg = screen.con[n].crtc_start
  <2>. DEFINE w == [writer EXCEPT !.pc = "set_video_start_addr"]
  <2>1. WriterType(w) /\ w.pc = "set_video_start_addr" /\ w.con = n
    BY <1>2, <1>3 DEF WriterType, Stops
  <2>2. writer' = [w EXCEPT !.reg = screen.con[n].crtc_start]
    BY <1>1, <1>2
  <2>3. screen.con[n].crtc_start \in Int
    BY <1>3, ConsoleNumbers
  <2>. HIDE DEF w
  <2>. QED BY <2>1, <2>2, <2>3 DEF WriterType
<1>6. ~raced => RegistersInv'
  <2>1. ~raced => writer.reg = screen.con[current].cursor
    BY <1>1, Running DEF RegistersInv
  <2>. QED BY <1>1, <1>2, <1>4, <1>5, <2>1 DEF RegistersInv
<1>. QED
  <2>1. current' \in Consoles
    BY <1>1, Running
  <2>. QED BY <1>1, <1>2, <1>3, <1>4, <1>5, <1>6, <2>1, RegisterWritten

\* set_video_start_addr().
LEMMA TtySetVideoStartAddrKeeps ==
  ASSUME ConsoleInv, TtySetVideoStartAddr
  PROVE  ConsoleInv' /\ WritesOwn
<1>1. /\ failed = 0 /\ writer.pc = "set_video_start_addr"
      /\ screen' = [screen EXCEPT !.start = writer.reg] /\ writer' = Idle
      /\ current' = current /\ printed' = printed /\ failed' = failed /\ raced' = raced
  BY Zenon DEF TtySetVideoStartAddr, At, histories
<1>2. PICK n \in Consoles : n = writer.con /\ n = current
  BY <1>1, Running DEF WriterInv
<1>3. WriterType(writer) /\ IsScreen(screen) /\ ~Behind(n) /\ ~Moving(n)
  BY <1>1, Running DEF WriterType, Behind, Moving
<1>4. IsScreen(screen') /\ screen'.con = screen.con /\ screen'.vmem = screen.vmem
      /\ screen'.start = writer.reg /\ screen'.cursor = screen.cursor
  BY <1>1, <1>3 DEF IsScreen, WriterType
<1>5. WriterType(writer') /\ writer'.pc = "idle"
  BY <1>1, ConsolesFollow DEF WriterType, Idle, Stops
<1>6. ~raced => RegistersInv'
  <2>1. ~raced => /\ screen.cursor = screen.con[current].cursor
                  /\ writer.reg = screen.con[current].crtc_start
    BY <1>1, Running DEF RegistersInv
  <2>. QED BY <1>1, <1>2, <1>4, <1>5, <2>1 DEF RegistersInv, ShownBy
<1>. QED
  <2>1. current' \in Consoles
    BY <1>1, Running
  <2>. QED BY <1>1, <1>2, <1>3, <1>4, <1>5, <1>6, <2>1, RegisterWritten

\* Ctrl+Fn.
LEMMA SelectConsoleKeeps ==
  ASSUME ConsoleInv, NEW n \in Consoles, SelectConsole(n)
  PROVE  ConsoleInv' /\ WritesOwn
<1>1. /\ failed = 0 /\ writer.pc = "idle" /\ screen' = screen /\ current' = n
      /\ writer' = [Idle EXCEPT !.pc = "set_cursor", !.con = n, !.reg = screen.con[n].cursor]
      /\ printed' = printed /\ failed' = failed /\ raced' = raced
  BY Zenon DEF SelectConsole, Ready, At, histories
<1>2. IsScreen(screen) /\ ~Behind(n) /\ ~Moving(n)
  BY <1>1, Running DEF Behind, Moving
<1>3. WriterType(writer') /\ writer'.pc = "set_cursor" /\ writer'.con = n
      /\ writer'.reg = screen.con[n].cursor
  <2>. DEFINE v == [Idle EXCEPT !.pc = "set_cursor", !.con = n]
  <2>1. WriterType(v) /\ v.pc = "set_cursor" /\ v.con = n
    <3>1. "set_cursor" \in Stops
      BY DEF Stops
    <3>. QED BY <3>1, IdleAt
  <2>2. writer' = [v EXCEPT !.reg = screen.con[n].cursor]
    BY <1>1
  <2>. HIDE DEF v
  <2>3. screen.con[n].cursor \in Int
    BY <1>2, ConsoleNumbers
  <2>. QED BY <2>1, <2>2, <2>3 DEF WriterType
<1>4. RegistersInv'
  BY <1>1, <1>3 DEF RegistersInv
<1>5. IsScreen(screen') /\ screen'.con = screen.con /\ screen'.vmem = screen.vmem
  BY <1>1, <1>2
<1>. QED BY <1>1, <1>2, <1>3, <1>4, <1>5, RegisterWritten

\* Shift+Up, Shift+Down.
LEMMA TtyScrollKeeps ==
  ASSUME ConsoleInv, NEW dir, TtyScroll(dir)
  PROVE  ConsoleInv' /\ WritesOwn
<1>. DEFINE top == Scrolled(screen.con[current], dir)
<1>1. /\ failed = 0 /\ writer.pc = "idle" /\ ~raced
      /\ screen' = [screen EXCEPT !.con[current].crtc_start = top]
      /\ writer' = StartFlush(screen', current)
      /\ current' = current /\ printed' = printed /\ failed' = failed /\ raced' = raced
  BY Zenon DEF TtyScroll, Ready, At, histories
<1>2. PICK n \in Consoles : n = current
  BY <1>1, Running
<1>3. IsScreen(screen) /\ ~Behind(n) /\ CursorFits(screen, n)
  <2>1. ~Behind(n)
    BY <1>1 DEF Behind
  <2>. QED BY <2>1, <1>1, Running DEF CursorsFit
<1>4. /\ top \in Tops(n) /\ top \in Int
      /\ \A k \in Nat : NotPast(screen.con[n], k)
              => NotPast([screen.con[n] EXCEPT !.crtc_start = top], k)
  BY <1>2, <1>3, ScrolledWithin
<1>. HIDE DEF top
<1>5. /\ Writes(screen, screen', n) /\ screen'.vmem = screen.vmem
      /\ screen'.con[n] = [screen.con[n] EXCEPT !.crtc_start = top]
  BY <1>1, <1>2, <1>3, <1>4, ScrollEffect
<1>6. IsScreen(screen') /\ screen'.con[n].cursor = screen.con[n].cursor
  <2>1. screen.con[n] \in [orig : Int, con_size : Int, cursor : Int, crtc_start : Int,
                           is_full : BOOLEAN]
    BY <1>3 DEF IsScreen
  <2>. QED BY <1>5, <2>1 DEF Writes
<1>7. CursorFits(screen', n)
  BY <1>3, <1>6, FitsArea
<1>8. WriterType(writer') /\ writer'.pc = "set_cursor" /\ writer'.con = n
      /\ writer'.reg = screen'.con[n].cursor
  BY <1>1, <1>2, <1>6, StartFlushIs
<1>9. ~Behind(n)' /\ WriterInv' /\ RegistersInv'
  BY <1>1, <1>2, <1>8 DEF Behind, WriterInv, RegistersInv
<1>10. WindowInv(n)'
  <2>1. Margin \in Nat
    BY Sizes
  <2>2. NotPast(screen.con[n], Margin)
    <3>1. WindowInv(n) /\ ~Moving(n)
      BY <1>1, Running DEF Moving
    <3>. QED BY <3>1 DEF WindowInv
  <2>3. NotPast(screen'.con[n], Margin)
    BY <1>4, <1>5, <2>1, <2>2
  <2>. QED BY <2>3 DEF WindowInv
<1>11. WritesOwn
  BY <1>5 DEF WritesOwn
<1>. QED
  <2>1. current' \in Consoles /\ printed' \in Nat
    BY <1>1, Running
  <2>2. writer' \in [pc : Stops, con : Consoles, ch : Chars \cup {Blank}, pch : Int,
                      row : Int, reg : Int]
    BY <1>8 DEF WriterType
  <2>. QED BY <1>1, <1>5, <1>7, <1>8, <1>9, <1>10, <1>11, <2>1, <2>2, TtyKeeps

\* l.53-58.
LEMMA TtyOutCharKeeps ==
  ASSUME ConsoleInv, NEW n \in Consoles, NEW ch \in Chars, TtyOutChar(n, ch)
  PROVE  ConsoleInv' /\ WritesOwn
<1>1. /\ failed = 0 /\ writer.pc = "idle" /\ ~raced
      /\ screen' = screen /\ current' = current /\ printed' = printed /\ raced' = raced
  BY Zenon DEF TtyOutChar, Ready, At
<1>2. IsScreen(screen) /\ CursorFits(screen, n) /\ ~Behind(n)
  <2>1. ~Behind(n)
    BY <1>1 DEF Behind
  <2>. QED BY <2>1, <1>1, Running DEF CursorsFit
<1>3. PICK p \in Int, row \in 0 .. NrRows - 1 :
        /\ p = screen.con[n].cursor /\ p \in Area(n) /\ row = Offset(screen, n) \div SCR_WIDTH
  <2>1. screen.con[n].cursor \in Int /\ screen.con[n].cursor \in Area(n)
    BY <1>2, ConsoleNumbers, FitsArea
  <2>2. \E row \in 0 .. NrRows - 1 : row = Offset(screen, n) \div SCR_WIDTH
    BY <1>2, RowsExist DEF InRows
  <2>. QED BY <2>1, <2>2
<1>4. /\ failed' = 0
      /\ writer' = [pc |-> "put", con |-> n, ch |-> ch, pch |-> p, row |-> row, reg |-> 0]
  BY <1>1, <1>2, <1>3 DEF TtyOutChar
<1>5. WriterType(writer') /\ writer'.pc = "put" /\ writer'.con = n /\ writer'.ch = ch
      /\ writer'.pch = p /\ writer'.row = row
  BY <1>4 DEF WriterType, Stops
<1>8. WindowInv(n)'
  BY <1>5 DEF Moving, WindowInv
<1>9. ~Behind(n)' /\ WriterInv'
  BY <1>1, <1>3, <1>5 DEF Behind, WriterInv
<1>10. Writes(screen, screen', n) /\ SameRegisters(screen, screen') /\ CursorFits(screen', n)
  BY <1>1, <1>2 DEF Writes, SameRegisters
<1>11. RegistersInv'
  BY <1>1, <1>5, <1>10, RegistersKept
<1>12. WritesOwn
  BY <1>1 DEF WritesOwn
<1>. QED
  <2>1. current' \in Consoles /\ printed' \in Nat
    BY <1>1, Running
  <2>2. writer' \in [pc : Stops, con : Consoles, ch : Chars \cup {Blank}, pch : Int,
                      row : Int, reg : Int]
    BY <1>5 DEF WriterType
  <2>. QED BY <1>1, <1>4, <1>5, <1>8, <1>9, <1>10, <1>11, <1>12, <2>1, <2>2, TtyKeeps

\* sys_printx().
LEMMA PrintxKeeps ==
  ASSUME ConsoleInv, NEW str \in Strings, Printx(str)
  PROVE  ConsoleInv' /\ WritesOwn
<1>. DEFINE st == OutString(screen, str)
<1>1. /\ failed = 0 /\ printed' = printed + 1 /\ screen' = st.screen /\ failed' = st.failed
      /\ raced' = (raced \/ (writer.pc # "idle" /\ writer.con = 0))
      /\ current' = current /\ writer' = writer
  BY Zenon DEF Printx
<1>2. 0 \in Consoles /\ str \in Seq({Letter, Newline}) /\ IsScreen(screen)
  BY <1>1, Running, ConsolesFollow, ConsoleAssumption
<1>3. Printed(screen, st, 0)
  BY <1>2, OutStringEffect
<1>. HIDE DEF st
<1>4. /\ Writes(screen, screen', 0)
      /\ 0 # current => SameRegisters(screen, screen')
      /\ CursorFits(screen, 0) /\ failed' = 0 => CursorFits(screen', 0)
      /\ ~CursorFits(screen, 0) /\ failed' = 0 => screen' = screen
      /\ 0 = current /\ ShownBy(screen, 0) /\ failed' = 0 => ShownBy(screen', 0)
      /\ CursorFits(screen, 0) /\ NotPast(screen.con[0], Margin)
           => failed' = 0 /\ NotPast(screen'.con[0], Margin)
  BY <1>1, <1>3, Zenon DEF Printed
<1>5. ConsoleTypes'
  <2>1. raced \in BOOLEAN /\ printed \in Nat
    BY <1>1, Running
  <2>2. raced' \in BOOLEAN /\ printed' \in Nat
    BY <1>1, <2>1
  <2>3. IsScreen(screen)'
    BY <1>4 DEF Writes, IsScreen
  <2>. QED BY <1>1, <2>2, <2>3, Running DEF ConsoleTypes
<1>6. \A m \in Consoles : m # 0 => screen'.con[m] = screen.con[m]
  BY <1>4 DEF Writes
<1>7. \A m \in Consoles : Behind(m)' <=> Behind(m)
  BY <1>1 DEF Behind
<1>8. ASSUME failed' = 0 PROVE CursorsFit'
  <2>1. ASSUME NEW m \in Consoles
        PROVE  IF Behind(m)' THEN screen'.con[m].cursor = Screen(m).orig + Screen(m).con_size
               ELSE CursorFits(screen', m)
    <3>1. IF Behind(m) THEN screen.con[m].cursor = Screen(m).orig + Screen(m).con_size
          ELSE CursorFits(screen, m)
      BY <1>1, Running DEF CursorsFit
    <3>2. CASE m # 0
      <4>1. CursorFits(screen', m) <=> CursorFits(screen, m)
        BY <1>6, <3>2, Zenon DEF CursorFits, Offset
      <4>. QED BY <1>6, <1>7, <3>1, <3>2, <4>1
    <3>3. CASE m = 0 /\ ~Behind(m)
      BY <1>4, <1>7, <1>8, <3>1, <3>3
    <3>4. CASE m = 0 /\ Behind(m)
      <4>1. ~CursorFits(screen, 0)
        <5>1. Screen(0).orig \in Nat /\ Screen(0).con_size \in Nat
          BY <1>2, ConsolesFollow, Sizes
        <5>2. screen.con[0].cursor \notin Area(0)
          BY <3>1, <3>4, <5>1 DEF Area
        <5>. QED BY <1>2, <5>2, FitsArea
      <4>. QED BY <1>4, <1>7, <1>8, <3>1, <3>4, <4>1
    <3>. QED BY <3>2, <3>3, <3>4
  <2>. QED BY <2>1 DEF CursorsFit
<1>9. WriterInv'
  <2>1. WriterInv /\ writer.con \in Consoles
    BY <1>1, Running
  <2>. DEFINE n == writer.con
  <2>2. writer.pc = "put" /\ ~(raced' /\ n = 0) => /\ writer.pch = screen'.con[n].cursor
                                                  /\ writer.row = Offset(screen', n) \div SCR_WIDTH
    <3>1. SUFFICES ASSUME writer.pc = "put", ~(raced' /\ n = 0)
                   PROVE  /\ writer.pch = screen'.con[n].cursor
                          /\ writer.row = Offset(screen', n) \div SCR_WIDTH
      BY Zenon
    <3>2. n # 0
      BY <1>1, <3>1
    <3>3. screen'.con[n] = screen.con[n] /\ Offset(screen', n) = Offset(screen, n)
      BY <1>6, <2>1, <3>2, Zenon DEF Offset
    <3>. QED BY <2>1, <3>1, <3>2, <3>3 DEF WriterInv
  <2>. QED BY <1>1, <2>1, <2>2 DEF WriterInv
<1>10. ASSUME ~raced' PROVE failed' = 0 /\ (\A m \in Consoles : WindowInv(m)') /\ RegistersInv'
  <2>1. ~raced /\ (writer.pc = "idle" \/ writer.con # 0)
    BY <1>1, <1>10
  <2>2. (\A m \in Consoles : WindowInv(m)) /\ RegistersInv
    BY <1>1, <2>1, Running
  <2>3. ~Behind(0) /\ ~Behind(0)' /\ CursorFits(screen, 0)
    <3>1. ~Behind(0)
      BY <2>1 DEF Behind
    <3>. QED BY <1>1, <1>2, <1>7, <3>1, Running DEF CursorsFit
  <2>4. ~Moving(0)
    BY <2>1 DEF Moving
  <2>5. NotPast(screen.con[0], Margin)
    BY <1>2, <2>2, <2>4 DEF WindowInv
  <2>7. failed' = 0 /\ NotPast(screen'.con[0], Margin)
    BY <1>4, <2>3, <2>5
  <2>9. WindowInv(0)'
    BY <2>7 DEF WindowInv
  <2>10. ASSUME NEW m \in Consoles, m # 0 PROVE WindowInv(m)'
    <3>1. screen'.con[m] = screen.con[m] /\ (Moving(m)' <=> Moving(m))
      BY <1>1, <1>6, <2>10 DEF Moving
    <3>. QED BY <2>2, <3>1, Zenon DEF WindowInv
  <2>11. RegistersInv'
    <3>1. writer.pc \in {"set_cursor", "set_video_start_addr"} => writer.con = current
      BY <1>1, Running DEF WriterInv
    <3>2. CASE current # 0
      <4>1. current \in Consoles
        BY <1>1, Running
      <4>2. screen'.con[current] = screen.con[current] /\ SameRegisters(screen, screen')
        BY <1>4, <1>6, <3>2, <4>1
      <4>. QED BY <1>1, <2>2, <4>2 DEF RegistersInv, SameRegisters, ShownBy
    <3>3. CASE current = 0
      <4>1. writer.pc \notin {"set_cursor", "set_video_start_addr"}
        BY <2>1, <3>1, <3>3
      <4>2. writer.pc = "idle" \/ writer.con # current
        BY <2>1, <3>3
      <4>3. ShownBy(screen, 0)
        BY <2>2, <3>3, <4>2 DEF RegistersInv
      <4>4. ShownBy(screen', 0)
        BY <1>4, <2>7, <3>3, <4>3
      <4>. QED BY <1>1, <3>3, <4>1, <4>4 DEF RegistersInv, ShownBy
    <3>. QED BY <3>2, <3>3
  <2>. QED BY <2>7, <2>9, <2>10, <2>11
<1>11. WritesOwn
  <2>1. printed' > printed
    <3>1. printed \in Nat
      BY <1>1, Running
    <3>. QED BY <1>1, <3>1
  <2>. QED BY <1>4, <2>1 DEF WritesOwn
<1>. QED BY <1>5, <1>8, <1>9, <1>10, <1>11 DEF ConsoleInv

\* Every step keeps the invariant and writes on its own console.
LEMMA ConsoleStep ==
  ASSUME ConsoleInv, [ConsoleNext]_consoleVars
  PROVE  ConsoleInv' /\ WritesOwn
<1>1. ASSUME TtyStep PROVE ConsoleInv' /\ WritesOwn
  BY <1>1, TtyPutKeeps, TtyStoreKeeps, TtyWrapKeeps, TtyHomeKeeps, TtyLoopKeeps,
     TtySetCursorKeeps, TtySetVideoStartAddrKeeps, Zenon DEF TtyStep
<1>2. ASSUME NEW c \in Consoles, NEW ch \in {Letter, Newline, Backspace}, TtyOutChar(c, ch)
      PROVE  ConsoleInv' /\ WritesOwn
  BY <1>2, TtyOutCharKeeps DEF Chars
<1>3. ASSUME NEW dir \in {SCR_UP, SCR_DN}, TtyScroll(dir) PROVE ConsoleInv' /\ WritesOwn
  BY <1>3, TtyScrollKeeps
<1>4. ASSUME NEW n \in Consoles, SelectConsole(n) PROVE ConsoleInv' /\ WritesOwn
  BY <1>4, SelectConsoleKeeps
<1>5. ASSUME NEW str \in Strings, Printx(str) PROVE ConsoleInv' /\ WritesOwn
  BY <1>5, PrintxKeeps
<1>6. ASSUME UNCHANGED consoleVars PROVE ConsoleInv' /\ WritesOwn
  <2>1. /\ screen' = screen /\ current' = current /\ writer' = writer /\ printed' = printed
        /\ failed' = failed /\ raced' = raced
    BY <1>6, Zenon DEF consoleVars, histories
  <2>2. ConsoleTypes' <=> ConsoleTypes
    BY <2>1 DEF ConsoleTypes, IsScreen
  <2>3. CursorsFit' <=> CursorsFit
    BY <2>1 DEF CursorsFit, Behind, CursorFits, Offset
  <2>4. WriterInv' <=> WriterInv
    BY <2>1 DEF WriterInv, Offset
  <2>5. \A n \in Consoles : WindowInv(n)' <=> WindowInv(n)
    BY <2>1 DEF WindowInv, Moving
  <2>6. RegistersInv' <=> RegistersInv
    BY <2>1 DEF RegistersInv, ShownBy
  <2>. QED BY <2>1, <2>2, <2>3, <2>4, <2>5, <2>6, Zenon DEF ConsoleInv, WritesOwn
<1>. QED BY <1>1, <1>2, <1>3, <1>4, <1>5, <1>6, Zenon DEF ConsoleNext

----------------------------------------------------------------------------
\* What it gives.

\* The invariant holds.
THEOREM ConsoleInvariant == ConsoleSpec => []ConsoleInv
<1>1. ConsoleInv /\ [ConsoleNext]_consoleVars => ConsoleInv'
  BY ConsoleStep
<1>. QED BY <1>1, ConsoleInitInv, PTL DEF ConsoleSpec

\* The assertions of out_char() at l.55 and l.88 hold, and the loop of l.90 ends when
\* sys_printx() runs it, unless a printx() has cut into TTY's work on the first console.
THEOREM AssertionsHold == ConsoleSpec => []OnlyRacesFail
<1>1. ConsoleInv => OnlyRacesFail
  BY DEF ConsoleInv, OnlyRacesFail
<1>. QED BY <1>1, ConsoleInvariant, PTL

\* Whatever the race does, the window of a console never leaves it; without one the cursor
\* stays in it too and between two calls the CRTC shows the current console.
THEOREM WindowsStayInside ==
  ConsoleSpec => []((\A n \in Consoles : WindowInside(n)) /\ (Quiet /\ ~raced => CrtcShowsCurrent))
<1>1. ASSUME ConsoleInv, NEW n \in Consoles PROVE WindowInside(n)
  <2>1. IsScreen(screen)
    BY <1>1 DEF ConsoleInv, ConsoleTypes
  <2>2. PICK r \in 0 .. NrRows - SCR_ROWS : screen.con[n].crtc_start = screen.con[n].orig + Start(r)
    BY <2>1, ConsoleNumbers
  <2>3. screen.con[n].con_size \div SCR_WIDTH = NrRows
    <3>1. NrRows \in Nat /\ screen.con[n].con_size = Start(NrRows)
      BY <2>1, Sizes, ConsoleNumbers
    <3>2. Start(NrRows) \in Nat /\ Start(NrRows) < Start(NrRows) + SCR_WIDTH
      BY <3>1, RowsFollow
    <3>. QED BY <3>1, <3>2, OffsetInRow
  <2>4. screen.con[n].crtc_start \in {screen.con[n].orig + q * SCR_WIDTH :
                                        q \in 0 .. (screen.con[n].con_size \div SCR_WIDTH) - SCR_ROWS}
    <3>1. r \in 0 .. (screen.con[n].con_size \div SCR_WIDTH) - SCR_ROWS
      BY <2>3
    <3>2. screen.con[n].crtc_start = screen.con[n].orig + r * SCR_WIDTH
      BY <2>2, Zenon DEF Start
    <3>. QED BY <3>1, <3>2, Zenon
  <2>5. Quiet /\ ~raced => CursorFits(screen, n)
    <3>1. Quiet => ~Behind(n)
      BY DEF Quiet, Behind
    <3>2. Quiet => CursorsFit
      BY <1>1 DEF Quiet, ConsoleInv
    <3>. QED BY <3>1, <3>2 DEF CursorsFit
  <2>. QED BY <2>4, <2>5, Zenon DEF WindowInside
<1>2. ASSUME ConsoleInv PROVE Quiet /\ ~raced => CrtcShowsCurrent
  BY <1>2 DEF ConsoleInv, Quiet, RegistersInv, ShownBy, CrtcShowsCurrent
<1>3. ConsoleInv => (\A n \in Consoles : WindowInside(n)) /\ (Quiet /\ ~raced => CrtcShowsCurrent)
  BY <1>1, <1>2, Zenon
<1>. QED BY <1>3, ConsoleInvariant, PTL

\* Text is written into one's own console only; what is cleared beyond it is at most the
\* end of a row.
THEOREM ConsolesKeepApart == ConsoleSpec => OnlyBlanksSpill
<1>. DEFINE Own ==
       \A p \in DOMAIN screen.vmem :
         screen.vmem'[p] # screen.vmem[p] =>
           \E n \in Consoles :
             LET c == screen.con[n] IN
             /\ n = writer.con \/ (n = 0 /\ printed' > printed)
             /\ \/ p - c.orig \in 0 .. c.con_size - 1
                \/ /\ screen.vmem'[p] = Blank
                   /\ p - (c.orig + c.con_size) \in 0 .. SCR_WIDTH - 2
<1>1. ASSUME ConsoleInv, WritesOwn PROVE Own
  <2>1. IsScreen(screen) /\ writer.con \in Consoles /\ 0 \in Consoles
    BY <1>1, ConsolesFollow DEF ConsoleInv, ConsoleTypes
  <2>2. DOMAIN screen.vmem = Cells
    BY <2>1 DEF IsScreen
  <2>3. ASSUME NEW n \in Consoles, Writes(screen, screen', n), NEW p \in Cells,
               screen'.vmem[p] # screen.vmem[p]
        PROVE  \/ p - screen.con[n].orig \in 0 .. screen.con[n].con_size - 1
               \/ /\ screen'.vmem[p] = Blank
                  /\ p - (screen.con[n].orig + screen.con[n].con_size) \in 0 .. SCR_WIDTH - 2
    <3>1. p \in Area(n) \/ (p \in BlankedBehind(n) /\ screen'.vmem[p] = Blank)
      BY <2>3 DEF Writes
    <3>2. PICK o \in Nat, z \in Nat :
            /\ o = screen.con[n].orig /\ z = screen.con[n].con_size
            /\ o = Screen(n).orig /\ z = Screen(n).con_size
      BY <2>1, ConsoleNumbers DEF IsScreen
    <3>3. p \in Area(n) => p - o \in 0 .. z - 1
      BY <3>2 DEF Area, Cells
    <3>. QED BY <3>1, <3>2, <3>3 DEF BlankedBehind
  <2>4. ASSUME NEW p \in Cells, screen'.vmem[p] # screen.vmem[p]
        PROVE  \E n \in Consoles :
                 /\ n = writer.con \/ (n = 0 /\ printed' > printed)
                 /\ \/ p - screen.con[n].orig \in 0 .. screen.con[n].con_size - 1
                    \/ /\ screen'.vmem[p] = Blank
                       /\ p - (screen.con[n].orig + screen.con[n].con_size) \in 0 .. SCR_WIDTH - 2
    <3>1. CASE Writes(screen, screen', writer.con)
      BY <2>1, <2>3, <2>4, <3>1
    <3>2. CASE Writes(screen, screen', 0) /\ printed' > printed
      BY <2>1, <2>3, <2>4, <3>2
    <3>. QED BY <1>1, <2>4, <3>1, <3>2 DEF WritesOwn
  <2>. QED BY <2>2, <2>4
<1>2. ConsoleInv /\ [ConsoleNext]_consoleVars => [Own]_consoleVars
  BY <1>1, ConsoleStep
<1>. HIDE DEF Own
<1>3. ConsoleSpec => [][Own]_consoleVars
  BY <1>2, ConsoleInvariant, PTL DEF ConsoleSpec
<1>. QED BY <1>3 DEF OnlyBlanksSpill, Own

----------------------------------------------------------------------------
\* The paper a console is compared with.

\* A row of the screen as text.
Row == [1 .. SCR_WIDTH -> {Letter, Blank}]

\* A roll of rows, the last one written up to col.
IsRoll(roll) ==
  /\ roll = [rows |-> roll.rows, col |-> roll.col]
  /\ roll.rows \in Seq(Row) /\ roll.col \in 0 .. SCR_WIDTH - 1
  /\ Len(roll.rows) \in 1 .. SCR_ROWS
  /\ \A x \in roll.col + 1 .. SCR_WIDTH : roll.rows[Len(roll.rows)][x] = Blank

\* '\b' finds a cell of the roll.
Erases(roll, ch) == ch = Backspace => roll.col > 0 \/ Len(roll.rows) > 1

\* new is rows with an empty row behind it, and no more rows than the screen has.
RowAdded(rows, new) ==
  /\ new \in Seq(Row) /\ Len(new) \in 1 .. SCR_ROWS
  /\ Len(new) = IF Len(rows) < SCR_ROWS THEN Len(rows) + 1 ELSE SCR_ROWS
  /\ new[Len(new)] = EmptyRow
  /\ \A i \in 1 .. Len(new) - 1 : /\ Len(rows) - (i - 1) \in 1 .. Len(rows)
                                  /\ new[Len(new) - i] = rows[Len(rows) - (i - 1)]

\* LastRows() of one row more.
LEMMA RowAddedIs ==
  ASSUME NEW rows \in Seq(Row), Len(rows) \in 1 .. SCR_ROWS
  PROVE  RowAdded(rows, LastRows(Append(rows, EmptyRow)))
<1>. DEFINE more == Append(rows, EmptyRow)
            new == LastRows(more)
            L == Len(rows)
<1>1. SCR_ROWS \in Nat /\ SCR_ROWS > 1 /\ L \in Nat /\ EmptyRow \in Row
  <2>1. EmptyRow \in Row
    BY DEF EmptyRow, Row
  <2>. QED BY <2>1, Sizes
<1>2. /\ more \in Seq(Row) /\ Len(more) = L + 1 /\ more[L + 1] = EmptyRow
      /\ \A i \in 1 .. L : more[i] = rows[i]
  BY <1>1
<1>3. CASE L < SCR_ROWS
  <2>1. new = more
    BY <1>1, <1>2, <1>3 DEF LastRows
  <2>. HIDE DEF new, more
  <2>2. \A i \in 1 .. L : L - (i - 1) \in 1 .. L /\ new[L + 1 - i] = rows[L - (i - 1)]
    <3>1. \A i \in 1 .. L : L - (i - 1) \in 1 .. L /\ L + 1 - i = L - (i - 1)
      BY <1>1
    <3>. QED BY <2>1, <3>1, <1>2
  <2>3. RowAdded(rows, new)
    BY <1>1, <1>2, <1>3, <2>1, <2>2, SMTT(60) DEF RowAdded
  <2>. QED BY <2>3 DEF new, more
<1>4. CASE ~(L < SCR_ROWS)
  <2>1. L = SCR_ROWS
    BY <1>1, <1>4
  <2>2. new = SubSeq(more, 2, L + 1)
    <3>1. ~(Len(more) <= SCR_ROWS) /\ Len(more) - SCR_ROWS + 1 = 2 /\ Len(more) = L + 1
      BY <1>1, <1>2, <2>1
    <3>. HIDE DEF more
    <3>. QED BY <3>1, Zenon DEF LastRows
  <2>. HIDE DEF new, more
  <2>3. new \in Seq(Row) /\ Len(new) = L /\ \A i \in 1 .. L : new[i] = more[i + 1]
    BY <1>1, <1>2, <2>2
  <2>4. \A i \in 1 .. L - 1 : L - (i - 1) \in 1 .. L /\ new[L - i] = rows[L - (i - 1)]
    <3>1. \A i \in 1 .. L - 1 : /\ L - i \in 1 .. L /\ L - (i - 1) \in 1 .. L
                                /\ (L - i) + 1 = L - (i - 1)
      BY <1>1
    <3>. QED BY <2>3, <3>1, <1>2
  <2>5. new[L] = EmptyRow
    BY <1>1, <1>2, <2>3
  <2>6. RowAdded(rows, new)
    BY <1>1, <2>1, <2>3, <2>4, <2>5 DEF RowAdded
  <2>. QED BY <2>6 DEF new, more
<1>. QED BY <1>3, <1>4

\* put is rows with the cell of column k in its last row set to ch.
CellSet(rows, put, k, ch) ==
  /\ put \in Seq(Row) /\ Len(put) = Len(rows)
  /\ \A i \in 1 .. Len(rows) - 1 : put[i] = rows[i]
  /\ \A x \in 1 .. SCR_WIDTH : put[Len(rows)][x] = IF x = k THEN ch ELSE rows[Len(rows)][x]

\* It is what EXCEPT makes.
LEMMA CellSetIs ==
  ASSUME NEW rows \in Seq(Row), Len(rows) > 0, NEW k \in 1 .. SCR_WIDTH, NEW ch \in {Letter, Blank}
  PROVE  CellSet(rows, [rows EXCEPT ![Len(rows)][k] = ch], k, ch)
<1>. DEFINE last == Len(rows)
            row == [rows[last] EXCEPT ![k] = ch]
            put == [rows EXCEPT ![last] = row]
<1>1. rows[last] \in Row /\ last \in 1 .. last /\ last \in Nat
  OBVIOUS
<1>2. row \in Row /\ \A x \in 1 .. SCR_WIDTH : row[x] = IF x = k THEN ch ELSE rows[last][x]
  BY <1>1 DEF Row
<1>. HIDE DEF row
<1>3. /\ put \in Seq(Row) /\ Len(put) = last /\ put[last] = row
      /\ \A i \in 1 .. last - 1 : put[i] = rows[i]
  BY <1>1, <1>2
<1>4. put = [rows EXCEPT ![Len(rows)][k] = ch]
  BY DEF row
<1>. HIDE DEF put
<1>5. CellSet(rows, put, k, ch)
  BY <1>2, <1>3 DEF CellSet
<1>. QED BY <1>4, <1>5

\* OnPaper(), case by case.
LEMMA OnPaperIs ==
  ASSUME NEW roll, IsRoll(roll)
  PROVE  /\ OnPaper(roll, Newline) = [rows |-> LastRows(Append(roll.rows, EmptyRow)), col |-> 0]
         /\ LET put == [roll.rows EXCEPT ![Len(roll.rows)][roll.col + 1] = Letter]
            IN  /\ roll.col + 1 < SCR_WIDTH
                     => OnPaper(roll, Letter) = [rows |-> put, col |-> roll.col + 1]
                /\ ~(roll.col + 1 < SCR_WIDTH)
                     => OnPaper(roll, Letter) = [rows |-> LastRows(Append(put, EmptyRow)), col |-> 0]
         /\ roll.col > 0
              => OnPaper(roll, Backspace) =
                   [rows |-> [roll.rows EXCEPT ![Len(roll.rows)][roll.col] = Blank],
                    col |-> roll.col - 1]
         /\ ~(roll.col > 0) /\ Len(roll.rows) > 1
              => OnPaper(roll, Backspace) =
                   [rows |-> [SubSeq(roll.rows, 1, Len(roll.rows) - 1)
                                EXCEPT ![Len(roll.rows) - 1][SCR_WIDTH] = Blank],
                    col |-> SCR_WIDTH - 1]
<1>1. Newline # Letter /\ Newline # Backspace /\ Letter # Backspace
  BY DEF Newline, Letter, Backspace
<1>2. roll.col \in Int /\ (~(roll.col > 0) => roll.col = 0) /\ (roll.col > 0 => roll.col # 0)
  BY RowsFollow DEF IsRoll
<1>3. OnPaper(roll, Newline) = [rows |-> LastRows(Append(roll.rows, EmptyRow)), col |-> 0]
  BY <1>1 DEF OnPaper
<1>4. LET put == [roll.rows EXCEPT ![Len(roll.rows)][roll.col + 1] = Letter]
      IN  /\ roll.col + 1 < SCR_WIDTH
               => OnPaper(roll, Letter) = [rows |-> put, col |-> roll.col + 1]
          /\ ~(roll.col + 1 < SCR_WIDTH)
               => OnPaper(roll, Letter) = [rows |-> LastRows(Append(put, EmptyRow)), col |-> 0]
  BY <1>1 DEF OnPaper
<1>5. roll.col > 0
        => OnPaper(roll, Backspace) =
             [rows |-> [roll.rows EXCEPT ![Len(roll.rows)][roll.col] = Blank], col |-> roll.col - 1]
  BY <1>1, <1>2 DEF OnPaper
<1>6. ~(roll.col > 0) /\ Len(roll.rows) > 1
        => OnPaper(roll, Backspace) =
             [rows |-> [SubSeq(roll.rows, 1, Len(roll.rows) - 1)
                          EXCEPT ![Len(roll.rows) - 1][SCR_WIDTH] = Blank],
              col |-> SCR_WIDTH - 1]
  BY <1>1, <1>2 DEF OnPaper
<1>. QED BY <1>3, <1>4, <1>5, <1>6, Zenon

----------------------------------------------------------------------------
\* Text on a screen.

\* Where cell x of row y of console n is in the video memory.
CellAt(n, y, x) == Screen(n).orig + Start(y) + x - 1

\* Cell x of row y shows ch; in the first row the neighbour may have blanked it.
CellShows(s, n, y, x, ch) ==
  \/ s.vmem[CellAt(n, y, x)] = ch
  \/ n > 0 /\ y = 0 /\ s.vmem[CellAt(n, y, x)] = Blank

\* The rows down to row y, of that k cells.
TextUpTo(s, n, y, rows, k) ==
  \A i \in 0 .. Len(rows) - 1, x \in 1 .. SCR_WIDTH :
    i > 0 \/ x <= k => CellShows(s, n, y - i, x, rows[Len(rows) - i][x])

\* The cells from p up to q are blank.
BlankFrom(s, p, q) == \A x \in Cells : p <= x /\ x < q => s.vmem[x] = Blank

\* From s to t the first q cells of console n are the same, but for blanks in its first row.
Fades(s, t, n, q) ==
  \A p \in Cells : Screen(n).orig <= p /\ p < Screen(n).orig + q =>
    \/ t.vmem[p] = s.vmem[p]
    \/ t.vmem[p] = Blank /\ n > 0 /\ p < Screen(n).orig + SCR_WIDTH

\* The numbers of console n, and those of row y.
LEMMA Numbers ==
  ASSUME NEW n \in Consoles
  PROVE  \E o \in Nat, z \in Nat, w \in Nat, sz \in Nat, mem \in Nat :
           /\ o = Screen(n).orig /\ z = Start(NrRows) /\ w = SCR_WIDTH /\ sz = SCR_SIZE
           /\ mem = V_MEM_CELLS /\ o + z <= mem /\ 0 < w /\ w < sz /\ 2 * sz - w <= z
<1>1. /\ Screen(n).orig \in Nat /\ Screen(n).orig + Start(NrRows) <= V_MEM_CELLS
      /\ Start(NrRows) \in Nat /\ SCR_WIDTH \in Nat /\ 0 < SCR_WIDTH /\ SCR_SIZE \in Nat
      /\ SCR_WIDTH < SCR_SIZE /\ 2 * SCR_SIZE - SCR_WIDTH <= Start(NrRows)
  BY ConsolesFollow, Sizes, RowsFollow
<1>2. V_MEM_CELLS \in Nat
  BY ConsoleAssumption
<1>. QED BY <1>1, <1>2

\* Where a cell is.
LEMMA CellPlace ==
  ASSUME NEW n \in Consoles, NEW y \in 0 .. NrRows - 1, NEW x \in 1 .. SCR_WIDTH
  PROVE  /\ CellAt(n, y, x) \in Cells /\ Screen(n).orig \in Nat /\ Start(y) \in Nat
         /\ CellAt(n, y, x) = Screen(n).orig + Start(y) + x - 1
         /\ Screen(n).orig + Start(y) <= CellAt(n, y, x)
         /\ CellAt(n, y, x) < Screen(n).orig + Start(y) + SCR_WIDTH
         /\ Start(y) + SCR_WIDTH <= Start(NrRows)
<1>1. PICK o \in Nat, z \in Nat, w \in Nat, mem \in Nat :
        /\ o = Screen(n).orig /\ z = Start(NrRows) /\ w = SCR_WIDTH
        /\ mem = V_MEM_CELLS /\ o + z <= mem
  BY Numbers
<1>2. PICK sy \in Nat : sy = Start(y) /\ sy + w <= z
  <2>1. PICK last \in Nat : last = NrRows
    BY Sizes
  <2>2. NrRows \in Nat /\ y \in Nat /\ y < NrRows
    BY <2>1
  <2>3. Start(y) \in Nat /\ Start(y) + SCR_WIDTH <= Start(NrRows)
    BY <2>2, RowsFollow
  <2>. QED BY <1>1, <2>3
<1>3. x \in 1 .. w
  BY <1>1
<1>4. o + sy + x - 1 \in 0 .. mem - 1
  BY <1>1, <1>2, <1>3
<1>5. o + sy <= o + sy + x - 1 /\ o + sy + x - 1 < o + sy + w
  BY <1>3
<1>6. CellAt(n, y, x) = o + sy + x - 1
  BY <1>1, <1>2 DEF CellAt
<1>. QED BY <1>1, <1>2, <1>4, <1>5, <1>6 DEF Cells

\* Text that only fades is still there.
LEMMA TextFades ==
  ASSUME NEW s, NEW t, NEW n \in Consoles, NEW y \in 0 .. NrRows, NEW rows \in Seq(Row),
         Len(rows) - 1 <= y, NEW k \in 0 .. SCR_WIDTH, y = NrRows => k = 0,
         Fades(s, t, n, Start(y) + k), TextUpTo(s, n, y, rows, k)
  PROVE  TextUpTo(t, n, y, rows, k)
<1>. SUFFICES ASSUME NEW i \in 0 .. Len(rows) - 1, NEW x \in 1 .. SCR_WIDTH, i > 0 \/ x <= k
              PROVE  CellShows(t, n, y - i, x, rows[Len(rows) - i][x])
  BY DEF TextUpTo
<1>1. PICK o \in Nat, z \in Nat, w \in Nat : o = Screen(n).orig /\ w = SCR_WIDTH /\ 0 < w
  BY Numbers
<1>2. PICK last \in Nat, len \in Nat, kk \in Nat : last = NrRows /\ len = Len(rows) /\ kk = k
  <2>1. k \in Nat
    BY <1>1
  <2>2. Len(rows) \in Nat /\ NrRows \in Nat
    BY Sizes
  <2>. QED BY <2>1, <2>2
<1>3. y - i \in 0 .. NrRows - 1 /\ y \in Nat /\ y - i \in Nat /\ (i > 0 => y - i < y)
  <2>1. i \in 0 .. len - 1 /\ y \in 0 .. last /\ len - 1 <= y
    BY <1>2
  <2>2. i > 0 \/ y # last
    <3>1. ASSUME y = last, ~(i > 0) PROVE FALSE
      <4>1. kk = 0 /\ x <= kk
        BY <1>2, <3>1
      <4>2. x >= 1
        BY <1>1
      <4>. QED BY <4>1, <4>2, <1>1
    <3>. QED BY <3>1
  <2>. QED BY <1>2, <2>1, <2>2
<1>4. PICK sy \in Nat, si \in Nat : sy = Start(y) /\ si = Start(y - i)
  BY <1>3, RowsFollow
<1>5. PICK p \in Int : /\ p = CellAt(n, y - i, x) /\ p \in Cells
                      /\ p = o + si + x - 1 /\ o + si <= p /\ p < o + si + w
  <2>1. \A c \in Cells : c \in Int
    BY DEF Cells
  <2>. QED BY <1>1, <1>3, <1>4, <2>1, CellPlace
<1>6. p < o + (sy + kk)
  <2>1. CASE i > 0
    <3>1. si + w <= sy
      BY <1>1, <1>3, <1>4, <2>1, RowsFollow
    <3>. QED BY <1>5, <3>1
  <2>2. CASE i = 0
    <3>1. si = sy
      BY <1>3, <1>4, <2>2
    <3>2. x <= kk /\ x \in Int
      BY <1>1, <1>2, <2>2
    <3>. QED BY <1>5, <3>1, <3>2
  <2>. QED BY <1>2, <2>1, <2>2
<1>7. \/ t.vmem[p] = s.vmem[p]
      \/ t.vmem[p] = Blank /\ n > 0 /\ p < o + w
  <2>1. o <= p
    BY <1>5
  <2>. QED BY <1>1, <1>2, <1>4, <1>5, <1>6, <2>1, Zenon DEF Fades
<1>8. CellShows(s, n, y - i, x, rows[Len(rows) - i][x])
  BY DEF TextUpTo
<1>9. p < o + w => y - i = 0
  <2>1. ASSUME p < o + w, y - i # 0 PROVE FALSE
    <3>1. 0 < y - i
      BY <1>3, <2>1
    <3>2. w <= si
      BY <1>1, <1>3, <1>4, <3>1, RowsFollow
    <3>. QED BY <1>5, <2>1, <3>2
  <2>. QED BY <2>1
<1>10. CASE t.vmem[p] = s.vmem[p]
  BY <1>5, <1>8, <1>10 DEF CellShows
<1>11. CASE t.vmem[p] = Blank /\ n > 0 /\ p < o + w
  BY <1>5, <1>9, <1>11 DEF CellShows
<1>. QED BY <1>7, <1>10, <1>11

\* A row that is written to its end is followed by an empty one.
LEMMA TextShifts ==
  ASSUME NEW s, NEW n, NEW y \in Nat, NEW rows \in Seq(Row), Len(rows) \in 1 .. SCR_ROWS,
         NEW new, RowAdded(rows, new), TextUpTo(s, n, y, rows, SCR_WIDTH)
  PROVE  TextUpTo(s, n, y + 1, new, 0)
<1>. SUFFICES ASSUME NEW i \in 0 .. Len(new) - 1, NEW x \in 1 .. SCR_WIDTH, i > 0
              PROVE  CellShows(s, n, (y + 1) - i, x, new[Len(new) - i][x])
  BY RowsFollow DEF TextUpTo
<1>1. Len(rows) \in Nat /\ Len(new) \in Nat /\ SCR_ROWS \in Nat
  BY Sizes, SMTT(60) DEF RowAdded
<1>2. i \in 1 .. Len(new) - 1
  BY <1>1
<1>3. Len(rows) - (i - 1) \in 1 .. Len(rows) /\ new[Len(new) - i] = rows[Len(rows) - (i - 1)]
  BY <1>2 DEF RowAdded
<1>4. i - 1 \in 0 .. Len(rows) - 1 /\ y - (i - 1) = (y + 1) - i
  BY <1>1, <1>2, <1>3
<1>5. x <= SCR_WIDTH
  BY RowsFollow
<1>6. CellShows(s, n, y - (i - 1), x, rows[Len(rows) - (i - 1)][x])
  BY <1>4, <1>5 DEF TextUpTo
<1>. QED BY <1>3, <1>4, <1>6

\* Behind the last column written, a roll and a screen are blank.
LEMMA TextFills ==
  ASSUME NEW s, NEW n \in Consoles, NEW y \in 0 .. NrRows - 1, NEW roll, IsRoll(roll),
         TextUpTo(s, n, y, roll.rows, roll.col),
         BlankFrom(s, Screen(n).orig + Start(y) + roll.col, Screen(n).orig + Start(y) + SCR_WIDTH)
  PROVE  TextUpTo(s, n, y, roll.rows, SCR_WIDTH)
<1>. SUFFICES ASSUME NEW i \in 0 .. Len(roll.rows) - 1, NEW x \in 1 .. SCR_WIDTH
              PROVE  CellShows(s, n, y - i, x, roll.rows[Len(roll.rows) - i][x])
  BY DEF TextUpTo
<1>1. roll.col \in Nat /\ Len(roll.rows) \in Nat /\ SCR_WIDTH \in Nat
  BY RowsFollow DEF IsRoll
<1>2. CASE i > 0 \/ x <= roll.col
  BY <1>2 DEF TextUpTo
<1>3. CASE ~(i > 0 \/ x <= roll.col)
  <2>1. i = 0 /\ x \in roll.col + 1 .. SCR_WIDTH
    BY <1>1, <1>3
  <2>2. roll.rows[Len(roll.rows) - i][x] = Blank /\ y - i = y
    BY <1>1, <2>1 DEF IsRoll
  <2>3. s.vmem[CellAt(n, y, x)] = Blank
    <3>1. PICK o \in Nat, sy \in Nat, w \in Nat, c \in Nat :
            o = Screen(n).orig /\ sy = Start(y) /\ w = SCR_WIDTH /\ c = roll.col
      BY <1>1, CellPlace
    <3>2. CellAt(n, y, x) \in Cells /\ CellAt(n, y, x) = o + sy + x - 1
          /\ CellAt(n, y, x) < o + sy + w
      BY <3>1, CellPlace
    <3>3. x >= c + 1
      BY <2>1, <3>1
    <3>4. o + sy + c <= o + sy + x - 1
      BY <3>3
    <3>. QED BY <3>1, <3>2, <3>4 DEF BlankFrom
  <2>. QED BY <2>2, <2>3 DEF CellShows
<1>. QED BY <1>2, <1>3

\* A roll that has no column left in its last row goes on with an empty one.
LEMMA RollGoesOn ==
  ASSUME NEW rows, NEW new, RowAdded(rows, new)
  PROVE  IsRoll([rows |-> new, col |-> 0])
<1>1. \A x \in 0 + 1 .. SCR_WIDTH : new[Len(new)][x] = Blank
  BY RowsFollow DEF RowAdded, EmptyRow
<1>2. 0 \in 0 .. SCR_WIDTH - 1
  BY RowsFollow
<1>. QED BY <1>1, <1>2 DEF IsRoll, RowAdded

\* The numbers of a roll.
LEMMA RollNumbers ==
  ASSUME NEW roll, IsRoll(roll)
  PROVE  \E w \in Nat, L \in Nat, c \in Nat, N \in Nat :
           /\ w = SCR_WIDTH /\ 0 < w /\ L = Len(roll.rows) /\ c = roll.col /\ c < w /\ L > 0
           /\ N = SCR_ROWS /\ L <= N /\ L \in 1 .. SCR_ROWS
<1>1. SCR_ROWS \in Nat /\ SCR_WIDTH \in Nat /\ 0 < SCR_WIDTH
  BY Sizes, RowsFollow
<1>2. /\ roll.col \in Nat /\ roll.col < SCR_WIDTH /\ Len(roll.rows) \in Nat
      /\ Len(roll.rows) > 0 /\ Len(roll.rows) <= SCR_ROWS /\ Len(roll.rows) \in 1 .. SCR_ROWS
  BY <1>1 DEF IsRoll
<1>. QED BY <1>1, <1>2

\* OnPaper() of a roll is a roll.
LEMMA OnPaperRoll ==
  ASSUME NEW roll, IsRoll(roll), NEW ch \in Chars, Erases(roll, ch)
  PROVE  IsRoll(OnPaper(roll, ch))
<1>. DEFINE rows == roll.rows
            col == roll.col
            after == OnPaper(roll, ch)
<1>1. PICK w \in Nat, L \in Nat, c \in Nat, N \in Nat :
        /\ w = SCR_WIDTH /\ 0 < w /\ L = Len(rows) /\ c = col /\ c < w /\ L > 0
        /\ N = SCR_ROWS /\ L <= N /\ L \in 1 .. SCR_ROWS
  BY RollNumbers
<1>3. rows \in Seq(Row) /\ \A x \in col + 1 .. SCR_WIDTH : rows[Len(rows)][x] = Blank
  BY DEF IsRoll
<1>6. CASE ch = Newline
  <2>1. after = [rows |-> LastRows(Append(rows, EmptyRow)), col |-> 0]
    BY <1>6, OnPaperIs
  <2>. DEFINE new == LastRows(Append(rows, EmptyRow))
  <2>2. RowAdded(rows, new)
    BY <1>1, <1>3, RowAddedIs
  <2>. HIDE DEF new
  <2>3. IsRoll(after)
    BY <2>1, <2>2, RollGoesOn DEF new
  <2>. QED BY <2>3
<1>7. CASE ch = Letter
  <2>. DEFINE put == [rows EXCEPT ![Len(rows)][col + 1] = Letter]
              new == LastRows(Append(put, EmptyRow))
  <2>1. CellSet(rows, put, col + 1, Letter)
    <3>1. col + 1 \in 1 .. SCR_WIDTH /\ Len(rows) > 0
      BY <1>1
    <3>. QED BY <1>3, <3>1, CellSetIs
  <2>2. /\ c + 1 < w => after = [rows |-> put, col |-> col + 1]
        /\ ~(c + 1 < w) => after = [rows |-> new, col |-> 0]
    <3>1. /\ roll.col + 1 < SCR_WIDTH => OnPaper(roll, Letter) = [rows |-> put, col |-> roll.col + 1]
          /\ ~(roll.col + 1 < SCR_WIDTH) => OnPaper(roll, Letter) = [rows |-> new, col |-> 0]
      BY OnPaperIs, Zenon
    <3>. QED BY <1>1, <1>7, <3>1
  <2>. HIDE DEF put
  <2>3. put \in Seq(Row) /\ Len(put) = L
    BY <1>1, <2>1 DEF CellSet
  <2>4. CASE c + 1 < w
    <3>1. \A x \in (c + 1) + 1 .. w : put[L][x] = Blank
      <4>1. \A x \in (c + 1) + 1 .. w : x \in col + 1 .. SCR_WIDTH /\ x \in 1 .. SCR_WIDTH /\ x # col + 1
        BY <1>1
      <4>. QED BY <1>1, <1>3, <2>1, <4>1 DEF CellSet
    <3>2. IsRoll(after)
      BY <1>1, <2>2, <2>3, <2>4, <3>1 DEF IsRoll
    <3>. QED BY <3>2
  <2>5. CASE ~(c + 1 < w)
    <3>1. RowAdded(put, new)
      BY <1>1, <2>3, RowAddedIs
    <3>. HIDE DEF new
    <3>3. after = [rows |-> new, col |-> 0]
      BY <2>2, <2>5
    <3>4. IsRoll(after)
      BY <3>1, <3>3, RollGoesOn
    <3>. QED BY <3>4
  <2>. QED BY <2>4, <2>5
<1>8. CASE ch = Backspace /\ c > 0
  <2>. DEFINE put == [rows EXCEPT ![Len(rows)][col] = Blank]
  <2>1. CellSet(rows, put, col, Blank)
    <3>1. col \in 1 .. SCR_WIDTH /\ Len(rows) > 0
      BY <1>1, <1>8
    <3>. QED BY <1>3, <3>1, CellSetIs
  <2>2. after = [rows |-> put, col |-> col - 1]
    BY <1>1, <1>8, OnPaperIs
  <2>. HIDE DEF put
  <2>3. put \in Seq(Row) /\ Len(put) = L
    BY <1>1, <2>1 DEF CellSet
  <2>4. \A x \in (c - 1) + 1 .. w : put[L][x] = Blank
    <3>1. \A x \in (c - 1) + 1 .. w : x \in 1 .. SCR_WIDTH /\ (x = col \/ x \in col + 1 .. SCR_WIDTH)
      BY <1>1, <1>8
    <3>. QED BY <1>1, <1>3, <2>1, <3>1 DEF CellSet
  <2>5. IsRoll(after)
    BY <1>1, <1>8, <2>2, <2>3, <2>4 DEF IsRoll
  <2>. QED BY <2>5
<1>9. CASE ch = Backspace /\ ~(c > 0)
  <2>1. L > 1
    BY <1>1, <1>9 DEF Erases
  <2>. DEFINE front == SubSeq(rows, 1, Len(rows) - 1)
              put == [front EXCEPT ![Len(rows) - 1][SCR_WIDTH] = Blank]
  <2>2. front \in Seq(Row) /\ Len(front) = L - 1
    BY <1>1, <1>3, <2>1
  <2>3. after = [rows |-> put, col |-> SCR_WIDTH - 1]
    BY <1>1, <1>9, <2>1, OnPaperIs
  <2>. HIDE DEF front
  <2>4. CellSet(front, put, SCR_WIDTH, Blank)
    <3>1. SCR_WIDTH \in 1 .. SCR_WIDTH /\ Len(front) > 0 /\ Len(rows) - 1 = Len(front)
      BY <1>1, <2>1, <2>2
    <3>. QED BY <2>2, <3>1, CellSetIs
  <2>. HIDE DEF put
  <2>5. put \in Seq(Row) /\ Len(put) = L - 1
    BY <2>2, <2>4 DEF CellSet
  <2>6. \A x \in (w - 1) + 1 .. w : put[L - 1][x] = Blank
    <3>1. \A x \in (w - 1) + 1 .. w : x \in 1 .. SCR_WIDTH /\ x = SCR_WIDTH
      BY <1>1
    <3>. QED BY <2>2, <2>4, <3>1 DEF CellSet
  <2>7. IsRoll(after)
    BY <1>1, <2>1, <2>3, <2>5, <2>6 DEF IsRoll
  <2>. QED BY <2>7
<1>. QED BY <1>6, <1>7, <1>8, <1>9 DEF Chars

----------------------------------------------------------------------------
\* A console and its paper, through the statements of out_char().

\* The numbers of a console's rows.
RowNrs == 0 .. NrRows - 1

\* Behind p the console is blank to its end, or, once it is full, to the end of its first screen.
Clear(s, n, p) ==
  BlankFrom(s, p, Screen(n).orig + IF s.con[n].is_full THEN SCR_SIZE ELSE Start(NrRows))

\* The roll's last row is row y and the cursor stands where it is written to.
Placed(s, n, y, roll) ==
  /\ IsRoll(roll) /\ Len(roll.rows) - 1 <= y
  /\ s.con[n].cursor = Screen(n).orig + Start(y) + roll.col
  /\ TextUpTo(s, n, y, roll.rows, roll.col)

\* Nothing stands behind p.
Ends(s, n, y, p) == Clear(s, n, p) /\ BlankFrom(s, p, Screen(n).orig + Start(y) + SCR_WIDTH)

\* The window shows no old rows behind p, if a character could take the cursor into it.
NewBehind(s, n, y, p) ==
  LET top == s.con[n].crtc_start IN
  top <= Screen(n).orig + Start(y) + SCR_WIDTH =>
    \A x \in Cells : top <= x /\ p <= x /\ x < top + SCR_SIZE => s.vmem[x] = Blank

\* Before the switch, or between two calls: then the user may have scrolled to old rows.
AtRest(s, n, roll) ==
  \E y \in RowNrs : Placed(s, n, y, roll) /\ Ends(s, n, y, s.con[n].cursor)
Fresh(s, n, roll) ==
  \E y \in RowNrs : /\ Placed(s, n, y, roll) /\ Ends(s, n, y, s.con[n].cursor)
                    /\ NewBehind(s, n, y, s.con[n].cursor)

\* Before the store of the cursor.
Behind1(s, n, ch) == IF ch = Letter THEN s.con[n].cursor + 1 ELSE s.con[n].cursor
Storing(s, n, y, roll, ch) ==
  /\ Placed(s, n, y, roll) /\ Ends(s, n, y, Behind1(s, n, ch))
  /\ NewBehind(s, n, y, Behind1(s, n, ch))
  /\ ch = Letter => CellShows(s, n, y, roll.col + 1, Letter)

\* In the loop of l.90-93.
Looping(s, n, roll) ==
  \E y \in RowNrs :
    /\ Placed(s, n, y, roll) /\ Clear(s, n, s.con[n].cursor)
    /\ InWindow(s.con[n]) => BlankFrom(s, s.con[n].cursor, s.con[n].crtc_start + SCR_SIZE)

\* Behind the end of the console, or at its top again: row y is still to be written.
Wrapping(s, n, y, roll) == IsRoll(roll) /\ roll.col = 0 /\ TextUpTo(s, n, y, roll.rows, 0)

\* The numbers of console n, of row y, of a roll and of the cursor behind it.
IsPlaced(s, n, y, roll, w, o, z, sz, sy, c, p) ==
  /\ {w, o, z, sz, sy, c, p} \subseteq Nat
  /\ w = SCR_WIDTH /\ o = Screen(n).orig /\ z = Start(NrRows) /\ z = Screen(n).con_size
  /\ sz = SCR_SIZE /\ sy = Start(y) /\ c = roll.col /\ p = s.con[n].cursor
  /\ 0 < w /\ w < sz /\ 2 * sz - w <= z /\ sy + w <= z /\ c < w /\ p = o + sy + c
  /\ p \in Cells /\ p \in Area(n) /\ c + 1 \in 1 .. SCR_WIDTH /\ p = CellAt(n, y, c + 1)

\* There are such numbers.
LEMMA PlacedNumbers ==
  ASSUME NEW s, NEW n \in Consoles, NEW y \in RowNrs, NEW roll, Placed(s, n, y, roll)
  PROVE  \E w, o, z, sz, sy, c, p : IsPlaced(s, n, y, roll, w, o, z, sz, sy, c, p)
<1>1. PICK o \in Nat, z \in Nat, w \in Nat, sz \in Nat, mem \in Nat :
        /\ o = Screen(n).orig /\ z = Start(NrRows) /\ w = SCR_WIDTH /\ sz = SCR_SIZE
        /\ mem = V_MEM_CELLS /\ o + z <= mem /\ 0 < w /\ w < sz /\ 2 * sz - w <= z
  BY Numbers
<1>2. PICK c \in Nat : c = roll.col /\ c < w
  <2>1. \E v \in Nat, L \in Nat, c \in Nat, N \in Nat :
           /\ v = SCR_WIDTH /\ 0 < v /\ L = Len(roll.rows) /\ c = roll.col /\ c < v /\ L > 0
           /\ N = SCR_ROWS /\ L <= N /\ L \in 1 .. SCR_ROWS
    BY RollNumbers DEF Placed
  <2>. QED BY <1>1, <2>1
<1>3. c + 1 \in 1 .. SCR_WIDTH
  BY <1>1, <1>2
<1>4. /\ CellAt(n, y, c + 1) \in Cells /\ Start(y) \in Nat
      /\ CellAt(n, y, c + 1) = Screen(n).orig + Start(y) + (c + 1) - 1
      /\ Start(y) + SCR_WIDTH <= Start(NrRows)
  BY <1>3, CellPlace DEF RowNrs
<1>5. PICK sy \in Nat : sy = Start(y) /\ sy + w <= z
  BY <1>1, <1>4
<1>6. PICK p \in Nat : p = o + sy + c
  OBVIOUS
<1>7. p = s.con[n].cursor
  BY <1>1, <1>2, <1>5, <1>6 DEF Placed
<1>8. p = o + sy + (c + 1) - 1
  BY <1>6
<1>9. p = CellAt(n, y, c + 1) /\ p \in Cells
  BY <1>1, <1>4, <1>5, <1>8
<1>10. z = Screen(n).con_size
  BY <1>1, ConsolesFollow
<1>11. p \in o .. o + z - 1
  BY <1>2, <1>5, <1>6
<1>12. p \in Area(n)
  BY <1>1, <1>10, <1>11 DEF Area
<1>13. IsPlaced(s, n, y, roll, w, o, z, sz, sy, c, p)
  BY <1>1, <1>2, <1>3, <1>5, <1>6, <1>7, <1>9, <1>10, <1>12 DEF IsPlaced
<1>. QED BY <1>13

\* l.71-74.
LEMMA PutShows ==
  ASSUME NEW s, IsScreen(s), NEW n \in Consoles, NEW y \in RowNrs, NEW roll, NEW ch \in Chars,
         Placed(s, n, y, roll), Ends(s, n, y, s.con[n].cursor),
         NewBehind(s, n, y, s.con[n].cursor)
  PROVE  Storing(Put(s, n, ch, s.con[n].cursor), n, y, roll, ch)
<1>. DEFINE t == Put(s, n, ch, s.con[n].cursor)
<1>1. PICK w, o, z, sz, sy, c, p : IsPlaced(s, n, y, roll, w, o, z, sz, sy, c, p)
  BY PlacedNumbers
<1>2. /\ {w, o, z, sz, sy, c, p} \subseteq Nat
      /\ w = SCR_WIDTH /\ o = Screen(n).orig /\ sy = Start(y) /\ c = roll.col
      /\ p = s.con[n].cursor /\ c < w /\ p = o + sy + c /\ p = CellAt(n, y, c + 1) /\ p \in Cells
      /\ p \in Area(n)
  BY <1>1 DEF IsPlaced
<1>3. p \in Area(n)
  BY <1>2
<1>4. /\ t.con = s.con
      /\ \A x \in Cells : t.vmem[x] = IF ch = Letter /\ x = p THEN Letter ELSE s.vmem[x]
  BY <1>2, <1>3, PutEffect
<1>. HIDE DEF t
<1>5. Behind1(t, n, ch) = IF ch = Letter THEN p + 1 ELSE p
  BY <1>2, <1>4 DEF Behind1
<1>6. \A x \in Cells : Behind1(t, n, ch) <= x => p <= x /\ t.vmem[x] = s.vmem[x]
  BY <1>2, <1>4, <1>5 DEF Cells
<1>7. Ends(t, n, y, Behind1(t, n, ch))
  BY <1>2, <1>4, <1>6 DEF Ends, Clear, BlankFrom
<1>8. NewBehind(t, n, y, Behind1(t, n, ch))
  BY <1>2, <1>4, <1>6 DEF NewBehind
<1>9. TextUpTo(t, n, y, roll.rows, roll.col)
  <2>1. Fades(s, t, n, Start(y) + roll.col)
    <3>1. \A x \in Cells : x < o + (sy + c) => t.vmem[x] = s.vmem[x]
      BY <1>2, <1>4 DEF Cells
    <3>. QED BY <1>2, <3>1 DEF Fades
  <2>2. roll.rows \in Seq(Row) /\ roll.col \in 0 .. SCR_WIDTH /\ y \in 0 .. NrRows /\ y # NrRows
    <3>1. PICK last \in Nat : last = NrRows
      BY Sizes
    <3>2. y \in 0 .. NrRows /\ y # NrRows
      BY <3>1 DEF RowNrs
    <3>3. roll.rows \in Seq(Row)
      BY DEF Placed, IsRoll
    <3>4. roll.col \in 0 .. SCR_WIDTH
      BY <1>2
    <3>. QED BY <3>2, <3>3, <3>4
  <2>3. TextUpTo(s, n, y, roll.rows, roll.col) /\ Len(roll.rows) - 1 <= y
    BY DEF Placed
  <2>. QED BY <2>1, <2>2, <2>3, TextFades
<1>10. Placed(t, n, y, roll)
  BY <1>4, <1>9 DEF Placed
<1>11. ch = Letter => CellShows(t, n, y, roll.col + 1, Letter)
  BY <1>2, <1>4 DEF CellShows
<1>12. Storing(t, n, y, roll, ch)
  BY <1>7, <1>8, <1>10, <1>11 DEF Storing
<1>. QED BY <1>12 DEF t

\* Rows written on s are written on a screen with the same cells.
LEMMA TextSame ==
  ASSUME NEW s, NEW t, NEW n \in Consoles, NEW y \in 0 .. NrRows, NEW rows \in Seq(Row),
         Len(rows) - 1 <= y, NEW k \in 0 .. SCR_WIDTH, y = NrRows => k = 0,
         \A x \in Cells : x < Screen(n).orig + (Start(y) + k) => t.vmem[x] = s.vmem[x],
         TextUpTo(s, n, y, rows, k)
  PROVE  TextUpTo(t, n, y, rows, k)
<1>1. Fades(s, t, n, Start(y) + k)
  BY DEF Fades
<1>. QED BY <1>1, TextFades

\* The cell behind the text is written.
LEMMA TextPut ==
  ASSUME NEW s, NEW n, NEW y \in Nat, NEW rows \in Seq(Row), NEW put, NEW c \in Nat,
         CellSet(rows, put, c + 1, Letter), TextUpTo(s, n, y, rows, c),
         CellShows(s, n, y, c + 1, Letter), Len(rows) > 0
  PROVE  TextUpTo(s, n, y, put, c + 1)
<1>. SUFFICES ASSUME NEW i \in 0 .. Len(put) - 1, NEW x \in 1 .. SCR_WIDTH, i > 0 \/ x <= c + 1
              PROVE  CellShows(s, n, y - i, x, put[Len(put) - i][x])
  BY DEF TextUpTo
<1>1. Len(put) = Len(rows) /\ Len(rows) \in Nat /\ SCR_WIDTH \in Nat
  BY RowsFollow DEF CellSet
<1>2. CASE i > 0
  <2>1. Len(rows) - i \in 1 .. Len(rows) - 1
    BY <1>1, <1>2
  <2>2. put[Len(put) - i] = rows[Len(rows) - i]
    BY <1>1, <2>1 DEF CellSet
  <2>. QED BY <1>1, <1>2, <2>2 DEF TextUpTo
<1>3. CASE i = 0
  <2>1. Len(rows) - i = Len(rows) /\ y - i = y /\ x <= c + 1 /\ i \in 0 .. Len(rows) - 1
    BY <1>1, <1>3
  <2>2. put[Len(rows)][x] = IF x = c + 1 THEN Letter ELSE rows[Len(rows)][x]
    BY DEF CellSet
  <2>3. CASE x = c + 1
    BY <1>1, <2>1, <2>2, <2>3
  <2>4. CASE x # c + 1
    <3>1. x <= c
      BY <1>1, <2>1, <2>4
    <3>2. CellShows(s, n, y - i, x, rows[Len(rows) - i][x])
      BY <2>1, <3>1 DEF TextUpTo
    <3>. QED BY <1>1, <2>1, <2>2, <2>4, <3>2
  <2>. QED BY <2>3, <2>4
<1>. QED
  <2>1. i \in Nat
    BY <1>1
  <2>. QED BY <2>1, <1>2, <1>3

\* The cursor is stored at new, behind what is written on row y, and all that is behind it
\* is blank or was behind q.
LEMMA LoopsAt ==
  ASSUME NEW s, IsScreen(s), NEW t, NEW n \in Consoles, NEW y \in RowNrs, NEW z \in RowNrs,
         NEW roll, IsRoll(roll), Len(roll.rows) - 1 <= z, NEW new \in Nat,
         new = Screen(n).orig + Start(z) + roll.col,
         new <= Screen(n).orig + Start(y) + SCR_WIDTH,
         t.con[n] = [s.con[n] EXCEPT !.cursor = new], TextUpTo(t, n, z, roll.rows, roll.col),
         NEW q \in Int, Ends(s, n, y, q), NewBehind(s, n, y, q),
         \A x \in Cells : new <= x => t.vmem[x] = Blank \/ (q <= x /\ t.vmem[x] = s.vmem[x])
  PROVE  Looping(t, n, roll)
<1>1. PICK b \in Nat, sz \in Nat : b = Screen(n).orig + Start(y) + SCR_WIDTH /\ sz = SCR_SIZE
  <2>1. /\ Screen(n).orig \in Nat /\ SCR_WIDTH \in Nat /\ SCR_SIZE \in Nat /\ NrRows \in Nat
        /\ \A r \in Nat : Start(r) \in Nat
    BY ConsolesFollow, Sizes, RowsFollow
  <2>2. y \in Nat
    BY <2>1 DEF RowNrs
  <2>3. Screen(n).orig + Start(y) + SCR_WIDTH \in Nat
    BY <2>1, <2>2
  <2>. QED BY <2>1, <2>3
<1>2. /\ t.con[n].cursor = new /\ t.con[n].crtc_start = s.con[n].crtc_start
      /\ t.con[n].is_full = s.con[n].is_full
  <2>1. s.con[n] \in [orig : Int, con_size : Int, cursor : Int, crtc_start : Int, is_full : BOOLEAN]
    BY DEF IsScreen
  <2>. QED BY <2>1
<1>3. Placed(t, n, z, roll)
  BY <1>2 DEF Placed
<1>4. Clear(t, n, new)
  BY <1>2 DEF Ends, Clear, BlankFrom
<1>5. PICK top \in Int : top = s.con[n].crtc_start
  BY ConsoleNumbers
<1>6. ASSUME InWindow(t.con[n]) PROVE BlankFrom(t, new, top + sz)
  <2>1. top <= new /\ top <= b
    BY <1>1, <1>2, <1>5, <1>6 DEF InWindow
  <2>2. \A x \in Cells : top <= x /\ q <= x /\ x < top + sz => s.vmem[x] = Blank
    BY <1>1, <1>5, <2>1 DEF NewBehind
  <2>3. \A x \in Cells : new <= x => top <= x
    BY <2>1 DEF Cells
  <2>. QED BY <2>2, <2>3 DEF BlankFrom
<1>. QED BY <1>1, <1>2, <1>3, <1>4, <1>5, <1>6 DEF Looping

\* The cursor is stored: the loop of l.90 or the wrap of l.77 comes next.
Going(t, n, roll) ==
  IF CursorFits(t, n) THEN Looping(t, n, roll) ELSE Wrapping(t, n, NrRows, roll)

\* The cursor is stored at the beginning of the row below row y, whose text is base.
LEMMA NextRowShows ==
  ASSUME NEW s, IsScreen(s), NEW t, IsScreen(t), NEW n \in Consoles, NEW y \in RowNrs,
         NEW base \in Seq(Row), Len(base) \in 1 .. SCR_ROWS, Len(base) - 1 <= y,
         TextUpTo(s, n, y, base, SCR_WIDTH),
         NEW q \in Int, q <= Screen(n).orig + Start(y) + SCR_WIDTH,
         Ends(s, n, y, q), NewBehind(s, n, y, q),
         t.con[n] = [s.con[n] EXCEPT !.cursor = Screen(n).orig + Start(y) + SCR_WIDTH],
         \A x \in Cells : t.vmem[x] = s.vmem[x]
  PROVE  Going(t, n, [rows |-> LastRows(Append(base, EmptyRow)), col |-> 0])
<1>. DEFINE new == LastRows(Append(base, EmptyRow))
            roll == [rows |-> new, col |-> 0]
<1>1. RowAdded(base, new)
  BY RowAddedIs
<1>. HIDE DEF new
<1>2. IsRoll(roll)
  BY <1>1, RollGoesOn
<1>3. PICK o \in Nat, sy \in Nat, w \in Nat, sz \in Nat :
        o = Screen(n).orig /\ sy = Start(y) /\ w = SCR_WIDTH /\ sz = SCR_SIZE
  <2>1. /\ Screen(n).orig \in Nat /\ SCR_WIDTH \in Nat /\ SCR_SIZE \in Nat /\ NrRows \in Nat
        /\ \A r \in Nat : Start(r) \in Nat
    BY ConsolesFollow, Sizes, RowsFollow
  <2>2. y \in Nat
    BY <2>1 DEF RowNrs
  <2>3. Start(y) \in Nat
    BY <2>1, <2>2
  <2>. HIDE DEF new
  <2>. QED BY <2>1, <2>3
<1>4. PICK last \in Nat, L \in Nat : last = NrRows /\ L = Len(base)
  <2>1. Len(base) \in Nat /\ NrRows \in Nat
    BY Sizes
  <2>. QED BY <2>1
<1>5. y \in Nat /\ y + 1 \in 0 .. NrRows /\ (y + 1 # NrRows => y + 1 \in RowNrs)
  BY <1>4 DEF RowNrs
<1>6. Start(y + 1) = sy + w
  BY <1>3, <1>5, NextRow
<1>7. new \in Seq(Row) /\ Len(new) - 1 <= y + 1
  BY <1>1, <1>4, <1>5, SMTT(60) DEF RowAdded
<1>8. TextUpTo(t, n, y + 1, new, 0)
  <2>1. TextUpTo(s, n, y + 1, new, 0)
    BY <1>1, <1>5, TextShifts
  <2>2. 0 \in 0 .. SCR_WIDTH
    BY <1>3
  <2>. QED BY <1>5, <1>7, <2>1, <2>2, TextSame
<1>9. y + 1 = NrRows => Wrapping(t, n, NrRows, roll)
  BY <1>2, <1>8 DEF Wrapping
<1>10. ASSUME y + 1 # NrRows PROVE Looping(t, n, roll)
  <2>1. y + 1 \in RowNrs
    BY <1>5, <1>10
  <2>2. PICK to \in Nat : to = o + sy + w
    OBVIOUS
  <2>3. to = o + (sy + w) + 0
    BY <2>2
  <2>4. \A x \in Cells : to <= x => q <= x /\ t.vmem[x] = s.vmem[x]
    BY <1>3, <2>2 DEF Cells
  <2>5. /\ Len(roll.rows) - 1 <= y + 1 /\ TextUpTo(t, n, y + 1, roll.rows, roll.col)
        /\ to = Screen(n).orig + Start(y + 1) + roll.col
        /\ t.con[n] = [s.con[n] EXCEPT !.cursor = to]
    BY <1>3, <1>6, <1>7, <1>8, <2>2, <2>3
  <2>6. to <= Screen(n).orig + Start(y) + SCR_WIDTH
    BY <1>3, <2>2
  <2>. HIDE DEF roll
  <2>. QED BY <1>2, <2>1, <2>4, <2>5, <2>6, LoopsAt, SMTT(60)
<1>11. CursorFits(t, n) <=> y + 1 # NrRows
  <2>1. PICK z \in Nat : z = Start(NrRows)
    BY Sizes
  <2>2. Offset(t, n) = sy + w
    <3>1. t.con[n].cursor = o + sy + w
      <4>1. s.con[n] \in [orig : Int, con_size : Int, cursor : Int, crtc_start : Int, is_full : BOOLEAN]
        BY DEF IsScreen
      <4>. QED BY <1>3, <4>1
    <3>2. Offset(t, n) = o + sy + w - o
      <4>1. Offset(t, n) = t.con[n].cursor - t.con[n].orig
        BY FitsArea
      <4>2. t.con[n].orig = o
        BY <1>3, ConsoleNumbers
      <4>. QED BY <3>1, <4>1, <4>2
    <3>. QED BY <3>2
  <2>3. CursorFits(t, n) <=> sy + w < z
    BY <2>1, <2>2, FitsArea
  <2>4. y + 1 = NrRows => sy + w = z
    BY <1>6, <2>1
  <2>5. ASSUME y + 1 # NrRows PROVE sy + w < z
    <3>1. (sy + w) + w <= z /\ 0 < w
      BY <1>3, <1>4, <1>5, <1>6, <2>1, <2>5, RowsFollow, SMTT(60)
    <3>. QED BY <3>1
  <2>. QED BY <2>3, <2>4, <2>5
<1>. QED BY <1>9, <1>10, <1>11 DEF Going, new

\* Stored, to where NewCursor leads: what is there to know about it.
LEMMA StoredAt ==
  ASSUME NEW s, IsScreen(s), NEW n \in Consoles, NEW y \in RowNrs, NEW roll, NEW ch \in Chars,
         Placed(s, n, y, roll), NEW t,
         Stored(s, t, n, ch, s.con[n].cursor, NewCursor(s, n, ch, y))
  PROVE  /\ IsScreen(t) /\ t.con[n] = [s.con[n] EXCEPT !.cursor = NewCursor(s, n, ch, y)]
         /\ ch = Newline =>
              NewCursor(s, n, ch, y) = Screen(n).orig + Start(y) + SCR_WIDTH
         /\ ch = Letter => NewCursor(s, n, ch, y) = s.con[n].cursor + 1
         /\ ch = Backspace => NewCursor(s, n, ch, y) = s.con[n].cursor - 1
         /\ \A x \in Cells : t.vmem[x] = IF ch = Backspace /\ x = s.con[n].cursor - 1
                                         THEN Blank ELSE s.vmem[x]
<1>1. s.con[n].orig = Screen(n).orig /\ Screen(n).orig \in Nat
  BY ConsoleNumbers
<1>2. PICK w \in Nat, j \in Nat : w = SCR_WIDTH /\ j = y
  <2>1. SCR_WIDTH \in Nat /\ y \in Nat
    BY RowsFollow, Sizes DEF RowNrs
  <2>. QED BY <2>1
<1>3. SCR_WIDTH * (y + 1) = Start(y) + SCR_WIDTH
  <2>1. w * (j + 1) = (j + 1) * w
    OBVIOUS
  <2>2. Start(j + 1) = Start(j) + w
    BY <1>2, NextRow
  <2>. QED BY <1>2, <2>1, <2>2, Zenon DEF Start
<1>4. PICK k \in Nat : k = Start(y)
  BY <1>2, RowsFollow
<1>5. ch = Newline => NewCursor(s, n, ch, y) = Screen(n).orig + Start(y) + SCR_WIDTH
  <2>1. ch = Newline => NewCursor(s, n, ch, y) = s.con[n].orig + SCR_WIDTH * (y + 1)
    BY DEF NewCursor, Newline, Letter, Backspace
  <2>2. s.con[n].orig + SCR_WIDTH * (y + 1) = s.con[n].orig + (Start(y) + SCR_WIDTH)
    BY <1>3, Zenon
  <2>3. PICK o \in Nat : o = Screen(n).orig
    BY <1>1
  <2>4. o + (k + w) = o + k + w
    OBVIOUS
  <2>. QED BY <1>1, <1>2, <1>4, <2>1, <2>2, <2>3, <2>4
<1>6. /\ ch = Letter => NewCursor(s, n, ch, y) = s.con[n].cursor + 1
      /\ ch = Backspace => NewCursor(s, n, ch, y) = s.con[n].cursor - 1
  BY DEF NewCursor, Newline, Letter, Backspace
<1>7. /\ IsScreen(t) /\ t.con[n] = [s.con[n] EXCEPT !.cursor = NewCursor(s, n, ch, y)]
      /\ \A x \in Cells : t.vmem[x] = IF ch = Backspace /\ x = s.con[n].cursor - 1
                                      THEN Blank ELSE s.vmem[x]
  BY DEF Stored, Writes
<1>. QED BY <1>5, <1>6, <1>7

\* Looping, when the cursor is in the console.
LEMMA LoopingGoes ==
  ASSUME NEW t, IsScreen(t), NEW n \in Consoles, NEW roll, Looping(t, n, roll)
  PROVE  CursorFits(t, n) /\ Going(t, n, roll)
<1>1. PICK y \in RowNrs : Placed(t, n, y, roll)
  BY DEF Looping
<1>2. PICK w, o, z, sz, sy, c, p : IsPlaced(t, n, y, roll, w, o, z, sz, sy, c, p)
  BY <1>1, PlacedNumbers
<1>3. CursorFits(t, n)
  <2>1. t.con[n].cursor \in Area(n)
    BY <1>2 DEF IsPlaced
  <2>. QED BY <2>1, FitsArea
<1>. QED BY <1>3 DEF Going

\* l.60-75, '\n'.
LEMMA StoreNewline ==
  ASSUME NEW s, IsScreen(s), NEW n \in Consoles, NEW y \in RowNrs, NEW roll,
         Storing(s, n, y, roll, Newline), NEW t,
         Stored(s, t, n, Newline, s.con[n].cursor, NewCursor(s, n, Newline, y))
  PROVE  Going(t, n, OnPaper(roll, Newline))
<1>1. /\ Placed(s, n, y, roll) /\ Ends(s, n, y, s.con[n].cursor)
      /\ NewBehind(s, n, y, s.con[n].cursor)
  BY DEF Storing, Behind1, Newline, Letter
<1>2. Newline \in Chars /\ Newline # Backspace
  BY DEF Chars, Newline, Backspace
<1>3. /\ IsScreen(t)
      /\ t.con[n] = [s.con[n] EXCEPT !.cursor = Screen(n).orig + Start(y) + SCR_WIDTH]
      /\ \A x \in Cells : t.vmem[x] = s.vmem[x]
  <2>1. /\ IsScreen(t) /\ t.con[n] = [s.con[n] EXCEPT !.cursor = NewCursor(s, n, Newline, y)]
        /\ NewCursor(s, n, Newline, y) = Screen(n).orig + Start(y) + SCR_WIDTH
        /\ \A x \in Cells : t.vmem[x] = IF Newline = Backspace /\ x = s.con[n].cursor - 1
                                        THEN Blank ELSE s.vmem[x]
    BY <1>1, <1>2, StoredAt
  <2>. QED BY <1>2, <2>1
<1>4. PICK w, o, z, sz, sy, c, p : IsPlaced(s, n, y, roll, w, o, z, sz, sy, c, p)
  BY <1>1, PlacedNumbers
<1>5. /\ {w, o, z, sz, sy, c, p} \subseteq Nat
      /\ w = SCR_WIDTH /\ o = Screen(n).orig /\ sy = Start(y) /\ c = roll.col
      /\ p = s.con[n].cursor /\ c < w /\ p = o + sy + c
  BY <1>4 DEF IsPlaced
<1>6. p \in Int /\ p <= Screen(n).orig + Start(y) + SCR_WIDTH
  BY <1>5
<1>7. /\ IsRoll(roll) /\ roll.rows \in Seq(Row) /\ Len(roll.rows) \in 1 .. SCR_ROWS
      /\ Len(roll.rows) - 1 <= y
  BY <1>1 DEF Placed, IsRoll
<1>8. TextUpTo(s, n, y, roll.rows, SCR_WIDTH)
  <2>1. BlankFrom(s, Screen(n).orig + Start(y) + roll.col, Screen(n).orig + Start(y) + SCR_WIDTH)
    BY <1>1, <1>5 DEF Ends
  <2>2. TextUpTo(s, n, y, roll.rows, roll.col) /\ y \in 0 .. NrRows - 1
    BY <1>1 DEF Placed, RowNrs
  <2>. QED BY <1>7, <2>1, <2>2, TextFills
<1>9. Going(t, n, [rows |-> LastRows(Append(roll.rows, EmptyRow)), col |-> 0])
  BY <1>1, <1>3, <1>5, <1>6, <1>7, <1>8, NextRowShows, SMTT(60)
<1>. QED BY <1>7, <1>9, OnPaperIs

\* l.60-75, a letter.
LEMMA StoreLetter ==
  ASSUME NEW s, IsScreen(s), NEW n \in Consoles, NEW y \in RowNrs, NEW roll,
         Storing(s, n, y, roll, Letter), NEW t,
         Stored(s, t, n, Letter, s.con[n].cursor, NewCursor(s, n, Letter, y))
  PROVE  Going(t, n, OnPaper(roll, Letter))
<1>1. /\ Placed(s, n, y, roll) /\ Ends(s, n, y, s.con[n].cursor + 1)
      /\ NewBehind(s, n, y, s.con[n].cursor + 1) /\ CellShows(s, n, y, roll.col + 1, Letter)
  BY DEF Storing, Behind1
<1>2. Letter \in Chars /\ Letter # Backspace
  BY DEF Chars, Letter, Backspace
<1>3. /\ IsScreen(t)
      /\ t.con[n] = [s.con[n] EXCEPT !.cursor = s.con[n].cursor + 1]
      /\ \A x \in Cells : t.vmem[x] = s.vmem[x]
  <2>1. /\ IsScreen(t) /\ t.con[n] = [s.con[n] EXCEPT !.cursor = NewCursor(s, n, Letter, y)]
        /\ NewCursor(s, n, Letter, y) = s.con[n].cursor + 1
        /\ \A x \in Cells : t.vmem[x] = IF Letter = Backspace /\ x = s.con[n].cursor - 1
                                        THEN Blank ELSE s.vmem[x]
    BY <1>1, <1>2, StoredAt
  <2>. QED BY <1>2, <2>1
<1>4. PICK w, o, z, sz, sy, c, p : IsPlaced(s, n, y, roll, w, o, z, sz, sy, c, p)
  BY <1>1, PlacedNumbers
<1>5. /\ {w, o, z, sz, sy, c, p} \subseteq Nat
      /\ w = SCR_WIDTH /\ o = Screen(n).orig /\ sy = Start(y) /\ c = roll.col
      /\ p = s.con[n].cursor /\ c < w /\ p = o + sy + c /\ c + 1 \in 1 .. SCR_WIDTH
  BY <1>4 DEF IsPlaced
<1>6. p + 1 \in Nat /\ p + 1 <= Screen(n).orig + Start(y) + SCR_WIDTH
  BY <1>5
<1>7. /\ IsRoll(roll) /\ roll.rows \in Seq(Row) /\ Len(roll.rows) \in 1 .. SCR_ROWS
      /\ Len(roll.rows) - 1 <= y /\ Len(roll.rows) > 0
  BY <1>1 DEF Placed, IsRoll
<1>. DEFINE put == [roll.rows EXCEPT ![Len(roll.rows)][roll.col + 1] = Letter]
            full == [rows |-> LastRows(Append(put, EmptyRow)), col |-> 0]
            more == [rows |-> put, col |-> roll.col + 1]
<1>8. CellSet(roll.rows, put, c + 1, Letter)
  BY <1>5, <1>7, CellSetIs
<1>9. /\ roll.col + 1 < SCR_WIDTH => OnPaper(roll, Letter) = more
      /\ ~(roll.col + 1 < SCR_WIDTH) => OnPaper(roll, Letter) = full
  BY <1>7, OnPaperIs, Zenon
<1>. HIDE DEF put
<1>10. put \in Seq(Row) /\ Len(put) = Len(roll.rows)
  BY <1>8 DEF CellSet
<1>11. TextUpTo(s, n, y, put, c + 1)
  <2>1. y \in Nat
    BY Sizes DEF RowNrs
  <2>2. TextUpTo(s, n, y, roll.rows, c) /\ CellShows(s, n, y, c + 1, Letter)
    BY <1>1, <1>5 DEF Placed
  <2>. QED BY <1>5, <1>7, <1>8, <2>1, <2>2, TextPut
<1>12. CASE c + 1 < w
  <2>1. OnPaper(roll, Letter) = more /\ more.rows = put /\ more.col = c + 1
    BY <1>5, <1>9, <1>12
  <2>2. IsRoll(more) /\ Len(more.rows) - 1 <= y
    <3>1. Erases(roll, Letter)
      BY <1>2 DEF Erases
    <3>2. IsRoll(OnPaper(roll, Letter))
      BY <1>2, <1>7, <3>1, OnPaperRoll
    <3>. QED BY <1>7, <1>10, <2>1, <3>2
  <2>3. TextUpTo(t, n, y, put, c + 1)
    <3>1. c + 1 \in 0 .. SCR_WIDTH /\ y \in 0 .. NrRows /\ y # NrRows
      <4>1. c + 1 \in 0 .. SCR_WIDTH
        BY <1>5
      <4>2. NrRows \in Nat
        BY Sizes
      <4>. QED BY <4>1, <4>2 DEF RowNrs
    <3>. QED BY <1>3, <1>7, <1>10, <1>11, <3>1, TextSame
  <2>4. \A x \in Cells : p + 1 <= x => p + 1 <= x /\ t.vmem[x] = s.vmem[x]
    BY <1>3
  <2>5. p + 1 = Screen(n).orig + Start(y) + more.col
    BY <1>5, <2>1
  <2>. HIDE DEF more
  <2>6. Looping(t, n, more)
    <3>1. TextUpTo(t, n, y, more.rows, more.col) /\ p + 1 \in Int
      BY <1>6, <2>1, <2>3
    <3>2. Ends(s, n, y, p + 1) /\ NewBehind(s, n, y, p + 1)
      BY <1>1, <1>5
    <3>3. t.con[n] = [s.con[n] EXCEPT !.cursor = p + 1]
      BY <1>3, <1>5
    <3>. QED BY <1>6, <2>2, <2>4, <2>5, <3>1, <3>2, <3>3, LoopsAt
  <2>. QED BY <1>3, <2>1, <2>6, LoopingGoes
<1>13. CASE ~(c + 1 < w)
  <2>1. OnPaper(roll, Letter) = full
    BY <1>5, <1>9, <1>13
  <2>2. c + 1 = w /\ p + 1 = Screen(n).orig + Start(y) + SCR_WIDTH
    BY <1>5, <1>13
  <2>3. /\ Ends(s, n, y, p + 1) /\ NewBehind(s, n, y, p + 1) /\ p + 1 \in Int
        /\ t.con[n] = [s.con[n] EXCEPT !.cursor = Screen(n).orig + Start(y) + SCR_WIDTH]
        /\ TextUpTo(s, n, y, put, SCR_WIDTH)
    BY <1>1, <1>3, <1>5, <1>6, <1>11, <2>2
  <2>4. Going(t, n, [rows |-> LastRows(Append(put, EmptyRow)), col |-> 0])
    BY <1>3, <1>6, <1>7, <1>10, <2>3, NextRowShows
  <2>. QED BY <2>1, <2>4
<1>. QED BY <1>12, <1>13

\* l.60-75, '\b'.
LEMMA StoreBackspace ==
  ASSUME NEW s, IsScreen(s), NEW n \in Consoles, NEW y \in RowNrs, NEW roll,
         Storing(s, n, y, roll, Backspace), Erases(roll, Backspace), NEW t,
         Stored(s, t, n, Backspace, s.con[n].cursor, NewCursor(s, n, Backspace, y))
  PROVE  Going(t, n, OnPaper(roll, Backspace))
<1>1. /\ Placed(s, n, y, roll) /\ Ends(s, n, y, s.con[n].cursor)
      /\ NewBehind(s, n, y, s.con[n].cursor)
  BY DEF Storing, Behind1, Letter, Backspace
<1>2. Backspace \in Chars
  BY DEF Chars
<1>3. /\ IsScreen(t)
      /\ t.con[n] = [s.con[n] EXCEPT !.cursor = s.con[n].cursor - 1]
      /\ \A x \in Cells : t.vmem[x] = IF x = s.con[n].cursor - 1 THEN Blank ELSE s.vmem[x]
  <2>1. /\ IsScreen(t) /\ t.con[n] = [s.con[n] EXCEPT !.cursor = NewCursor(s, n, Backspace, y)]
        /\ NewCursor(s, n, Backspace, y) = s.con[n].cursor - 1
        /\ \A x \in Cells : t.vmem[x] = IF Backspace = Backspace /\ x = s.con[n].cursor - 1
                                        THEN Blank ELSE s.vmem[x]
    BY <1>1, <1>2, StoredAt
  <2>. QED BY <2>1
<1>4. PICK w, o, z, sz, sy, c, p : IsPlaced(s, n, y, roll, w, o, z, sz, sy, c, p)
  BY <1>1, PlacedNumbers
<1>5. /\ {w, o, z, sz, sy, c, p} \subseteq Nat /\ 0 < w
      /\ w = SCR_WIDTH /\ o = Screen(n).orig /\ sy = Start(y) /\ c = roll.col
      /\ p = s.con[n].cursor /\ c < w /\ p = o + sy + c
  BY <1>4 DEF IsPlaced
<1>6. /\ IsRoll(roll) /\ roll.rows \in Seq(Row) /\ Len(roll.rows) \in 1 .. SCR_ROWS
      /\ Len(roll.rows) - 1 <= y /\ Len(roll.rows) > 0 /\ TextUpTo(s, n, y, roll.rows, c)
  BY <1>1, <1>5 DEF Placed, IsRoll
<1>7. PICK L \in Nat, last \in Nat : L = Len(roll.rows) /\ last = NrRows /\ y \in 0 .. last - 1
  <2>1. Len(roll.rows) \in Nat /\ NrRows \in Nat /\ y \in 0 .. NrRows - 1
    BY <1>6, Sizes DEF RowNrs
  <2>. QED BY <2>1
<1>. DEFINE after == OnPaper(roll, Backspace)
<1>8. IsRoll(after)
  BY <1>2, <1>6, OnPaperRoll
  \* What is common to both cases: the new last row is row v, the cursor goes back by one.
<1>9. ASSUME NEW v \in RowNrs, Len(after.rows) - 1 <= v,
             p - 1 = Screen(n).orig + Start(v) + after.col, p - 1 \in Nat,
             TextUpTo(s, n, v, after.rows, after.col)
      PROVE  Going(t, n, after)
  <2>. HIDE DEF after
  <2>1. TextUpTo(t, n, v, after.rows, after.col)
    <3>1. after.col \in 0 .. SCR_WIDTH /\ after.rows \in Seq(Row)
      BY <1>5, <1>8 DEF IsRoll
    <3>2. v \in 0 .. NrRows /\ v # NrRows
      BY <1>7 DEF RowNrs
    <3>3. PICK sv \in Nat, d \in Nat : sv = Start(v) /\ d = after.col
      <4>1. v \in Nat
        BY <1>7 DEF RowNrs
      <4>2. Start(v) \in Nat
        BY <4>1, RowsFollow
      <4>3. after.col \in Nat
        BY <1>5, <3>1
      <4>. QED BY <4>2, <4>3
    <3>4. \A x \in Cells : x < o + (sv + d) => t.vmem[x] = s.vmem[x]
      <4>1. p - 1 = o + (sv + d)
        <5>1. Screen(n).orig = o /\ Start(v) = sv /\ after.col = d
          BY <1>5, <3>3, Zenon
        <5>2. p - 1 = o + sv + d
          BY <1>9, <5>1, Zenon
        <5>3. o \in Nat
          BY <1>5
        <5>. QED BY <5>2, <5>3
      <4>2. \A x \in Cells : x < p - 1 => x # p - 1
        BY <1>5 DEF Cells
      <4>. QED BY <1>3, <1>5, <4>1, <4>2
    <3>5. \A x \in Cells : x < Screen(n).orig + (Start(v) + after.col) => t.vmem[x] = s.vmem[x]
      BY <1>5, <3>3, <3>4
    <3>. QED BY <1>9, <3>1, <3>2, <3>5, TextSame
  <2>2. \A x \in Cells : p - 1 <= x => t.vmem[x] = Blank \/ (p <= x /\ t.vmem[x] = s.vmem[x])
    <3>1. \A x \in Cells : p - 1 <= x => x = p - 1 \/ p <= x
      BY <1>5 DEF Cells
    <3>2. \A x \in Cells : p <= x => x # p - 1
      BY <1>5 DEF Cells
    <3>. QED BY <1>3, <1>5, <3>1, <3>2
  <2>3. p - 1 <= Screen(n).orig + Start(y) + SCR_WIDTH /\ p \in Int
    BY <1>5
  <2>4. /\ t.con[n] = [s.con[n] EXCEPT !.cursor = p - 1]
        /\ Ends(s, n, y, p) /\ NewBehind(s, n, y, p)
    BY <1>1, <1>3, <1>5
  <2>5. Looping(t, n, after)
    BY <1>8, <1>9, <2>1, <2>2, <2>3, <2>4, LoopsAt
  <2>. QED BY <1>3, <2>5, LoopingGoes
<1>10. CASE c > 0
  <2>. DEFINE put == [roll.rows EXCEPT ![Len(roll.rows)][roll.col] = Blank]
  <2>1. CellSet(roll.rows, put, roll.col, Blank)
    <3>1. roll.col \in 1 .. SCR_WIDTH
      BY <1>5, <1>10
    <3>. QED BY <1>6, <3>1, CellSetIs
  <2>2. after = [rows |-> put, col |-> roll.col - 1]
    BY <1>5, <1>6, <1>10, OnPaperIs
  <2>. HIDE DEF put, after
  <2>3. after.rows = put /\ after.col = c - 1 /\ Len(put) = L
    BY <1>5, <1>7, <2>1, <2>2 DEF CellSet
  <2>4. p - 1 = Screen(n).orig + Start(y) + after.col /\ p - 1 \in Nat
    BY <1>5, <1>10, <2>3, SMTT(60)
  <2>5. TextUpTo(s, n, y, put, c - 1)
    <3>. SUFFICES ASSUME NEW i \in 0 .. Len(put) - 1, NEW x \in 1 .. SCR_WIDTH, i > 0 \/ x <= c - 1
                  PROVE  CellShows(s, n, y - i, x, put[Len(put) - i][x])
      BY DEF TextUpTo
    <3>1. i \in Nat /\ L - i \in 1 .. L /\ i \in 0 .. Len(roll.rows) - 1
          /\ (i = 0 => L - i = L) /\ (i > 0 => L - i \in 1 .. Len(roll.rows) - 1)
      BY <1>7, <2>3
    <3>2. x \in 1 .. w
      BY <1>5
    <3>3. CASE i > 0
      <4>1. put[L - i] = roll.rows[L - i]
        BY <2>1, <3>1, <3>3 DEF CellSet
      <4>2. CellShows(s, n, y - i, x, roll.rows[Len(roll.rows) - i][x])
        BY <1>6, <3>1, <3>3 DEF TextUpTo
      <4>. QED BY <1>7, <2>3, <4>1, <4>2
    <3>4. CASE i = 0
      <4>1. x <= c - 1 /\ x <= c /\ x # c
        BY <1>5, <3>2, <3>4
      <4>2. put[L][x] = roll.rows[L][x]
        BY <1>5, <1>7, <2>1, <4>1 DEF CellSet
      <4>3. CellShows(s, n, y - i, x, roll.rows[Len(roll.rows) - i][x])
        BY <1>6, <3>1, <4>1 DEF TextUpTo
      <4>. QED BY <1>7, <2>3, <3>1, <3>4, <4>2, <4>3
    <3>. QED BY <3>1, <3>3, <3>4
  <2>6. TextUpTo(s, n, y, after.rows, after.col) /\ Len(after.rows) - 1 <= y
    BY <1>6, <1>7, <2>3, <2>5
  <2>7. Going(t, n, after)
    BY <1>9, <2>4, <2>6
  <2>. QED BY <2>7 DEF after
<1>11. CASE ~(c > 0)
  <2>1. c = 0 /\ L > 1
    BY <1>5, <1>7, <1>11 DEF Erases
  <2>. DEFINE front == SubSeq(roll.rows, 1, Len(roll.rows) - 1)
              put == [front EXCEPT ![Len(roll.rows) - 1][SCR_WIDTH] = Blank]
  <2>2. /\ front \in Seq(Row) /\ Len(front) = L - 1 /\ Len(front) > 0
        /\ \A j \in 1 .. L - 1 : front[j] = roll.rows[j]
    BY <1>6, <1>7, <2>1
  <2>3. after = [rows |-> put, col |-> SCR_WIDTH - 1]
    BY <1>5, <1>6, <1>7, <1>11, <2>1, OnPaperIs
  <2>. HIDE DEF front
  <2>4. CellSet(front, put, SCR_WIDTH, Blank)
    <3>1. SCR_WIDTH \in 1 .. SCR_WIDTH /\ Len(roll.rows) - 1 = Len(front)
      BY <1>5, <1>7, <2>2
    <3>. QED BY <2>2, <3>1, CellSetIs
  <2>. HIDE DEF put, after
  <2>5. after.rows = put /\ after.col = w - 1 /\ Len(put) = L - 1
    BY <1>5, <2>2, <2>3, <2>4 DEF CellSet
  <2>6. PICK v \in Nat : v = y - 1 /\ v \in RowNrs /\ v + 1 = y /\ L - 2 <= v
    <3>1. y - 1 \in 0 .. last - 1 /\ y - 1 \in Nat /\ (y - 1) + 1 = y /\ L - 2 <= y - 1
      BY <1>6, <1>7, <2>1
    <3>. QED BY <1>7, <3>1 DEF RowNrs
  <2>7. PICK sv \in Nat : sv = Start(v) /\ sv + w = sy
    BY <1>5, <2>6, NextRow, RowsFollow
  <2>8. p - 1 = Screen(n).orig + Start(v) + after.col /\ p - 1 \in Nat
    <3>1. p - 1 = o + sv + (w - 1) /\ p - 1 \in Nat
      BY <1>5, <2>1, <2>7
    <3>. QED BY <1>5, <2>5, <2>7, <3>1
  <2>9. TextUpTo(s, n, v, put, w - 1)
    <3>. SUFFICES ASSUME NEW i \in 0 .. Len(put) - 1, NEW x \in 1 .. SCR_WIDTH, i > 0 \/ x <= w - 1
                  PROVE  CellShows(s, n, v - i, x, put[Len(put) - i][x])
      BY DEF TextUpTo
    <3>1. /\ i \in Nat /\ (L - 1) - i \in 1 .. L - 1 /\ i + 1 \in 0 .. Len(roll.rows) - 1 /\ i + 1 > 0
          /\ L - (i + 1) = (L - 1) - i /\ y - (i + 1) = v - i
      BY <1>7, <2>1, <2>5, <2>6
    <3>2. x \in 1 .. w
      BY <1>5
    <3>3. CellShows(s, n, y - (i + 1), x, roll.rows[Len(roll.rows) - (i + 1)][x])
      BY <1>6, <3>1 DEF TextUpTo
    <3>4. CellShows(s, n, v - i, x, front[(L - 1) - i][x])
      BY <1>7, <2>2, <3>1, <3>3
    <3>5. put[(L - 1) - i][x] = front[(L - 1) - i][x]
      <4>1. CASE i > 0
        <5>1. (L - 1) - i \in 1 .. Len(front) - 1
          BY <1>7, <2>2, <3>1, <4>1
        <5>. QED BY <2>4, <5>1 DEF CellSet
      <4>2. CASE i = 0
        <5>1. x # w /\ (L - 1) - i = Len(front)
          BY <1>5, <1>7, <2>2, <3>2, <4>2
        <5>. QED BY <1>5, <2>4, <5>1 DEF CellSet
      <4>. QED BY <3>1, <4>1, <4>2
    <3>. QED BY <2>5, <3>4, <3>5
  <2>10. Len(after.rows) - 1 <= v
    BY <1>7, <2>5, <2>6
  <2>11. TextUpTo(s, n, v, after.rows, after.col)
    BY <2>5, <2>9
  <2>12. Going(t, n, after)
    BY <1>9, <2>6, <2>8, <2>10, <2>11
  <2>. QED BY <2>12 DEF after
<1>. QED BY <1>10, <1>11

\* l.60-75.
LEMMA StoreShows ==
  ASSUME NEW s, IsScreen(s), NEW n \in Consoles, NEW y \in RowNrs, NEW roll, NEW ch \in Chars,
         Storing(s, n, y, roll, ch), Erases(roll, ch), NEW t,
         Stored(s, t, n, ch, s.con[n].cursor, NewCursor(s, n, ch, y))
  PROVE  Going(t, n, OnPaper(roll, ch))
<1>1. CASE ch = Newline
  BY <1>1, StoreNewline
<1>2. CASE ch = Letter
  BY <1>2, StoreLetter
<1>3. CASE ch = Backspace
  BY <1>3, StoreBackspace
<1>. QED BY <1>1, <1>2, <1>3 DEF Chars

\* l.78-81: what stood above the end of the console stands above the last row of its
\* first screen.
LEMMA CopyShows ==
  ASSUME NEW s, IsScreen(s), NEW n \in Consoles, NEW roll, Wrapping(s, n, NrRows, roll),
         s.con[n].cursor = s.con[n].orig + s.con[n].con_size
  PROVE  Wrapping(CopyToTop(s, n), n, SCR_ROWS - 1, roll)
<1>. DEFINE t == CopyToTop(s, n)
<1>1. \A x \in Cells : t.vmem[x] = IF x - s.con[n].orig \in 0 .. SCR_SIZE - SCR_WIDTH - 1
                                   THEN s.vmem[x + Start(NrRows) + SCR_WIDTH - SCR_SIZE]
                                   ELSE s.vmem[x]
  BY CopyEffect
<1>. HIDE DEF t
<1>2. /\ IsRoll(roll) /\ roll.col = 0 /\ TextUpTo(s, n, NrRows, roll.rows, 0)
      /\ roll.rows \in Seq(Row) /\ Len(roll.rows) \in 1 .. SCR_ROWS
  BY DEF Wrapping, IsRoll
<1>3. PICK o \in Nat, z \in Nat, w \in Nat, sz \in Nat, mem \in Nat :
        /\ o = Screen(n).orig /\ z = Start(NrRows) /\ w = SCR_WIDTH /\ sz = SCR_SIZE
        /\ mem = V_MEM_CELLS /\ o + z <= mem /\ 0 < w /\ w < sz /\ 2 * sz - w <= z
  BY Numbers
<1>4. PICK last \in Nat, S \in Nat, L \in Nat :
        /\ last = NrRows /\ S = SCR_ROWS /\ L = Len(roll.rows) /\ L <= S /\ S > 1 /\ S - 1 \in Nat
        /\ last >= 2 * S - 1
  <2>1. /\ NrRows \in Nat /\ SCR_ROWS \in Nat /\ Len(roll.rows) \in Nat /\ SCR_ROWS > 1
        /\ NrRows >= 2 * SCR_ROWS - 1
    BY <1>2, Sizes
  <2>2. Len(roll.rows) <= SCR_ROWS /\ SCR_ROWS - 1 \in Nat
    BY <1>2, <2>1
  <2>. QED BY <2>1, <2>2
<1>5. s.con[n].orig = o
  BY <1>3, ConsoleNumbers
<1>6. TextUpTo(t, n, S - 1, roll.rows, 0)
  <2>. SUFFICES ASSUME NEW i \in 0 .. Len(roll.rows) - 1, NEW x \in 1 .. SCR_WIDTH, i > 0 \/ x <= 0
                PROVE  CellShows(t, n, (S - 1) - i, x, roll.rows[Len(roll.rows) - i][x])
    BY DEF TextUpTo
  <2>1. x \in 1 .. w /\ i \in 0 .. L - 1
    BY <1>3, <1>4
  <2>2. i > 0 /\ i \in Nat
    BY <2>1
  <2>3. PICK r \in Nat, d \in Nat : /\ r = (S - 1) - i /\ r \in 0 .. last - 1
                                    /\ d = last - i /\ d \in 0 .. last - 1 /\ d # 0
                                    /\ r + (last - (S - 1)) = d /\ r < S - 1
    <3>1. /\ (S - 1) - i \in 0 .. last - 1 /\ last - i \in 0 .. last - 1 /\ last - i # 0
          /\ ((S - 1) - i) + (last - (S - 1)) = last - i /\ (S - 1) - i < S - 1
      BY <1>4, <2>1, <2>2
    <3>2. (S - 1) - i \in Nat /\ last - i \in Nat
      BY <3>1
    <3>. QED BY <3>1, <3>2
  <2>4. CellShows(s, n, d, x, roll.rows[Len(roll.rows) - i][x])
    <3>1. NrRows - i = d
      BY <1>4, <2>3
    <3>2. CellShows(s, n, NrRows - i, x, roll.rows[Len(roll.rows) - i][x])
      BY <1>2, <2>2 DEF TextUpTo
    <3>. QED BY <3>1, <3>2
  <2>5. s.vmem[CellAt(n, d, x)] = roll.rows[Len(roll.rows) - i][x]
    BY <2>3, <2>4 DEF CellShows
  <2>6. PICK sr \in Nat, sd \in Nat : sr = Start(r) /\ sd = Start(d) /\ sd = sr + (z - (sz - w))
                                      /\ sr + w <= sz - w
    <3>1. last - (S - 1) \in Nat
      BY <1>4
    <3>2. /\ Start(r) \in Nat /\ Start(d) \in Nat /\ Start(last - (S - 1)) \in Nat
          /\ Start(r + (last - (S - 1))) = Start(r) + Start(last - (S - 1))
      BY <3>1, StartSum, RowsFollow
    <3>3. Start((S - 1) + (last - (S - 1))) = Start(S - 1) + Start(last - (S - 1))
      BY <1>4, <3>1, StartSum
    <3>4. (S - 1) + (last - (S - 1)) = last
      OBVIOUS
    <3>5. Start(S - 1) = sz - w
      BY <1>3, <1>4, Sizes
    <3>6. Start(last - (S - 1)) = z - (sz - w)
      <4>1. Start(last) = Start(S - 1) + Start(last - (S - 1))
        BY <3>3, <3>4
      <4>2. PICK e \in Nat : e = Start(last - (S - 1))
        BY <3>2
      <4>3. z = (sz - w) + e
        BY <1>3, <1>4, <3>5, <4>1, <4>2
      <4>. QED BY <4>2, <4>3
    <3>7. Start(r) + w <= Start(S - 1)
      BY <1>3, <1>4, <2>3, RowsFollow
    <3>8. Start(d) = Start(r) + (z - (sz - w))
      BY <2>3, <3>2, <3>6
    <3>. QED BY <3>2, <3>5, <3>7, <3>8
  <2>7. PICK a \in Nat, b \in Nat : a = CellAt(n, r, x) /\ a = o + sr + x - 1 /\ a \in Cells
                                    /\ b = CellAt(n, d, x) /\ b = o + sd + x - 1
    <3>1. /\ CellAt(n, r, x) = Screen(n).orig + Start(r) + x - 1 /\ CellAt(n, r, x) \in Cells
          /\ CellAt(n, d, x) = Screen(n).orig + Start(d) + x - 1 /\ CellAt(n, d, x) \in Cells
      BY <1>4, <2>3, CellPlace
    <3>2. \A y \in Cells : y \in Nat
      BY DEF Cells
    <3>. QED BY <1>3, <2>6, <3>1, <3>2
  <2>8. a - o \in 0 .. sz - w - 1 /\ a + z + w - sz = b
    <3>1. PICK k \in Nat : k = x - 1 /\ k < w
      BY <2>1
    <3>2. a = o + sr + k /\ b = o + sd + k
      BY <2>7, <3>1
    <3>3. sd = sr + (z - (sz - w)) /\ sr + w <= sz - w
      BY <2>6
    <3>4. a + z + w - sz = b
      BY <3>2, <3>3, SMTT(60)
    <3>5. 0 <= a - o /\ a - o <= sz - w - 1
      BY <3>1, <3>2, <3>3
    <3>. QED BY <3>4, <3>5
  <2>9. t.vmem[a] = s.vmem[b]
    BY <1>1, <1>3, <1>5, <2>7, <2>8
  <2>. QED BY <2>3, <2>5, <2>7, <2>9 DEF CellShows
<1>7. Wrapping(t, n, SCR_ROWS - 1, roll)
  BY <1>2, <1>4, <1>6 DEF Wrapping
<1>. QED BY <1>7 DEF t

\* l.82-86.
LEMMA HomeShows ==
  ASSUME NEW s, IsScreen(s), NEW n \in Consoles, NEW roll, Wrapping(s, n, SCR_ROWS - 1, roll)
  PROVE  Looping(Home(s, n, 0), n, roll)
<1>. DEFINE t == Home(s, n, 0)
<1>1. PICK o \in Nat, z \in Nat, w \in Nat, sz \in Nat, mem \in Nat :
        /\ o = Screen(n).orig /\ z = Start(NrRows) /\ w = SCR_WIDTH /\ sz = SCR_SIZE
        /\ mem = V_MEM_CELLS /\ o + z <= mem /\ 0 < w /\ w < sz /\ 2 * sz - w <= z
  BY Numbers
<1>2. PICK S \in Nat, last \in Nat :
        /\ S = SCR_ROWS /\ last = NrRows /\ S > 1 /\ S - 1 \in 0 .. last - 1
        /\ Start(S - 1) = sz - w
  <2>1. /\ NrRows \in Nat /\ SCR_ROWS \in Nat /\ SCR_ROWS > 1 /\ NrRows >= 2 * SCR_ROWS - 1
        /\ Start(SCR_ROWS - 1) = SCR_SIZE - SCR_WIDTH
    BY Sizes
  <2>2. SCR_ROWS - 1 \in 0 .. NrRows - 1
    BY <2>1
  <2>. QED BY <1>1, <2>1, <2>2
<1>3. s.con[n].orig = o /\ IsScreen(s)
  BY <1>1, ConsoleNumbers
<1>4. PICK p \in Nat : p = o + sz - w
  BY <1>1
<1>5. /\ t.con[n].cursor = p /\ t.con[n].crtc_start = o /\ t.con[n].is_full = TRUE
      /\ \A x \in Cells : t.vmem[x] = IF x - p \in 0 .. w - 1 THEN Blank ELSE s.vmem[x]
  <2>1. /\ t.con[n] = [s.con[n] EXCEPT !.crtc_start = s.con[n].orig,
                          !.cursor = s.con[n].orig + SCR_SIZE - SCR_WIDTH, !.is_full = TRUE]
        /\ \A x \in Cells : t.vmem[x] =
             IF x - (s.con[n].orig + SCR_SIZE - SCR_WIDTH) \in 0 .. SCR_WIDTH - 1
             THEN Blank ELSE s.vmem[x]
    BY HomeEffect
  <2>2. s.con[n] \in [orig : Int, con_size : Int, cursor : Int, crtc_start : Int, is_full : BOOLEAN]
    BY DEF IsScreen
  <2>3. s.con[n].orig + SCR_SIZE - SCR_WIDTH = p
    BY <1>1, <1>3, <1>4
  <2>. HIDE DEF t
  <2>. QED BY <1>1, <1>3, <2>1, <2>2, <2>3
<1>. HIDE DEF t
<1>6. /\ IsRoll(roll) /\ roll.col = 0 /\ TextUpTo(s, n, S - 1, roll.rows, 0)
      /\ roll.rows \in Seq(Row) /\ Len(roll.rows) - 1 <= S - 1
  BY <1>2 DEF Wrapping, IsRoll
<1>7. TextUpTo(t, n, S - 1, roll.rows, 0)
  <2>1. \A x \in Cells : x < o + ((sz - w) + 0) => t.vmem[x] = s.vmem[x]
    <3>1. \A x \in Cells : x < o + ((sz - w) + 0) => ~(x - p \in 0 .. w - 1)
      BY <1>1, <1>4 DEF Cells
    <3>. QED BY <1>5, <3>1
  <2>2. 0 \in 0 .. SCR_WIDTH /\ S - 1 \in 0 .. NrRows
    BY <1>1, <1>2
  <2>3. \A x \in Cells : x < Screen(n).orig + (Start(S - 1) + 0) => t.vmem[x] = s.vmem[x]
    BY <1>1, <1>2, <2>1
  <2>. QED BY <1>6, <2>2, <2>3, TextSame
<1>8. BlankFrom(t, p, o + sz)
  <2>1. \A x \in Cells : p <= x /\ x < o + sz => x - p \in 0 .. w - 1
    BY <1>1, <1>4 DEF Cells
  <2>. QED BY <1>5, <2>1 DEF BlankFrom
<1>9. Placed(t, n, S - 1, roll)
  <2>1. p = o + (sz - w) + 0
    BY <1>4
  <2>. QED BY <1>1, <1>2, <1>5, <1>6, <1>7, <2>1 DEF Placed
<1>10. Clear(t, n, p)
  BY <1>1, <1>5, <1>8 DEF Clear
<1>11. S - 1 \in RowNrs
  BY <1>2 DEF RowNrs
<1>12. Looping(t, n, roll)
  BY <1>1, <1>5, <1>8, <1>9, <1>10, <1>11 DEF Looping
<1>. QED BY <1>12 DEF t

\* A row that is placed is the cursor's.
LEMMA PlacedRow ==
  ASSUME NEW s, IsScreen(s), NEW n \in Consoles, NEW y \in RowNrs, NEW roll, Placed(s, n, y, roll)
  PROVE  /\ CursorFits(s, n) /\ Newest(s.con[n]) = Start(y) /\ Offset(s, n) \div SCR_WIDTH = y
         /\ \E r \in 0 .. NrRows - SCR_ROWS : InRows(s, n, r, y)
<1>1. PICK w, o, z, sz, sy, c, p : IsPlaced(s, n, y, roll, w, o, z, sz, sy, c, p)
  BY PlacedNumbers
<1>2. /\ {w, o, z, sz, sy, c, p} \subseteq Nat
      /\ w = SCR_WIDTH /\ o = Screen(n).orig /\ sy = Start(y) /\ c = roll.col
      /\ p = s.con[n].cursor /\ c < w /\ p = o + sy + c /\ p \in Area(n)
  BY <1>1 DEF IsPlaced
<1>3. CursorFits(s, n)
  BY <1>2, FitsArea
<1>4. PICK r \in 0 .. NrRows - SCR_ROWS, v \in 0 .. NrRows - 1 : InRows(s, n, r, v)
  BY <1>3, RowsExist
<1>5. Offset(s, n) = sy + c
  <2>1. Offset(s, n) = s.con[n].cursor - s.con[n].orig
    BY FitsArea
  <2>2. s.con[n].orig = o
    BY <1>2, ConsoleNumbers
  <2>3. o \in Nat /\ sy \in Nat /\ c \in Nat /\ o + sy + c - o = sy + c
    BY <1>2
  <2>4. s.con[n].cursor = o + sy + c
    BY <1>2
  <2>5. Offset(s, n) = (o + sy + c) - o
    BY <2>1, <2>2, <2>4
  <2>. QED BY <2>3, <2>5
<1>6. v = y
  <2>1. y \in Nat
    BY Sizes DEF RowNrs
  <2>2. Offset(s, n) \in Nat /\ Start(y) <= Offset(s, n) /\ Offset(s, n) < Start(y) + SCR_WIDTH
    BY <1>2, <1>5
  <2>3. Offset(s, n) \div SCR_WIDTH = y
    BY <2>1, <2>2, OffsetInRow
  <2>. QED BY <1>4, <2>3 DEF InRows
<1>. QED BY <1>3, <1>4, <1>6 DEF InRows

\* l.90-93, one turn: a row that comes into the window from below is cleared, or blank.
LEMMA TurnShows ==
  ASSUME NEW s, IsScreen(s), NEW n \in Consoles, NEW roll, Looping(s, n, roll),
         ~InWindow(s.con[n])
  PROVE  Looping(FollowCursor(s, n), n, roll)
<1>. DEFINE t == FollowCursor(s, n)
<1>1. PICK y \in RowNrs : Placed(s, n, y, roll) /\ Clear(s, n, s.con[n].cursor)
  BY DEF Looping
<1>2. PICK w, o, z, sz, sy, c, p : IsPlaced(s, n, y, roll, w, o, z, sz, sy, c, p)
  BY <1>1, PlacedNumbers
<1>3. /\ w \in Nat /\ o \in Nat /\ z \in Nat /\ sz \in Nat /\ sy \in Nat /\ c \in Nat /\ p \in Nat
      /\ w = SCR_WIDTH /\ o = Screen(n).orig /\ sy = Start(y) /\ c = roll.col /\ sz = SCR_SIZE
      /\ p = s.con[n].cursor /\ c < w /\ p = o + sy + c /\ z = Start(NrRows)
  BY <1>2 DEF IsPlaced
<1>4. CursorFits(s, n)
  BY <1>1, PlacedRow
<1>5. PICK r \in 0 .. NrRows - SCR_ROWS : InRows(s, n, r, y)
  BY <1>1, PlacedRow
<1>6. PICK S \in Nat, last \in Nat : S = SCR_ROWS /\ last = NrRows /\ Start(S) = sz /\ S > 1
  BY <1>3, Sizes
<1>7. /\ r \in Nat /\ r + S <= last /\ y \in 0 .. last - 1 /\ y \in Nat
  <2>1. r \in 0 .. last - S /\ y \in 0 .. last - 1
    BY <1>6 DEF RowNrs
  <2>. QED BY <2>1
<1>. DEFINE full == s.con[n].is_full
            up == UpRow(full, r, y)
<1>8. /\ up \in 0 .. NrRows - SCR_ROWS /\ ScrollUp(s.con[n]) = s.con[n].orig + Start(up)
      /\ s.con[n].orig = o /\ full \in BOOLEAN
  BY <1>3, <1>5, ScrollUpRows, ConsoleNumbers
<1>9. up \in Nat /\ up + S <= last /\ Start(up) \in Nat
  <2>1. up \in 0 .. last - S
    BY <1>6, <1>8
  <2>2. up \in Nat /\ up + S <= last
    BY <2>1
  <2>. QED BY <2>2, RowsFollow
<1>10. PICK su \in Nat : su = Start(up)
  BY <1>9
<1>11. /\ IsScreen(t) /\ t.con[n].cursor = p /\ t.con[n].is_full = full
       /\ t.con[n].crtc_start = o + su
       /\ \A x \in Cells : t.vmem[x] = IF x - p \in 0 .. w - 1 THEN Blank ELSE s.vmem[x]
  <2>1. /\ Writes(s, t, n)
        /\ t.con[n] = [s.con[n] EXCEPT !.crtc_start = ScrollUp(s.con[n])]
        /\ \A x \in Cells : t.vmem[x] = IF x - s.con[n].cursor \in 0 .. SCR_WIDTH - 1
                                        THEN Blank ELSE s.vmem[x]
    BY <1>4, TurnEffect
  <2>2. s.con[n] \in [orig : Int, con_size : Int, cursor : Int, crtc_start : Int, is_full : BOOLEAN]
    BY DEF IsScreen
  <2>3. IsScreen(t)
    BY <2>1 DEF Writes
  <2>4. ScrollUp(s.con[n]) = o + su
    BY <1>8, <1>10
  <2>. HIDE DEF t
  <2>. QED BY <1>3, <2>1, <2>2, <2>3, <2>4
<1>. HIDE DEF t, up
<1>12. \A x \in Cells : s.vmem[x] = Blank => t.vmem[x] = Blank
  BY <1>11
<1>13. TextUpTo(t, n, y, roll.rows, roll.col)
  <2>1. \A x \in Cells : x < o + (sy + c) => t.vmem[x] = s.vmem[x]
    <3>1. \A x \in Cells : x < o + (sy + c) => ~(x - p \in 0 .. w - 1)
      BY <1>3 DEF Cells
    <3>. QED BY <1>11, <3>1
  <2>2. roll.col \in 0 .. SCR_WIDTH /\ y \in 0 .. NrRows /\ y # NrRows
    BY <1>3, <1>6, <1>7
  <2>3. \A x \in Cells : x < Screen(n).orig + (Start(y) + roll.col) => t.vmem[x] = s.vmem[x]
    BY <1>3, <2>1
  <2>4. roll.rows \in Seq(Row) /\ Len(roll.rows) - 1 <= y /\ TextUpTo(s, n, y, roll.rows, roll.col)
    BY <1>1 DEF Placed, IsRoll
  <2>. QED BY <2>2, <2>3, <2>4, TextSame
<1>14. Placed(t, n, y, roll)
  BY <1>1, <1>3, <1>11, <1>13 DEF Placed
<1>15. Clear(t, n, p)
  BY <1>1, <1>3, <1>11, <1>12 DEF Clear, BlankFrom
<1>16. ASSUME InWindow(t.con[n]) PROVE BlankFrom(t, p, o + su + sz)
  <2>1. up <= y /\ y < up + S
    <3>1. InRows(t, n, up, y)
      <4>1. \E q \in 0 .. NrRows - SCR_ROWS : InRows(t, n, q, y)
        BY <1>11, <1>14, PlacedRow
      <4>2. t.con[n].orig = o
        BY <1>3, <1>11, ConsoleNumbers
      <4>. QED BY <1>8, <1>10, <1>11, <4>1, <4>2 DEF InRows
    <3>. QED BY <1>6, <1>11, <1>16, <3>1, WindowRows
  <2>2. ~(r <= y /\ y < r + S)
    BY <1>5, <1>6, WindowRows
  <2>3. CASE ~full
    <3>1. su + sz <= z
      <4>1. su + sz = Start(up + S)
        BY <1>6, <1>9, <1>10, StartSum
      <4>2. PICK k \in Nat : k = last - (up + S)
        BY <1>9
      <4>3. Start(last) = Start(up + S) + Start(k) /\ Start(k) \in Nat
        <5>1. up + S \in Nat /\ (up + S) + k = last
          BY <1>9, <4>2
        <5>2. Start((up + S) + k) = Start(up + S) + Start(k)
          BY <5>1, StartSum
        <5>. QED BY <4>2, <5>1, <5>2, RowsFollow
      <4>. QED BY <1>3, <1>6, <1>10, <4>1, <4>3
    <3>2. BlankFrom(t, p, o + z)
      BY <1>3, <1>11, <1>15, <2>3 DEF Clear
    <3>3. \A x \in Cells : x < o + su + sz => x < o + z
      BY <1>3, <3>1 DEF Cells
    <3>. QED BY <3>2, <3>3 DEF BlankFrom
  <2>4. CASE full /\ r + S = last
    <3>1. up = 0
      BY <1>6, <1>7, <2>2, <2>4 DEF up, UpRow
    <3>2. su = 0
      BY <1>10, <3>1, RowsFollow
    <3>3. BlankFrom(t, p, o + sz)
      BY <1>3, <1>11, <1>15, <2>4 DEF Clear
    <3>. QED BY <1>3, <3>2, <3>3
  <2>5. CASE full /\ r + S # last
    <3>1. up = r + 1
      BY <1>6, <1>7, <2>2, <2>5 DEF up, UpRow
    <3>2. y + 1 = up + S
      BY <1>6, <1>7, <2>1, <2>2, <3>1
    <3>3. sy + w = su + sz
      <4>1. Start(y + 1) = sy + w
        BY <1>3, <1>7, NextRow
      <4>2. Start(up + S) = su + sz
        BY <1>6, <1>9, <1>10, StartSum
      <4>. QED BY <3>2, <4>1, <4>2
    <3>4. \A x \in Cells : p <= x /\ x < o + su + sz => x - p \in 0 .. w - 1
      BY <1>3, <3>3 DEF Cells
    <3>. QED BY <1>11, <3>4 DEF BlankFrom
  <2>. QED BY <1>8, <2>3, <2>4, <2>5
<1>17. Looping(t, n, roll)
  BY <1>3, <1>11, <1>14, <1>15, <1>16 DEF Looping
<1>. QED BY <1>17 DEF t

\* Out of the loop: between two calls nothing stands behind the cursor.
LEMMA ExitShows ==
  ASSUME NEW s, IsScreen(s), NEW n \in Consoles, NEW roll, Looping(s, n, roll),
         InWindow(s.con[n])
  PROVE  Fresh(s, n, roll)
<1>1. PICK y \in RowNrs : /\ Placed(s, n, y, roll) /\ Clear(s, n, s.con[n].cursor)
                          /\ BlankFrom(s, s.con[n].cursor, s.con[n].crtc_start + SCR_SIZE)
  BY DEF Looping
<1>2. PICK w, o, z, sz, sy, c, p : IsPlaced(s, n, y, roll, w, o, z, sz, sy, c, p)
  BY <1>1, PlacedNumbers
<1>3. /\ w \in Nat /\ o \in Nat /\ sz \in Nat /\ sy \in Nat
      /\ w = SCR_WIDTH /\ o = Screen(n).orig /\ sy = Start(y) /\ sz = SCR_SIZE
      /\ p = s.con[n].cursor
  BY <1>2 DEF IsPlaced
<1>4. PICK r \in 0 .. NrRows - SCR_ROWS : InRows(s, n, r, y)
  BY <1>1, PlacedRow
<1>5. PICK S \in Nat, last \in Nat : S = SCR_ROWS /\ last = NrRows /\ Start(S) = sz
  BY <1>3, Sizes
<1>6. r \in Nat /\ y \in Nat
  <2>1. r \in 0 .. last - S /\ y \in 0 .. last - 1
    BY <1>5 DEF RowNrs
  <2>. QED BY <2>1
<1>7. PICK sr \in Nat : sr = Start(r) /\ s.con[n].crtc_start = o + sr /\ sy + w <= sr + sz
  <2>1. y < r + S
    BY <1>4, <1>5, WindowRows
  <2>2. Start(y) + w <= Start(r + S)
    BY <1>3, <1>5, <1>6, <2>1, RowsFollow
  <2>3. Start(r + S) = Start(r) + Start(S) /\ Start(r) \in Nat
    BY <1>5, <1>6, StartSum, RowsFollow
  <2>4. s.con[n].crtc_start = o + Start(r)
    BY <1>3, <1>4, ConsoleNumbers DEF InRows
  <2>. QED BY <1>3, <1>5, <2>2, <2>3, <2>4
<1>8. BlankFrom(s, p, o + sr + sz)
  BY <1>1, <1>3, <1>7
<1>9. BlankFrom(s, p, o + sy + w)
  <2>1. \A x \in Cells : x < o + sy + w => x < o + sr + sz
    BY <1>3, <1>7 DEF Cells
  <2>. QED BY <1>8, <2>1 DEF BlankFrom
<1>10. Ends(s, n, y, p) /\ NewBehind(s, n, y, p)
  BY <1>1, <1>3, <1>7, <1>8, <1>9 DEF Ends, NewBehind, BlankFrom
<1>. QED BY <1>1, <1>3, <1>10 DEF Fresh

----------------------------------------------------------------------------
\* A console that is not written on.

\* Console n is the same but for blanks in its first row.
Spared(s, t, n) == t.con[n] = s.con[n] /\ Fades(s, t, n, Start(NrRows))

\* What is written on another console.
LEMMA WritesSpares ==
  ASSUME NEW s, NEW t, NEW n \in Consoles, NEW m \in Consoles, m # n, Writes(s, t, m)
  PROVE  Spared(s, t, n)
<1>. SUFFICES ASSUME NEW p \in Cells, Screen(n).orig <= p, p < Screen(n).orig + Start(NrRows)
              PROVE  \/ t.vmem[p] = s.vmem[p]
                     \/ t.vmem[p] = Blank /\ n > 0 /\ p < Screen(n).orig + SCR_WIDTH
  BY DEF Spared, Fades, Writes
<1>1. PICK o \in Nat, z \in Nat, w \in Nat : o = Screen(n).orig /\ z = Start(NrRows) /\ w = SCR_WIDTH
  BY Numbers
<1>2. PICK b \in Nat : b = Screen(m).orig
  BY ConsolesFollow
<1>3. p \in Int /\ o <= p /\ p < o + z
  BY <1>1 DEF Cells
<1>4. n \in Nat /\ m \in Nat
  BY ConsolesFollow
<1>5. (n < m => o + z <= b) /\ (m < n => b + z <= o)
  BY <1>1, <1>2, ConsolesFollow
<1>6. Screen(m).con_size = z
  BY <1>1, ConsolesFollow
<1>7. p \notin Area(m)
  <2>1. ~(b <= p /\ p <= b + z - 1)
    BY <1>3, <1>4, <1>5
  <2>. QED BY <1>2, <1>6, <2>1 DEF Area
<1>8. ASSUME p \in BlankedBehind(m) PROVE n > 0 /\ p < o + w
  <2>1. p - (b + z) \in 0 .. w - 2
    BY <1>1, <1>2, <1>6, <1>8 DEF BlankedBehind
  <2>2. b + z <= p /\ p < b + z + w
    BY <1>1, <1>3, <2>1
  <2>3. m < n
    BY <1>3, <1>4, <1>5, <2>2
  <2>. QED BY <1>3, <1>4, <1>5, <2>2, <2>3
<1>9. \/ t.vmem[p] = s.vmem[p]
      \/ p \in Area(m)
      \/ p \in BlankedBehind(m) /\ t.vmem[p] = Blank
  BY DEF Writes
<1>. QED BY <1>1, <1>7, <1>8, <1>9

\* Blanks stay.
LEMMA BlankSpared ==
  ASSUME NEW s, NEW t, NEW n \in Consoles, Spared(s, t, n), NEW p \in Int, NEW q \in Int,
         BlankFrom(s, p, q), Screen(n).orig <= p, q <= Screen(n).orig + Start(NrRows)
  PROVE  BlankFrom(t, p, q)
<1>1. PICK o \in Nat, z \in Nat : o = Screen(n).orig /\ z = Start(NrRows)
  BY Numbers
<1>2. \A x \in Cells : p <= x /\ x < q => o <= x /\ x < o + z
  BY <1>1 DEF Cells
<1>. QED BY <1>1, <1>2 DEF Spared, Fades, BlankFrom

\* So does text.
LEMMA TextSpared ==
  ASSUME NEW s, NEW t, NEW n \in Consoles, Spared(s, t, n), NEW y \in 0 .. NrRows,
         NEW rows \in Seq(Row), Len(rows) - 1 <= y, NEW k \in 0 .. SCR_WIDTH, y = NrRows => k = 0,
         TextUpTo(s, n, y, rows, k)
  PROVE  TextUpTo(t, n, y, rows, k)
<1>1. PICK o \in Nat, z \in Nat, w \in Nat : o = Screen(n).orig /\ z = Start(NrRows) /\ w = SCR_WIDTH
  BY Numbers
<1>2. PICK last \in Nat : last = NrRows
  BY Sizes
<1>3. y \in Nat /\ y <= last /\ k \in 0 .. w
  BY <1>1, <1>2
<1>4. PICK sy \in Nat : sy = Start(y) /\ (y < last => sy + w <= z)
  <2>1. Start(y) \in Nat
    BY <1>3, RowsFollow
  <2>2. y < last => Start(y) + w <= z
    BY <1>1, <1>2, <1>3, RowsFollow
  <2>. QED BY <2>1, <2>2
<1>5. sy + k <= z
  <2>1. CASE y = last
    BY <1>1, <1>2, <1>4, <2>1
  <2>2. CASE y # last
    <3>1. y < last
      BY <1>2, <1>3, <2>2
    <3>. QED BY <1>3, <1>4, <3>1
  <2>. QED BY <2>1, <2>2
<1>6. \A p \in Cells : p < o + (sy + k) => p < o + z
  BY <1>3, <1>5 DEF Cells
<1>7. Fades(s, t, n, Start(y) + k)
  BY <1>1, <1>4, <1>6 DEF Spared, Fades
<1>. QED BY <1>7, TextFades

\* And a letter.
LEMMA CellSpared ==
  ASSUME NEW s, NEW t, NEW n \in Consoles, Spared(s, t, n), NEW y \in RowNrs,
         NEW x \in 1 .. SCR_WIDTH, NEW ch, CellShows(s, n, y, x, ch)
  PROVE  CellShows(t, n, y, x, ch)
<1>1. PICK o \in Nat, z \in Nat, w \in Nat : /\ o = Screen(n).orig /\ z = Start(NrRows)
                                             /\ w = SCR_WIDTH /\ 0 < w
  BY Numbers
<1>2. PICK sy \in Nat : sy = Start(y) /\ sy + w <= z
  BY <1>1, CellPlace DEF RowNrs
<1>3. PICK p \in Nat : /\ p = CellAt(n, y, x) /\ p \in Cells /\ o + sy <= p /\ p < o + sy + w
  <2>1. /\ CellAt(n, y, x) \in Cells /\ Screen(n).orig + Start(y) <= CellAt(n, y, x)
        /\ CellAt(n, y, x) < Screen(n).orig + Start(y) + SCR_WIDTH
    BY CellPlace DEF RowNrs
  <2>2. \A c \in Cells : c \in Nat
    BY DEF Cells
  <2>. QED BY <1>1, <1>2, <2>1, <2>2
<1>4. t.vmem[p] = s.vmem[p] \/ (t.vmem[p] = Blank /\ n > 0 /\ p < o + w)
  <2>1. o <= p /\ p < o + z
    BY <1>2, <1>3
  <2>. QED BY <1>1, <1>3, <2>1 DEF Spared, Fades
<1>5. p < o + w => y = 0
  <2>1. y \in Nat
    BY Sizes DEF RowNrs
  <2>2. y > 0 => w <= sy
    BY <1>1, <1>2, <2>1, RowsFollow
  <2>. QED BY <1>3, <2>1, <2>2
<1>. QED BY <1>3, <1>4, <1>5 DEF CellShows

\* The text of a roll.
LEMMA PlacedSpared ==
  ASSUME NEW s, NEW t, NEW n \in Consoles, Spared(s, t, n), NEW y \in RowNrs, NEW roll,
         Placed(s, n, y, roll)
  PROVE  Placed(t, n, y, roll)
<1>1. roll.rows \in Seq(Row) /\ roll.col \in 0 .. SCR_WIDTH /\ y \in 0 .. NrRows /\ y # NrRows
  <2>1. PICK last \in Nat, w \in Nat : last = NrRows /\ w = SCR_WIDTH
    BY Sizes, RowsFollow
  <2>2. roll.rows \in Seq(Row) /\ roll.col \in 0 .. SCR_WIDTH - 1
    BY DEF Placed, IsRoll
  <2>3. roll.col \in 0 .. SCR_WIDTH
    BY <2>1, <2>2
  <2>4. y \in 0 .. NrRows /\ y # NrRows
    BY <2>1 DEF RowNrs
  <2>. QED BY <2>2, <2>3, <2>4
<1>2. TextUpTo(t, n, y, roll.rows, roll.col)
  <2>1. TextUpTo(s, n, y, roll.rows, roll.col) /\ Len(roll.rows) - 1 <= y
    BY DEF Placed
  <2>. QED BY <1>1, <2>1, TextSpared
<1>. QED BY <1>2 DEF Placed, Spared

\* Places in a console: behind its cells, behind row y, behind the window.
AreWithin(s, n, y, o, z, sz, e, top) ==
  /\ o = Screen(n).orig /\ z = Start(NrRows) /\ sz = SCR_SIZE
  /\ e = Screen(n).orig + Start(y) + SCR_WIDTH /\ top = s.con[n].crtc_start
  /\ sz <= z /\ e <= o + z /\ o <= top /\ top + sz <= o + z

\* There they are.
LEMMA PlacesWithin ==
  ASSUME NEW s, IsScreen(s), NEW n \in Consoles, NEW y \in RowNrs
  PROVE  \E o \in Nat, z \in Nat, sz \in Nat, e \in Nat, top \in Int :
           AreWithin(s, n, y, o, z, sz, e, top)
<1>1. PICK o \in Nat, z \in Nat, w \in Nat, sz \in Nat, mem \in Nat :
           /\ o = Screen(n).orig /\ z = Start(NrRows) /\ w = SCR_WIDTH /\ sz = SCR_SIZE
           /\ mem = V_MEM_CELLS /\ o + z <= mem /\ 0 < w /\ w < sz /\ 2 * sz - w <= z
  BY Numbers
<1>2. PICK sy \in Nat : sy = Start(y) /\ sy + w <= z
  <2>1. 1 \in 1 .. SCR_WIDTH
    BY <1>1
  <2>2. Start(y) \in Nat /\ Start(y) + SCR_WIDTH <= Start(NrRows)
    BY <2>1, CellPlace DEF RowNrs
  <2>. QED BY <1>1, <2>2
<1>3. PICK top \in Int : top = s.con[n].crtc_start /\ o <= top /\ top + sz <= o + z
  BY <1>1, WindowIn, ConsoleNumbers
<1>4. PICK e \in Nat : e = o + sy + w
  OBVIOUS
<1>5. e = Screen(n).orig + Start(y) + SCR_WIDTH
  BY <1>1, <1>2, <1>4
<1>6. sz <= z /\ e <= o + z
  BY <1>1, <1>2, <1>4
<1>7. AreWithin(s, n, y, o, z, sz, e, top)
  BY <1>1, <1>3, <1>5, <1>6 DEF AreWithin
<1>. QED BY <1>7

\* The blanks behind p.
LEMMA EndsSpared ==
  ASSUME NEW s, IsScreen(s), NEW t, NEW n \in Consoles, Spared(s, t, n), NEW y \in RowNrs,
         NEW p \in Int, Screen(n).orig <= p
  PROVE  /\ Clear(s, n, p) => Clear(t, n, p)
         /\ Ends(s, n, y, p) => Ends(t, n, y, p)
         /\ NewBehind(s, n, y, p) => NewBehind(t, n, y, p)
<1>0. PICK o \in Nat, z \in Nat, sz \in Nat, e \in Nat, top \in Int :
        AreWithin(s, n, y, o, z, sz, e, top)
  BY PlacesWithin
<1>1. /\ o = Screen(n).orig /\ z = Start(NrRows) /\ sz = SCR_SIZE
      /\ e = Screen(n).orig + Start(y) + SCR_WIDTH /\ top = s.con[n].crtc_start
      /\ sz <= z /\ e <= o + z /\ o <= top /\ top + sz <= o + z
  BY <1>0 DEF AreWithin
<1>2. t.con[n] = s.con[n]
  BY DEF Spared
<1>3. ASSUME Clear(s, n, p) PROVE Clear(t, n, p)
  <2>1. CASE s.con[n].is_full
    <3>1. BlankFrom(s, p, o + sz) /\ o + sz \in Int /\ o + sz <= Screen(n).orig + Start(NrRows)
      BY <1>1, <1>3, <2>1 DEF Clear
    <3>2. BlankFrom(t, p, o + sz)
      BY <3>1, BlankSpared
    <3>. QED BY <1>1, <1>2, <2>1, <3>2 DEF Clear
  <2>2. CASE ~s.con[n].is_full
    <3>1. BlankFrom(s, p, o + z) /\ o + z \in Int /\ o + z <= Screen(n).orig + Start(NrRows)
      BY <1>1, <1>3, <2>2 DEF Clear
    <3>2. BlankFrom(t, p, o + z)
      BY <3>1, BlankSpared
    <3>. QED BY <1>1, <1>2, <2>2, <3>2 DEF Clear
  <2>. QED BY <2>1, <2>2
<1>4. ASSUME Ends(s, n, y, p) PROVE Ends(t, n, y, p)
  <2>1. BlankFrom(s, p, e) /\ e \in Int /\ e <= Screen(n).orig + Start(NrRows)
    BY <1>1, <1>4 DEF Ends
  <2>2. BlankFrom(t, p, e)
    BY <2>1, BlankSpared
  <2>. QED BY <1>1, <1>3, <1>4, <2>2 DEF Ends
<1>5. ASSUME NewBehind(s, n, y, p) PROVE NewBehind(t, n, y, p)
  <2>. SUFFICES ASSUME top <= e, NEW x \in Cells, top <= x, p <= x, x < top + sz
                PROVE  t.vmem[x] = Blank
    BY <1>1, <1>2 DEF NewBehind
  <2>1. s.vmem[x] = Blank
    BY <1>1, <1>5 DEF NewBehind
  <2>2. o <= x /\ x < o + z
    BY <1>1 DEF Cells
  <2>. QED BY <1>1, <2>1, <2>2 DEF Spared, Fades
<1>. QED BY <1>3, <1>4, <1>5

\* Cells that are the same.
LEMMA SameSpares ==
  ASSUME NEW s, NEW t, NEW n \in Consoles, t.con[n] = s.con[n], t.vmem = s.vmem
  PROVE  Spared(s, t, n)
BY DEF Spared, Fades

\* A cursor that is placed.
LEMMA PlacedCursor ==
  ASSUME NEW s, NEW n \in Consoles, NEW y \in RowNrs, NEW roll, Placed(s, n, y, roll)
  PROVE  /\ s.con[n].cursor \in Nat /\ Screen(n).orig <= s.con[n].cursor
         /\ s.con[n].cursor \in Area(n) /\ roll.col + 1 \in 1 .. SCR_WIDTH
<1>1. PICK w, o, z, sz, sy, c, p : IsPlaced(s, n, y, roll, w, o, z, sz, sy, c, p)
  BY PlacedNumbers
<1>2. /\ o \in Nat /\ sy \in Nat /\ c \in Nat /\ p \in Nat /\ o = Screen(n).orig /\ c = roll.col
      /\ p = s.con[n].cursor /\ p = o + sy + c /\ p \in Area(n) /\ c + 1 \in 1 .. SCR_WIDTH
  BY <1>1 DEF IsPlaced
<1>. QED BY <1>2

\* A console that is not written on is where it was.
LEMMA PhasesSpared ==
  ASSUME NEW s, IsScreen(s), NEW t, NEW n \in Consoles, Spared(s, t, n), NEW roll
  PROVE  /\ AtRest(s, n, roll) => AtRest(t, n, roll)
         /\ Fresh(s, n, roll) => Fresh(t, n, roll)
         /\ Looping(s, n, roll) => Looping(t, n, roll)
         /\ \A y \in RowNrs : \A ch : Storing(s, n, y, roll, ch) => Storing(t, n, y, roll, ch)
         /\ \A y \in {NrRows, SCR_ROWS - 1} : Wrapping(s, n, y, roll) => Wrapping(t, n, y, roll)
<1>1. t.con[n] = s.con[n]
  BY DEF Spared
<1>2. ASSUME NEW y \in RowNrs, Placed(s, n, y, roll), NEW p \in Nat, s.con[n].cursor <= p
      PROVE  /\ Placed(t, n, y, roll) /\ (Clear(s, n, p) => Clear(t, n, p))
             /\ (Ends(s, n, y, p) => Ends(t, n, y, p))
             /\ (NewBehind(s, n, y, p) => NewBehind(t, n, y, p))
  <2>1. Placed(t, n, y, roll)
    BY <1>2, PlacedSpared
  <2>2. Screen(n).orig <= p
    <3>1. s.con[n].cursor \in Nat /\ Screen(n).orig <= s.con[n].cursor /\ Screen(n).orig \in Nat
      BY <1>2, PlacedCursor, ConsolesFollow
    <3>. QED BY <1>2, <3>1
  <2>. QED BY <2>1, <2>2, EndsSpared
<1>3. ASSUME NEW y \in RowNrs, Placed(s, n, y, roll)
      PROVE  s.con[n].cursor \in Nat
  BY <1>3, PlacedCursor
<1>4. ASSUME AtRest(s, n, roll) PROVE AtRest(t, n, roll)
  <2>1. PICK y \in RowNrs : Placed(s, n, y, roll) /\ Ends(s, n, y, s.con[n].cursor)
    BY <1>4 DEF AtRest
  <2>2. s.con[n].cursor \in Nat /\ s.con[n].cursor <= s.con[n].cursor
    BY <1>3, <2>1
  <2>3. Placed(t, n, y, roll) /\ Ends(t, n, y, s.con[n].cursor)
    BY <1>2, <2>1, <2>2
  <2>. QED BY <1>1, <2>3 DEF AtRest
<1>5. ASSUME Fresh(s, n, roll) PROVE Fresh(t, n, roll)
  <2>1. PICK y \in RowNrs : /\ Placed(s, n, y, roll) /\ Ends(s, n, y, s.con[n].cursor)
                            /\ NewBehind(s, n, y, s.con[n].cursor)
    BY <1>5 DEF Fresh
  <2>2. s.con[n].cursor \in Nat /\ s.con[n].cursor <= s.con[n].cursor
    BY <1>3, <2>1
  <2>3. /\ Placed(t, n, y, roll) /\ Ends(t, n, y, s.con[n].cursor)
        /\ NewBehind(t, n, y, s.con[n].cursor)
    BY <1>2, <2>1, <2>2
  <2>. QED BY <1>1, <2>3 DEF Fresh
<1>6. ASSUME Looping(s, n, roll) PROVE Looping(t, n, roll)
  <2>1. PICK y \in RowNrs :
          /\ Placed(s, n, y, roll) /\ Clear(s, n, s.con[n].cursor)
          /\ InWindow(s.con[n]) => BlankFrom(s, s.con[n].cursor, s.con[n].crtc_start + SCR_SIZE)
    BY <1>6 DEF Looping
  <2>2. s.con[n].cursor \in Nat /\ s.con[n].cursor <= s.con[n].cursor
    BY <1>3, <2>1
  <2>3. Placed(t, n, y, roll) /\ Clear(t, n, s.con[n].cursor)
    BY <1>2, <2>1, <2>2
  <2>4. PICK o \in Nat, z \in Nat, sz \in Nat, e \in Nat, top \in Int :
          AreWithin(s, n, y, o, z, sz, e, top)
    BY PlacesWithin
  <2>5. /\ o = Screen(n).orig /\ z = Start(NrRows) /\ sz = SCR_SIZE /\ top = s.con[n].crtc_start
        /\ top + sz <= o + z
    BY <2>4 DEF AreWithin
  <2>6. InWindow(t.con[n]) => BlankFrom(t, s.con[n].cursor, top + sz)
    <3>1. Screen(n).orig <= s.con[n].cursor
      BY <2>1, PlacedCursor
    <3>2. s.con[n].cursor \in Int /\ top + sz \in Int /\ top + sz <= Screen(n).orig + Start(NrRows)
      BY <2>2, <2>5
    <3>3. BlankFrom(s, s.con[n].cursor, top + sz) => BlankFrom(t, s.con[n].cursor, top + sz)
      BY <3>1, <3>2, BlankSpared
    <3>. QED BY <1>1, <2>1, <2>5, <3>3
  <2>. QED BY <1>1, <2>3, <2>5, <2>6 DEF Looping
<1>7. ASSUME NEW y \in RowNrs, NEW ch, Storing(s, n, y, roll, ch) PROVE Storing(t, n, y, roll, ch)
  <2>1. Placed(s, n, y, roll)
    BY <1>7 DEF Storing
  <2>2. s.con[n].cursor \in Nat
    BY <1>3, <2>1
  <2>3. PICK p \in Nat : p = Behind1(s, n, ch) /\ s.con[n].cursor <= p
    <3>1. s.con[n].cursor + 1 \in Nat /\ s.con[n].cursor <= s.con[n].cursor + 1
          /\ s.con[n].cursor <= s.con[n].cursor
      BY <2>2
    <3>. QED BY <2>2, <3>1 DEF Behind1
  <2>4. Behind1(t, n, ch) = p
    BY <1>1, <2>3 DEF Behind1
  <2>5. /\ Ends(s, n, y, p) /\ NewBehind(s, n, y, p)
        /\ ch = Letter => CellShows(s, n, y, roll.col + 1, Letter)
    BY <1>7, <2>3 DEF Storing
  <2>6. Placed(t, n, y, roll) /\ Ends(t, n, y, p) /\ NewBehind(t, n, y, p)
    BY <1>2, <2>1, <2>3, <2>5
  <2>7. ch = Letter => CellShows(t, n, y, roll.col + 1, Letter)
    BY <2>1, <2>5, PlacedCursor, CellSpared
  <2>. QED BY <2>4, <2>6, <2>7 DEF Storing
<1>8. ASSUME NEW y \in {NrRows, SCR_ROWS - 1}, Wrapping(s, n, y, roll) PROVE Wrapping(t, n, y, roll)
  <2>1. /\ IsRoll(roll) /\ roll.col = 0 /\ TextUpTo(s, n, y, roll.rows, 0)
        /\ roll.rows \in Seq(Row) /\ Len(roll.rows) \in 1 .. SCR_ROWS
    BY <1>8 DEF Wrapping, IsRoll
  <2>2. PICK S \in Nat, last \in Nat, L \in Nat : /\ S = SCR_ROWS /\ last = NrRows /\ S > 1
                                                 /\ last >= 2 * S - 1 /\ L = Len(roll.rows) /\ L <= S
    <3>1. SCR_ROWS \in Nat /\ NrRows \in Nat /\ SCR_ROWS > 1 /\ NrRows >= 2 * SCR_ROWS - 1
      BY Sizes
    <3>2. Len(roll.rows) \in Nat /\ Len(roll.rows) <= SCR_ROWS
      BY <2>1, <3>1
    <3>. QED BY <3>1, <3>2
  <2>3. y \in 0 .. NrRows /\ Len(roll.rows) - 1 <= y /\ 0 \in 0 .. SCR_WIDTH
    <3>1. 0 \in 0 .. SCR_WIDTH
      BY RowsFollow
    <3>. QED BY <2>2, <3>1
  <2>4. TextUpTo(t, n, y, roll.rows, 0)
    BY <2>1, <2>3, TextSpared
  <2>. QED BY <2>1, <2>4 DEF Wrapping
<1>. QED BY <1>4, <1>5, <1>6, <1>7, <1>8

\* The user's keys move the window.
LEMMA ScrollShows ==
  ASSUME NEW s, IsScreen(s), NEW t, NEW n \in Consoles, NEW top, NEW roll, AtRest(s, n, roll),
         t.vmem = s.vmem, t.con[n] = [s.con[n] EXCEPT !.crtc_start = top]
  PROVE  AtRest(t, n, roll)
<1>1. PICK y \in RowNrs : Placed(s, n, y, roll) /\ Ends(s, n, y, s.con[n].cursor)
  BY DEF AtRest
<1>2. t.con[n].cursor = s.con[n].cursor /\ t.con[n].is_full = s.con[n].is_full
  <2>1. s.con[n] \in [orig : Int, con_size : Int, cursor : Int, crtc_start : Int, is_full : BOOLEAN]
    BY DEF IsScreen
  <2>. QED BY <2>1
<1>3. Placed(t, n, y, roll)
  BY <1>1, <1>2 DEF Placed, TextUpTo, CellShows
<1>4. Ends(t, n, y, t.con[n].cursor)
  BY <1>1, <1>2 DEF Ends, Clear, BlankFrom
<1>. QED BY <1>3, <1>4 DEF AtRest

----------------------------------------------------------------------------
\* A whole out_char(), and a string, on the paper.

\* l.60-75.
LEMMA PutCharShows ==
  ASSUME NEW s, IsScreen(s), NEW n \in Consoles, NEW roll, Fresh(s, n, roll),
         NEW ch \in {Letter, Newline}
  PROVE  Going(PutChar(s, n, ch), n, OnPaper(roll, ch))
<1>1. ch # Backspace /\ ch \in Chars
  BY DEF Letter, Newline, Backspace, Chars
<1>2. PICK y \in RowNrs : /\ Placed(s, n, y, roll) /\ Ends(s, n, y, s.con[n].cursor)
                          /\ NewBehind(s, n, y, s.con[n].cursor)
  BY DEF Fresh
<1>3. PICK p \in Int : p = s.con[n].cursor /\ p \in Area(n)
  BY <1>2, PlacedCursor
<1>. DEFINE u == Put(s, n, ch, p)
            new == NewCursor(u, n, ch, y)
<1>4. Writes(s, u, n) /\ u.con = s.con
  BY <1>3, PutEffect
<1>5. Storing(u, n, y, roll, ch)
  <2>1. Storing(Put(s, n, ch, s.con[n].cursor), n, y, roll, ch)
    BY <1>1, <1>2, PutShows
  <2>. QED BY <1>3, <2>1, Zenon
<1>6. Offset(s, n) \div SCR_WIDTH = y /\ CursorFits(s, n) /\ y \in 0 .. NrRows - 1
  BY <1>2, PlacedRow DEF RowNrs
<1>7. PutChar(s, n, ch) = Store(u, n, ch, p, new)
  <2>1. PutChar(s, n, ch) = Store(u, n, ch, p, NewCursor(s, n, ch, y))
    BY <1>1, <1>3, <1>6 DEF PutChar
  <2>2. NewCursor(s, n, ch, y) = new
    BY <1>4, Zenon DEF NewCursor
  <2>. HIDE DEF u, new
  <2>. QED BY <2>1, <2>2, Zenon
<1>. HIDE DEF u
<1>8. IsScreen(u) /\ u.con[n].cursor = p
  BY <1>3, <1>4 DEF Writes
<1>9. new \in Int
  <2>1. CursorFits(u, n)
    BY <1>4, <1>6, Zenon DEF CursorFits, Offset
  <2>2. NewCursor(u, n, ch, y) \in Int
    BY <1>1, <1>6, <1>8, <2>1, NewCursorFits
  <2>. QED BY <2>2
<1>10. Stored(u, Store(u, n, ch, p, new), n, ch, p, new)
  <2>. HIDE DEF new
  <2>. QED BY <1>1, <1>3, <1>8, <1>9, StoreEffect
<1>11. Erases(roll, ch)
  BY <1>1 DEF Erases
<1>12. Going(Store(u, n, ch, p, new), n, OnPaper(roll, ch))
  <2>1. PICK t : t = Store(u, n, ch, p, new)
    OBVIOUS
  <2>2. Stored(u, t, n, ch, u.con[n].cursor, NewCursor(u, n, ch, y))
    BY <1>8, <1>10, <2>1, Zenon
  <2>3. Going(t, n, OnPaper(roll, ch))
    BY <1>1, <1>5, <1>8, <1>11, <2>2, StoreShows
  <2>. QED BY <2>1, <2>3, Zenon
<1>. QED BY <1>7, <1>12, Zenon

\* l.77-87.
LEMMA WrappedShows ==
  ASSUME NEW s, IsScreen(s), NEW n \in Consoles, NEW roll, Going(s, n, roll),
         s.con[n].orig <= s.con[n].cursor, s.con[n].cursor <= s.con[n].orig + s.con[n].con_size
  PROVE  Looping(Wrapped(s, n), n, roll)
<1>1. CASE CursorFits(s, n)
  BY <1>1 DEF Wrapped, Going
<1>2. CASE ~CursorFits(s, n)
  <2>1. s.con[n].cursor = s.con[n].orig + s.con[n].con_size
    <3>1. PICK o \in Nat, z \in Nat, c \in Int :
             /\ o = s.con[n].orig /\ z = s.con[n].con_size /\ c = s.con[n].cursor
             /\ Area(n) = o .. o + z - 1
      BY ConsoleNumbers
    <3>2. c \notin o .. o + z - 1
      BY <3>1, <1>2, FitsArea
    <3>3. c < o \/ o + z - 1 < c
      BY <3>2
    <3>4. o <= c /\ c <= o + z
      BY <3>1, Zenon
    <3>5. c = o + z
      BY <3>3, <3>4
    <3>. QED BY <3>1, <3>5
  <2>. DEFINE u == CopyToTop(s, n)
  <2>2. Writes(s, u, n) /\ Offset(s, n) % SCR_WIDTH = 0
    BY <2>1, CopyEffect
  <2>3. Wrapped(s, n) = Home(u, n, 0)
    BY <1>2, <2>2 DEF Wrapped
  <2>4. Wrapping(s, n, NrRows, roll)
    BY <1>2 DEF Going
  <2>5. Wrapping(u, n, SCR_ROWS - 1, roll)
    BY <2>1, <2>4, CopyShows
  <2>. HIDE DEF u
  <2>6. IsScreen(u)
    BY <2>2 DEF Writes
  <2>7. Looping(Home(u, n, 0), n, roll)
    BY <2>5, <2>6, HomeShows
  <2>. QED BY <2>3, <2>7
<1>. QED BY <1>1, <1>2

\* One turn of l.90-93, or none.
LEMMA OneTurnShows ==
  ASSUME NEW s, IsScreen(s), NEW n \in Consoles, NEW roll, Looping(s, n, roll)
  PROVE  IsScreen(OneTurn(s, n)) /\ Looping(OneTurn(s, n), n, roll)
<1>1. CASE InWindow(s.con[n])
  BY <1>1 DEF OneTurn
<1>2. CASE ~InWindow(s.con[n])
  <2>1. OneTurn(s, n) = FollowCursor(s, n)
    BY <1>2 DEF OneTurn
  <2>2. IsScreen(FollowCursor(s, n))
    BY LoopingGoes, TurnEffect DEF Writes
  <2>. QED BY <1>2, <2>1, <2>2, TurnShows
<1>. QED BY <1>1, <1>2

\* The whole loop.
LEMMA FollowedShows ==
  ASSUME NEW s, IsScreen(s), NEW n \in Consoles, NEW roll, Looping(s, n, roll)
  PROVE  IsScreen(Followed(s, n)) /\ Looping(Followed(s, n), n, roll)
<1>1. PICK f : /\ f[0] = s /\ Followed(s, n) = f[Start(NrRows)]
               /\ \A k \in 1 .. Start(NrRows) : f[k] = OneTurn(f[k - 1], n)
  BY FollowedIs
<1>2. PICK N \in Nat : N = Start(NrRows)
  BY Sizes
<1>. DEFINE P == {k \in 0 .. N : IsScreen(f[k]) /\ Looping(f[k], n, roll)}
<1>3. 0 \in P
  BY <1>1, <1>2
<1>4. ASSUME NEW k \in 1 .. N, k - 1 \in P PROVE k \in P
  <2>1. PICK u : u = f[k - 1]
    OBVIOUS
  <2>2. IsScreen(u) /\ Looping(u, n, roll) /\ f[k] = OneTurn(u, n)
    BY <1>1, <1>2, <1>4, <2>1
  <2>3. IsScreen(OneTurn(u, n)) /\ Looping(OneTurn(u, n), n, roll)
    BY <2>2, OneTurnShows
  <2>. QED BY <2>2, <2>3
<1>. HIDE DEF P
<1>5. 0 .. N \subseteq P /\ N \in 0 .. N
  BY <1>3, <1>4, <1>2, CountUp
<1>. QED BY <1>1, <1>2, <1>5 DEF P

\* A whole out_char().
LEMMA OutCharShows ==
  ASSUME NEW s, IsScreen(s), NEW n \in Consoles, NEW roll, Fresh(s, n, roll),
         NEW ch \in {Letter, Newline}, OutChar([screen |-> s, failed |-> 0], n, ch).failed = 0
  PROVE  Fresh(OutChar([screen |-> s, failed |-> 0], n, ch).screen, n, OnPaper(roll, ch))
<1>. DEFINE t1 == PutChar(s, n, ch)
            t2 == Wrapped(t1, n)
            t3 == Followed(t2, n)
            st == OutChar([screen |-> s, failed |-> 0], n, ch)
<1>1. st = IF ~CursorFits(s, n) THEN [screen |-> s, failed |-> 55]
           ELSE IF ~InWindow(t3.con[n]) THEN [screen |-> t3, failed |-> 90]
           ELSE [screen |-> Flushed(t3, n), failed |-> 0]
  BY DEF OutChar
<1>2. CursorFits(s, n)
  BY PlacedRow DEF Fresh
<1>3. Advanced(s, t1, n)
  BY <1>2, PutCharEffect
<1>4. Going(t1, n, OnPaper(roll, ch))
  BY PutCharShows
<1>. HIDE DEF t1
<1>5. /\ IsScreen(t1) /\ t1.con[n].orig <= t1.con[n].cursor
      /\ t1.con[n].cursor <= t1.con[n].orig + t1.con[n].con_size
  <2>1. IsScreen(t1) /\ t1.con[n].cursor > s.con[n].cursor
        /\ t1.con[n].cursor <= s.con[n].orig + s.con[n].con_size
    BY <1>3, Zenon DEF Advanced, Writes
  <2>4. /\ s.con[n].orig \in Nat /\ s.con[n].con_size \in Nat /\ s.con[n].cursor \in Int
        /\ Area(n) = s.con[n].orig .. s.con[n].orig + s.con[n].con_size - 1
        /\ s.con[n].orig = Screen(n).orig /\ s.con[n].con_size = Start(NrRows)
    BY ConsoleNumbers
  <2>5. /\ t1.con[n].cursor \in Int /\ t1.con[n].orig = Screen(n).orig
        /\ t1.con[n].con_size = Start(NrRows)
    BY <2>1, ConsoleNumbers
  <2>2. PICK o \in Nat, z \in Nat, c \in Int, d \in Int :
          /\ o = s.con[n].orig /\ z = s.con[n].con_size /\ c = s.con[n].cursor
          /\ d = t1.con[n].cursor /\ o = t1.con[n].orig /\ z = t1.con[n].con_size
          /\ Area(n) = o .. o + z - 1
    BY <2>4, <2>5, Zenon
  <2>3. c \in o .. o + z - 1
    BY <1>2, <2>2, FitsArea
  <2>6. d > c /\ d <= o + z
    BY <2>1, <2>2, Zenon
  <2>7. o <= d
    BY <2>3, <2>6
  <2>. QED BY <2>1, <2>2, <2>6, <2>7
<1>6. IsScreen(t2) /\ Looping(t2, n, OnPaper(roll, ch))
  BY <1>4, <1>5, WrappedShows, WrappedEffect DEF Writes
<1>. HIDE DEF t2
<1>7. IsScreen(t3) /\ Looping(t3, n, OnPaper(roll, ch))
  BY <1>6, FollowedShows
<1>. HIDE DEF t3
<1>8. InWindow(t3.con[n]) /\ st.screen = Flushed(t3, n)
  <2>1. st.failed = 0
    OBVIOUS
  <2>. HIDE DEF st
  <2>. QED BY <1>1, <1>2, <2>1
<1>9. Fresh(t3, n, OnPaper(roll, ch))
  BY <1>7, <1>8, ExitShows
<1>10. Spared(t3, Flushed(t3, n), n)
  BY <1>7, FlushEffect, SameSpares
<1>11. Fresh(Flushed(t3, n), n, OnPaper(roll, ch))
  BY <1>7, <1>9, <1>10, PhasesSpared
<1>. QED BY <1>8, <1>11

\* f is the rolls that TextOnPaper() goes through.
IsPaperOf(f, roll, str, N) ==
  f = [k \in 0 .. N |-> IF k = 0 THEN roll ELSE OnPaper(f[k - 1], str[k])]

\* There is one.
LEMMA PaperOfExists ==
  ASSUME NEW roll, NEW str, NEW N \in Nat
  PROVE  \E f : IsPaperOf(f, roll, str, N)
<1>. DEFINE P == {m \in 0 .. N : \E f : IsPaperOf(f, roll, str, m)}
<1>1. 0 \in P
  <2>1. IsPaperOf([k \in 0 .. 0 |-> roll], roll, str, 0)
    BY DEF IsPaperOf
  <2>. QED BY <2>1
<1>2. ASSUME NEW m \in 1 .. N, m - 1 \in P PROVE m \in P
  <2>1. PICK f : IsPaperOf(f, roll, str, m - 1)
    BY <1>2
  <2>. DEFINE g == [k \in 0 .. m |-> IF k < m THEN f[k] ELSE OnPaper(f[m - 1], str[m])]
  <2>2. ASSUME NEW k \in 0 .. m
        PROVE  g[k] = IF k = 0 THEN roll ELSE OnPaper(g[k - 1], str[k])
    <3>1. CASE k = m
      <4>1. g[k] = OnPaper(f[m - 1], str[m]) /\ g[m - 1] = f[m - 1] /\ k # 0
        BY <3>1
      <4>. QED BY <3>1, <4>1
    <3>2. CASE k < m
      <4>1. k \in 0 .. m - 1 /\ g[k] = f[k]
        BY <3>2
      <4>2. f[k] = IF k = 0 THEN roll ELSE OnPaper(f[k - 1], str[k])
        BY <4>1, <2>1 DEF IsPaperOf
      <4>3. k # 0 => g[k - 1] = f[k - 1]
        BY <3>2
      <4>. QED BY <4>1, <4>2, <4>3
    <3>. QED BY <3>1, <3>2
  <2>3. IsPaperOf(g, roll, str, m)
    <3>1. g = [k \in 0 .. m |-> g[k]]
      OBVIOUS
    <3>. HIDE DEF g
    <3>2. [k \in 0 .. m |-> g[k]]
          = [k \in 0 .. m |-> IF k = 0 THEN roll ELSE OnPaper(g[k - 1], str[k])]
      BY <2>2
    <3>. QED BY <3>1, <3>2 DEF IsPaperOf
  <2>. QED BY <2>3
<1>. HIDE DEF P
<1>3. 0 .. N \subseteq P
  BY <1>1, <1>2, CountUp
<1>. QED BY <1>3 DEF P

\* They begin with roll and end with TextOnPaper().
LeadsOn(f, roll, str, N) ==
  /\ f[0] = roll /\ TextOnPaper(roll, str) = f[N]
  /\ \A k \in 1 .. N : f[k] = OnPaper(f[k - 1], str[k])

\* TextOnPaper() is what its definition says.
LEMMA TextOnPaperIs ==
  ASSUME NEW roll, NEW str, NEW N \in Nat, N = Len(str)
  PROVE  \E f : LeadsOn(f, roll, str, N)
<1>1. \E f : IsPaperOf(f, roll, str, N)
  BY PaperOfExists
<1>. DEFINE f == CHOOSE f : IsPaperOf(f, roll, str, N)
<1>2. IsPaperOf(f, roll, str, N)
  BY <1>1, Zenon
<1>3. TextOnPaper(roll, str) = f[N]
  BY Zenon DEF TextOnPaper, IsPaperOf
<1>. HIDE DEF f
<1>4. ASSUME NEW k \in 0 .. N PROVE f[k] = IF k = 0 THEN roll ELSE OnPaper(f[k - 1], str[k])
  BY <1>2 DEF IsPaperOf
<1>5. 0 \in 0 .. N
  OBVIOUS
<1>6. ASSUME NEW k \in 1 .. N PROVE f[k] = OnPaper(f[k - 1], str[k])
  <2>1. k \in 0 .. N /\ k # 0
    OBVIOUS
  <2>. QED BY <1>4, <2>1
<1>. QED BY <1>3, <1>4, <1>5, <1>6 DEF LeadsOn

\* One character.
LEMMA CharOnPaper ==
  ASSUME NEW roll, NEW ch
  PROVE  TextOnPaper(roll, <<ch>>) = OnPaper(roll, ch)
<1>1. 1 \in Nat /\ Len(<<ch>>) = 1 /\ <<ch>>[1] = ch
  OBVIOUS
<1>2. PICK f : LeadsOn(f, roll, <<ch>>, 1)
  BY <1>1, TextOnPaperIs, Zenon
<1>3. f[0] = roll /\ TextOnPaper(roll, <<ch>>) = f[1] /\ f[1] = OnPaper(f[0], <<ch>>[1])
  BY <1>2 DEF LeadsOn
<1>. QED BY <1>1, <1>3

\* sys_printx(), its loop.
LEMMA OutStringShows ==
  ASSUME NEW s, IsScreen(s), NEW str \in Seq({Letter, Newline}), NEW roll, Fresh(s, 0, roll),
         OutString(s, str).failed = 0
  PROVE  Fresh(OutString(s, str).screen, 0, TextOnPaper(roll, str))
<1>1. PICK N \in Nat : N = Len(str) /\ \A k \in 1 .. N : str[k] \in {Letter, Newline}
  OBVIOUS
<1>2. \E f : IsStringOf(f, s, str, N)
  BY StringOfExists
<1>. DEFINE f == CHOOSE f : IsStringOf(f, s, str, N)
            first == [screen |-> s, failed |-> 0]
<1>3. IsStringOf(f, s, str, N)
  BY <1>2, Zenon
<1>4. OutString(s, str) = f[N]
  BY <1>1, Zenon DEF OutString, IsStringOf
<1>. HIDE DEF f
<1>5. f[0] = first /\ \A k \in 1 .. N : f[k] = OutChar(f[k - 1], 0, str[k])
  <2>1. ASSUME NEW k \in 0 .. N PROVE f[k] = IF k = 0 THEN first ELSE OutChar(f[k - 1], 0, str[k])
    BY <1>3 DEF IsStringOf
  <2>2. 0 \in 0 .. N
    OBVIOUS
  <2>3. ASSUME NEW k \in 1 .. N PROVE f[k] = OutChar(f[k - 1], 0, str[k])
    <3>1. k \in 0 .. N /\ k # 0
      OBVIOUS
    <3>. QED BY <2>1, <3>1
  <2>. QED BY <2>1, <2>2, <2>3
<1>6. 0 \in Consoles
  BY ConsolesFollow
<1>7. PICK g : /\ g[0] = roll /\ TextOnPaper(roll, str) = g[N]
               /\ \A k \in 1 .. N : g[k] = OnPaper(g[k - 1], str[k])
  <2>1. PICK g : LeadsOn(g, roll, str, N)
    BY <1>1, TextOnPaperIs, Zenon
  <2>. QED BY <2>1 DEF LeadsOn
<1>. DEFINE Good(st, p) == /\ st = [screen |-> st.screen, failed |-> st.failed]
                           /\ IsScreen(st.screen)
                           /\ st.failed = 0 => Fresh(st.screen, 0, p)
            P == {k \in 0 .. N : Good(f[k], g[k])}
<1>8. 0 \in P
  <2>1. first.screen = s /\ first.failed = 0 /\ first = [screen |-> first.screen, failed |-> first.failed]
    OBVIOUS
  <2>. HIDE DEF first
  <2>2. Good(first, roll)
    BY <2>1
  <2>. QED BY <2>2, <1>5, <1>7
<1>9. ASSUME NEW k \in 1 .. N, k - 1 \in P PROVE k \in P
  <2>1. PICK st, p : st = f[k - 1] /\ p = g[k - 1]
    OBVIOUS
  <2>2. PICK ch \in {Letter, Newline} : ch = str[k]
    BY <1>1
  <2>3. /\ Good(st, p) /\ f[k] = OutChar(st, 0, ch)
        /\ g[k] = OnPaper(p, ch)
    BY <2>1, <2>2, <1>5, <1>7, <1>9
  <2>4. Good(f[k], g[k])
    <3>1. CASE st.failed # 0
      <4>1. f[k] = st
        BY <2>3, <3>1 DEF OutChar
      <4>. QED BY <3>1, <4>1, <2>3
    <3>2. CASE st.failed = 0
      <4>1. st = [screen |-> st.screen, failed |-> 0] /\ IsScreen(st.screen)
            /\ Fresh(st.screen, 0, p)
        BY <2>3, <3>2
      <4>2. PICK v : v = OutChar([screen |-> st.screen, failed |-> 0], 0, ch) /\ f[k] = v
        BY <2>3, <4>1
      <4>3. Printed(st.screen, v, 0)
        BY <4>1, <4>2, <1>6, OutCharEffect
      <4>4. v.failed = 0 => Fresh(v.screen, 0, OnPaper(p, ch))
        BY <4>1, <4>2, <1>6, OutCharShows
      <4>5. Good(v, OnPaper(p, ch))
        BY <4>3, <4>4 DEF Printed, Writes
      <4>. QED BY <4>2, <4>5, <2>3
    <3>. QED BY <3>1, <3>2
  <2>. QED BY <2>4
<1>. HIDE DEF P, Good
<1>10. 0 .. N \subseteq P /\ N \in 0 .. N
  BY <1>8, <1>9, CountUp, SMTT(60)
<1>11. Good(f[N], g[N])
  BY <1>10 DEF P
<1>. QED BY <1>4, <1>7, <1>11 DEF Good

----------------------------------------------------------------------------
\* The paper, between the statements of out_char().

\* Where TTY is, as console n sees it.
WriterOn(n) == IF n = writer.con THEN writer ELSE Idle

\* '\b' finds a cell of the roll, or none on the screen either.
Told(s, n, roll, ch) == Erases(roll, ch) \/ Offset(s, n) <= 0

\* What the screen s shows of roll when TTY, at w, has come so far on console n.
InPhase(s, n, roll, w) ==
  /\ w.pc = "put" => \E before : /\ Fresh(s, n, before) /\ Told(s, n, before, w.ch)
                                 /\ roll = OnPaper(before, w.ch)
  /\ w.pc = "store" =>
       \E before : \E y \in RowNrs :
         /\ Storing(s, n, y, before, w.ch) /\ Erases(before, w.ch) /\ roll = OnPaper(before, w.ch)
         /\ w.pch = s.con[n].cursor /\ w.reg = NewCursor(s, n, w.ch, y)
  /\ w.pc = "loop" => Looping(s, n, roll)
  /\ w.pc = "wrap" => Wrapping(s, n, NrRows, roll)
  /\ w.pc = "home" => Wrapping(s, n, SCR_ROWS - 1, roll)
  /\ w.pc \in {"idle", "set_cursor", "set_video_start_addr"} => AtRest(s, n, roll)

\* What console n shows is what its roll of paper says.
OnScreen(n) == IsRoll(paper[n]) /\ InPhase(screen, n, paper[n], WriterOn(n))

\* Every console is in its phase.
PaperInv ==
  /\ DOMAIN paper = Consoles
  /\ ~raced /\ ~mixed => \A n \in Consoles : OnScreen(n)

\* Between two calls.
LEMMA PhaseAtRest ==
  ASSUME NEW s, NEW n, NEW roll, NEW w, w.pc \in {"idle", "set_cursor", "set_video_start_addr"}
  PROVE  InPhase(s, n, roll, w) <=> AtRest(s, n, roll)
BY DEF InPhase

\* A console that is not written on.
LEMMA PhaseSpared ==
  ASSUME NEW s, IsScreen(s), NEW t, NEW n \in Consoles, Spared(s, t, n), NEW roll, NEW w,
         InPhase(s, n, roll, w)
  PROVE  InPhase(t, n, roll, w)
<1>1. ASSUME w.pc = "put"
      PROVE  \E before : /\ Fresh(t, n, before) /\ Told(t, n, before, w.ch)
                         /\ roll = OnPaper(before, w.ch)
  <2>1. PICK before : /\ Fresh(s, n, before) /\ Told(s, n, before, w.ch)
                      /\ roll = OnPaper(before, w.ch)
    BY <1>1, Zenon DEF InPhase
  <2>2. Fresh(t, n, before)
    BY <2>1, PhasesSpared
  <2>3. Told(t, n, before, w.ch)
    BY <2>1, Zenon DEF Told, Offset, Spared
  <2>. QED BY <2>1, <2>2, <2>3, Zenon
<1>2. ASSUME w.pc = "store"
      PROVE  \E before : \E y \in RowNrs :
               /\ Storing(t, n, y, before, w.ch) /\ Erases(before, w.ch)
               /\ roll = OnPaper(before, w.ch)
               /\ w.pch = t.con[n].cursor /\ w.reg = NewCursor(t, n, w.ch, y)
  <2>0. PICK before : \E y \in RowNrs :
          /\ Storing(s, n, y, before, w.ch) /\ Erases(before, w.ch) /\ roll = OnPaper(before, w.ch)
          /\ w.pch = s.con[n].cursor /\ w.reg = NewCursor(s, n, w.ch, y)
    BY <1>2, Zenon DEF InPhase
  <2>1. PICK y \in RowNrs :
          /\ Storing(s, n, y, before, w.ch) /\ Erases(before, w.ch) /\ roll = OnPaper(before, w.ch)
          /\ w.pch = s.con[n].cursor /\ w.reg = NewCursor(s, n, w.ch, y)
    BY <2>0
  <2>2. t.con[n] = s.con[n]
    BY DEF Spared
  <2>3. NewCursor(t, n, w.ch, y) = NewCursor(s, n, w.ch, y)
    BY <2>2, Zenon DEF NewCursor
  <2>4. Storing(t, n, y, before, w.ch)
    BY <2>1, PhasesSpared
  <2>5. /\ Storing(t, n, y, before, w.ch) /\ Erases(before, w.ch) /\ roll = OnPaper(before, w.ch)
        /\ w.pch = t.con[n].cursor /\ w.reg = NewCursor(t, n, w.ch, y)
    BY <2>1, <2>2, <2>3, <2>4, Zenon
  <2>. QED BY <2>5, Zenon
<1>3. ASSUME w.pc = "loop" PROVE Looping(t, n, roll)
  BY <1>3, PhasesSpared, Zenon DEF InPhase
<1>4. \A y \in {NrRows, SCR_ROWS - 1} : Wrapping(s, n, y, roll) => Wrapping(t, n, y, roll)
  BY PhasesSpared, Zenon
<1>5. ASSUME w.pc = "wrap" PROVE Wrapping(t, n, NrRows, roll)
  BY <1>4, <1>5 DEF InPhase
<1>6. ASSUME w.pc = "home" PROVE Wrapping(t, n, SCR_ROWS - 1, roll)
  BY <1>4, <1>6 DEF InPhase
<1>7. ASSUME w.pc \in {"idle", "set_cursor", "set_video_start_addr"} PROVE AtRest(t, n, roll)
  <2>1. AtRest(s, n, roll)
    BY <1>7, PhaseAtRest
  <2>. QED BY <2>1, PhasesSpared
<1>. QED BY <1>1, <1>2, <1>3, <1>5, <1>6, <1>7, Zenon DEF InPhase

\* What has to be seen of a step on console n.
LEMMA PaperKept ==
  ASSUME ConsoleInv, failed = 0, PaperInv, NEW n \in Consoles, Writes(screen, screen', n),
         DOMAIN paper' = Consoles, ~raced' /\ ~mixed' => ~raced /\ ~mixed,
         \A m \in Consoles \ {n} :
           /\ paper'[m] = paper[m]
           /\ \/ WriterOn(m)' = WriterOn(m)
              \/ WriterOn(m).pc = "idle" /\ WriterOn(m)'.pc = "idle",
         ~raced' /\ ~mixed' => OnScreen(n)'
  PROVE  PaperInv'
<1>1. ASSUME ~raced', ~mixed', NEW m \in Consoles \ {n} PROVE OnScreen(m)'
  <2>1. IsRoll(paper[m]) /\ InPhase(screen, m, paper[m], WriterOn(m))
    BY <1>1 DEF PaperInv, OnScreen
  <2>2. IsRoll(paper'[m])
    BY <1>1, <2>1
  <2>3. Spared(screen, screen', m) /\ IsScreen(screen)
    BY <1>1, Running, WritesSpares
  <2>4. InPhase(screen', m, paper[m], WriterOn(m))
    BY <2>1, <2>3, PhaseSpared
  <2>5. InPhase(screen', m, paper[m], WriterOn(m)')
    <3>1. CASE WriterOn(m)' = WriterOn(m)
      BY <2>4, <3>1, Zenon
    <3>2. CASE WriterOn(m).pc = "idle" /\ WriterOn(m)'.pc = "idle"
      <4>. DEFINE v == WriterOn(m)
                  w == WriterOn(m)'
      <4>1. v.pc = "idle" /\ w.pc = "idle" /\ InPhase(screen', m, paper[m], v)
        BY <2>4, <3>2
      <4>. HIDE DEF v, w
      <4>2. InPhase(screen', m, paper[m], w)
        BY <4>1, PhaseAtRest
      <4>. QED BY <4>2 DEF w
    <3>. QED BY <1>1, <3>1, <3>2
  <2>6. InPhase(screen', m, paper'[m], WriterOn(m)')
    <3>1. paper'[m] = paper[m]
      BY <1>1
    <3>. QED BY <2>5, <3>1, Zenon
  <2>. QED BY <2>2, <2>6, Zenon DEF OnScreen
<1>. QED BY <1>1 DEF PaperInv

\* A step of TTY's on console n that adds nothing to the paper.
LEMMA TtyKeepsPaper ==
  ASSUME ConsoleInv, failed = 0, PaperInv, NEW n \in Consoles, Writes(screen, screen', n),
         n = writer.con \/ writer.pc = "idle", writer'.con = n \/ writer'.pc = "idle",
         UNCHANGED histories,
         ~raced /\ ~mixed /\ IsRoll(paper[n]) /\ InPhase(screen, n, paper[n], WriterOn(n))
           => InPhase(screen', n, paper[n], WriterOn(n)')
  PROVE  PaperInv'
<1>1. /\ paper' = paper /\ raced' = raced /\ mixed' = mixed
  BY DEF histories
<1>2. ASSUME NEW m \in Consoles \ {n} PROVE WriterOn(m).pc = "idle" /\ WriterOn(m)'.pc = "idle"
  BY <1>2 DEF WriterOn, Idle
<1>3. ASSUME ~raced', ~mixed' PROVE OnScreen(n)'
  <2>1. IsRoll(paper[n]) /\ InPhase(screen, n, paper[n], WriterOn(n))
    BY <1>1, <1>3 DEF PaperInv, OnScreen
  <2>2. InPhase(screen', n, paper[n], WriterOn(n)')
    BY <1>1, <1>3, <2>1
  <2>3. IsRoll(paper'[n])
    BY <1>1, <2>1
  <2>. QED BY <1>1, <2>2, <2>3, Zenon DEF OnScreen
<1>4. DOMAIN paper' = Consoles
  BY <1>1 DEF PaperInv
<1>. QED BY <1>1, <1>2, <1>3, <1>4, PaperKept

\* The consoles begin with what is on paper.
LEMMA PaperInitInv == ConsoleInit => PaperInv
<1>. SUFFICES ASSUME ConsoleInit PROVE PaperInv
  OBVIOUS
<1>. DEFINE roll == [rows |-> <<FullRow, EmptyRow>>, col |-> 0]
            lit(p) == \E m \in Consoles : p \in Screen(m).orig .. Screen(m).cursor - 1
<1>1. /\ screen = [vmem |-> [p \in Cells |-> IF lit(p) THEN Letter ELSE Blank],
                   con |-> [n \in Consoles |-> Screen(n)],
                   cursor |-> Screen(0).cursor, start |-> Screen(0).crtc_start]
      /\ writer = Idle /\ paper = [n \in Consoles |-> roll]
  BY Zenon DEF ConsoleInit, Cells
<1>2. \A p \in Cells : screen.vmem[p] = IF lit(p) THEN Letter ELSE Blank
  <2>. DEFINE v == [p \in Cells |-> IF lit(p) THEN Letter ELSE Blank]
  <2>1. screen.vmem = v
    BY <1>1
  <2>. HIDE DEF lit
  <2>. QED BY <2>1
<1>3. IsRoll(roll) /\ Len(roll.rows) = 2
  <2>1. FullRow \in Row /\ EmptyRow \in Row
    BY RowsFollow DEF FullRow, EmptyRow, Row
  <2>2. <<FullRow, EmptyRow>> \in Seq(Row) /\ Len(<<FullRow, EmptyRow>>) = 2
        /\ <<FullRow, EmptyRow>>[2] = EmptyRow
    BY <2>1
  <2>3. \A x \in 1 .. SCR_WIDTH : EmptyRow[x] = Blank
    BY DEF EmptyRow
  <2>4. 2 \in 1 .. SCR_ROWS /\ 0 \in 0 .. SCR_WIDTH - 1
    BY Sizes, RowsFollow
  <2>. QED BY <2>2, <2>3, <2>4 DEF IsRoll
<1>4. Start(1) = SCR_WIDTH /\ 1 \in RowNrs /\ 0 \in RowNrs
  <2>1. Start(1) = SCR_WIDTH /\ SCR_WIDTH \in Nat
    <3>1. Start(0 + 1) = Start(0) + SCR_WIDTH /\ Start(0) = 0 /\ SCR_WIDTH \in Nat
      BY NextRow, RowsFollow
    <3>. QED BY <3>1
  <2>. QED BY <2>1, Sizes DEF RowNrs
<1>5. ASSUME NEW n \in Consoles PROVE OnScreen(n)
  <2>1. PICK o \in Nat, z \in Nat, w \in Nat :
          o = Screen(n).orig /\ z = Start(NrRows) /\ w = SCR_WIDTH /\ 0 < w /\ w + w <= z
    <3>1. Screen(n).orig \in Nat /\ Start(NrRows) \in Nat /\ SCR_WIDTH \in Nat /\ 0 < SCR_WIDTH
      BY ConsolesFollow, Sizes, RowsFollow
    <3>2. 1 \in Nat /\ NrRows \in Nat /\ 1 < NrRows
      BY Sizes
    <3>3. Start(1) + SCR_WIDTH <= Start(NrRows)
      BY <3>2, RowsFollow
    <3>4. SCR_WIDTH + SCR_WIDTH <= Start(NrRows)
      BY <3>3, <1>4
    <3>. QED BY <3>1, <3>4, Zenon
  <2>2. screen.con[n] = Screen(n) /\ Screen(n).cursor = o + w /\ Screen(n).is_full = FALSE
    BY <1>1, <2>1, ConsolesFollow
  <2>3. ASSUME NEW x \in 1 .. SCR_WIDTH PROVE screen.vmem[CellAt(n, 0, x)] = Letter
    <3>1. PICK p \in Cells : p = CellAt(n, 0, x) /\ p = o + x - 1
      BY <1>4, <2>1, CellPlace, RowsFollow DEF RowNrs
    <3>2. p \in Screen(n).orig .. Screen(n).cursor - 1
      BY <2>1, <2>2, <3>1
    <3>. QED BY <1>2, <3>1, <3>2
  <2>4. TextUpTo(screen, n, 1, roll.rows, 0)
    <3>1. ASSUME NEW i \in 0 .. Len(roll.rows) - 1, NEW x \in 1 .. SCR_WIDTH, i > 0 \/ x <= 0
          PROVE  CellShows(screen, n, 1 - i, x, roll.rows[Len(roll.rows) - i][x])
      <4>1. i = 1 /\ 1 - i = 0 /\ Len(roll.rows) - i = 1
        BY <1>3, <3>1
      <4>2. roll.rows[1][x] = Letter
        BY DEF FullRow
      <4>. QED BY <2>3, <4>1, <4>2, Zenon DEF CellShows
    <3>. QED BY <3>1 DEF TextUpTo
  <2>5. ASSUME NEW x \in Cells, o + w <= x, x < o + z PROVE screen.vmem[x] = Blank
    <3>1. ASSUME NEW m \in Consoles, x \in Screen(m).orig .. Screen(m).cursor - 1 PROVE FALSE
      <4>1. PICK a \in Nat : /\ a = Screen(m).orig /\ Screen(m).cursor = a + w
                             /\ m < n => a + z <= o
                             /\ n < m => o + z <= a
        <5>1. /\ Screen(m).orig \in Nat /\ Screen(m).cursor = Screen(m).orig + SCR_WIDTH
              /\ m < n => Screen(m).orig + Start(NrRows) <= Screen(n).orig
              /\ n < m => Screen(n).orig + Start(NrRows) <= Screen(m).orig
          BY ConsolesFollow
        <5>. QED BY <2>1, <5>1
      <4>2. m \in Nat /\ n \in Nat
        BY ConsolesFollow
      <4>3. a <= x /\ x < a + w
        BY <3>1, <4>1, <2>1 DEF Cells
      <4>4. m = n => a = o
        BY <2>1, <4>1
      <4>. QED BY <2>1, <2>5, <4>1, <4>2, <4>3, <4>4 DEF Cells
    <3>. QED BY <1>2, <3>1
  <2>6. Clear(screen, n, o + w)
    <3>1. BlankFrom(screen, o + w, o + z)
      BY <2>5 DEF BlankFrom
    <3>. QED BY <2>1, <2>2, <3>1, Zenon DEF Clear
  <2>7. BlankFrom(screen, o + w, o + Start(1) + SCR_WIDTH)
    <3>1. o + Start(1) + SCR_WIDTH = o + w + w /\ o + w + w <= o + z
      BY <1>4, <2>1
    <3>2. BlankFrom(screen, o + w, o + w + w)
      BY <2>1, <2>5, <3>1 DEF BlankFrom, Cells
    <3>. QED BY <3>1, <3>2, Zenon
  <2>8. Placed(screen, n, 1, roll)
    <3>1. Len(roll.rows) - 1 <= 1 /\ roll.col = 0 /\ o + w = o + Start(1) + 0
      BY <1>3, <1>4, <2>1
    <3>. QED BY <1>3, <2>1, <2>2, <2>4, <3>1 DEF Placed
  <2>. HIDE DEF roll
  <2>9. AtRest(screen, n, roll)
    <3>1. Ends(screen, n, 1, screen.con[n].cursor)
      BY <2>1, <2>2, <2>6, <2>7, Zenon DEF Ends
    <3>. QED BY <1>4, <2>8, <3>1 DEF AtRest
  <2>10. paper[n] = roll /\ WriterOn(n) = Idle
    BY <1>1 DEF WriterOn
  <2>11. InPhase(screen, n, paper[n], WriterOn(n))
    <3>1. Idle.pc = "idle"
      BY DEF Idle
    <3>2. InPhase(screen, n, roll, Idle)
      BY <2>9, <3>1, PhaseAtRest
    <3>. QED BY <2>10, <3>2, Zenon
  <2>12. IsRoll(paper[n])
    BY <1>3, <2>10
  <2>. QED BY <2>11, <2>12 DEF OnScreen
<1>6. DOMAIN paper = Consoles
  BY <1>1
<1>. QED BY <1>5, <1>6 DEF PaperInv

----------------------------------------------------------------------------
\* The steps keep it.

\* The phase on TTY's own console.
LEMMA OwnPhase ==
  ASSUME NEW n, n = writer.con
  PROVE  /\ \A s, roll : InPhase(s, n, roll, WriterOn(n)) <=> InPhase(s, n, roll, writer)
         /\ n = writer'.con => WriterOn(n)' = writer'
         /\ writer'.pc = "idle" => WriterOn(n)'.pc = "idle"
BY DEF WriterOn, Idle

\* '\b' finds a character before the cursor.
LEMMA ErasesBefore ==
  ASSUME NEW s, IsScreen(s), NEW n \in Consoles, NEW y \in RowNrs, NEW roll,
         Placed(s, n, y, roll), Erases(roll, Backspace)
  PROVE  Offset(s, n) > 0
<1>1. PICK w, o, z, sz, sy, c, p : IsPlaced(s, n, y, roll, w, o, z, sz, sy, c, p)
  BY PlacedNumbers
<1>2. /\ w \in Nat /\ o \in Nat /\ sy \in Nat /\ c \in Nat /\ p \in Nat
      /\ w = SCR_WIDTH /\ sy = Start(y) /\ c = roll.col /\ p = s.con[n].cursor /\ 0 < w
      /\ o = s.con[n].orig /\ p = o + sy + c
  BY <1>1, ConsoleNumbers DEF IsPlaced
<1>3. Offset(s, n) = p - o
  BY <1>2, Zenon DEF Offset
<1>4. c > 0 \/ Len(roll.rows) > 1
  BY <1>2 DEF Erases
<1>5. CASE c > 0
  BY <1>2, <1>3, <1>5
<1>6. CASE Len(roll.rows) > 1
  <2>1. y \in Nat /\ 0 < y
    <3>1. Len(roll.rows) - 1 <= y /\ Len(roll.rows) \in Nat /\ y \in Nat
      BY Sizes DEF Placed, IsRoll, RowNrs
    <3>. QED BY <1>6, <3>1
  <2>2. Start(0) + SCR_WIDTH <= Start(y) /\ Start(0) = 0
    BY <2>1, RowsFollow
  <2>3. w <= sy
    BY <1>2, <2>2
  <2>. QED BY <1>2, <1>3, <2>3
<1>. QED BY <1>4, <1>5, <1>6

\* A '\b' that finds nothing leaves the paper as it is.
LEMMA NothingErased ==
  ASSUME NEW roll, IsRoll(roll), NEW ch \in Chars, ~Erases(roll, ch)
  PROVE  ch = Backspace /\ OnPaper(roll, ch) = roll
<1>1. ch = Backspace /\ ~(roll.col > 0) /\ ~(Len(roll.rows) > 1)
  BY DEF Erases
<1>2. Newline # Backspace /\ Letter # Backspace
  BY DEF Newline, Letter, Backspace
<1>. QED BY <1>1, <1>2 DEF OnPaper

\* Before the switch the loop has nothing to do either.
LEMMA FreshLoops ==
  ASSUME NEW s, IsScreen(s), NEW n \in Consoles, NEW roll, Fresh(s, n, roll)
  PROVE  Looping(s, n, roll)
<1>1. PICK y \in RowNrs : /\ Placed(s, n, y, roll) /\ Ends(s, n, y, s.con[n].cursor)
                          /\ NewBehind(s, n, y, s.con[n].cursor)
  BY DEF Fresh
<1>2. PICK w, o, z, sz, sy, c, p : IsPlaced(s, n, y, roll, w, o, z, sz, sy, c, p)
  BY <1>1, PlacedNumbers
<1>3. /\ w \in Nat /\ o \in Nat /\ sz \in Nat /\ sy \in Nat /\ c \in Nat /\ p \in Nat
      /\ w = SCR_WIDTH /\ sz = SCR_SIZE /\ sy = Start(y) /\ p = s.con[n].cursor
      /\ o = Screen(n).orig /\ p = o + sy + c /\ c < w
  BY <1>2 DEF IsPlaced
<1>4. PICK top \in Int : top = s.con[n].crtc_start
  BY ConsoleNumbers
<1>5. ASSUME InWindow(s.con[n])
      PROVE  BlankFrom(s, s.con[n].cursor, s.con[n].crtc_start + SCR_SIZE)
  <2>1. top <= p
    BY <1>3, <1>4, <1>5 DEF InWindow
  <2>2. top <= o + sy + w
    BY <1>3, <2>1
  <2>3. \A x \in Cells : top <= x /\ p <= x /\ x < top + sz => s.vmem[x] = Blank
    BY <1>1, <1>3, <1>4, <2>2, Zenon DEF NewBehind
  <2>4. \A x \in Cells : p <= x => top <= x
    BY <1>3, <2>1 DEF Cells
  <2>. QED BY <1>3, <1>4, <2>3, <2>4, Zenon DEF BlankFrom
<1>. QED BY <1>1, <1>5 DEF Looping, Ends

\* l.71-74.
LEMMA TtyPutKeepsPaper ==
  ASSUME ConsoleInv, PaperInv, TtyPut
  PROVE  PaperInv'
<1>1. /\ failed = 0 /\ writer.pc = "put" /\ screen' = Put(screen, writer.con, writer.ch, writer.pch)
      /\ UNCHANGED histories
  BY Zenon DEF TtyPut, At
<1>2. PICK n \in Consoles, ch \in Chars, p \in Int, row \in 0 .. NrRows - 1 :
        /\ p \in Area(n) /\ n = writer.con /\ ch = writer.ch /\ p = writer.pch /\ row = writer.row
        /\ ~raced => p = screen.con[n].cursor /\ row = Offset(screen, n) \div SCR_WIDTH
  <2>1. WriterInv /\ writer.con \in Consoles /\ writer.pch \in Int
    BY <1>1, Running
  <2>. QED BY <1>1, <2>1 DEF WriterInv
<1>3. /\ Writes(screen, screen', n) /\ screen'.con = screen.con /\ IsScreen(screen)
      /\ WriterType(writer)
  BY <1>1, <1>2, Running, PutEffect DEF WriterType
<1>. DEFINE new == NewCursor(screen, n, ch, row)
<1>4. writer' = IF ch = Backspace /\ Offset(screen, n) <= 0
                THEN [Idle EXCEPT !.pc = "loop", !.con = n]
                ELSE [writer EXCEPT !.pc = "store", !.reg = new]
  BY <1>2 DEF TtyPut
<1>. HIDE DEF new
<1>5. writer'.con = n
  <2>1. "loop" \in Stops
    BY DEF Stops
  <2>2. [Idle EXCEPT !.pc = "loop", !.con = n].con = n
    BY <2>1, IdleAt
  <2>3. [writer EXCEPT !.pc = "store", !.reg = new].con = n
    BY <1>2, <1>3 DEF WriterType
  <2>. QED BY <1>4, <2>2, <2>3
<1>6. ASSUME ~raced, InPhase(screen, n, paper[n], WriterOn(n))
      PROVE  InPhase(screen', n, paper[n], WriterOn(n)')
  <2>0. PICK before : /\ Fresh(screen, n, before) /\ Told(screen, n, before, ch)
                      /\ paper[n] = OnPaper(before, ch)
    <3>1. InPhase(screen, n, paper[n], writer)
      BY <1>2, <1>6, OwnPhase
    <3>. QED BY <1>1, <1>2, <3>1 DEF InPhase
  <2>1. CASE Erases(before, ch)
    <3>1. PICK y \in RowNrs : /\ Placed(screen, n, y, before)
                              /\ Ends(screen, n, y, screen.con[n].cursor)
                              /\ NewBehind(screen, n, y, screen.con[n].cursor)
      BY <2>0 DEF Fresh
    <3>2. row = y
      BY <1>2, <1>3, <1>6, <3>1, PlacedRow
    <3>3. Storing(screen', n, y, before, ch)
      <4>1. Storing(Put(screen, n, ch, screen.con[n].cursor), n, y, before, ch)
        BY <1>3, <3>1, PutShows
      <4>. QED BY <1>1, <1>2, <1>6, <4>1, Zenon
    <3>4. ~(ch = Backspace /\ Offset(screen, n) <= 0)
      <4>1. ch = Backspace => Offset(screen, n) > 0
        BY <1>3, <2>1, <3>1, ErasesBefore
      <4>2. Offset(screen, n) \in Int
        BY <1>3, FitsArea
      <4>. QED BY <4>1, <4>2
    <3>5. writer'.pc = "store" /\ writer'.ch = ch /\ writer'.pch = p /\ writer'.reg = new
      <4>1. writer' = [writer EXCEPT !.pc = "store", !.reg = new]
        BY <1>4, <3>4
      <4>. QED BY <1>2, <1>3, <4>1 DEF WriterType
    <3>6. new = NewCursor(screen', n, ch, y) /\ p = screen'.con[n].cursor
      <4>1. NewCursor(screen', n, ch, y) = NewCursor(screen, n, ch, y)
        BY <1>3, Zenon DEF NewCursor
      <4>. QED BY <1>2, <1>3, <1>6, <3>2, <4>1, Zenon DEF new
    <3>7. InPhase(screen', n, paper[n], writer')
      <4>1. \E b : \E r \in RowNrs :
              /\ Storing(screen', n, r, b, writer'.ch) /\ Erases(b, writer'.ch)
              /\ paper[n] = OnPaper(b, writer'.ch) /\ writer'.pch = screen'.con[n].cursor
              /\ writer'.reg = NewCursor(screen', n, writer'.ch, r)
        <5>1. /\ Storing(screen', n, y, before, writer'.ch) /\ Erases(before, writer'.ch)
              /\ paper[n] = OnPaper(before, writer'.ch) /\ writer'.pch = screen'.con[n].cursor
              /\ writer'.reg = NewCursor(screen', n, writer'.ch, y)
          BY <2>0, <2>1, <3>3, <3>5, <3>6
        <5>. QED BY <5>1
      <4>. QED BY <3>5, <4>1 DEF InPhase
    <3>8. WriterOn(n)' = writer'
      BY <1>2, <1>5, OwnPhase
    <3>. QED BY <3>7, <3>8, Zenon
  <2>2. CASE ~Erases(before, ch)
    <3>1. IsRoll(before)
      BY <2>0 DEF Fresh, Placed
    <3>2. ch = Backspace /\ paper[n] = before /\ Offset(screen, n) <= 0
      BY <2>0, <2>2, <3>1, NothingErased DEF Told
    <3>3. screen' = screen
      BY <1>1, <1>2, <3>2 DEF Put, Letter, Backspace
    <3>4. writer'.pc = "loop"
      <4>1. "loop" \in Stops
        BY DEF Stops
      <4>2. [Idle EXCEPT !.pc = "loop", !.con = n].pc = "loop"
        BY <4>1, IdleAt
      <4>. QED BY <1>4, <3>2, <4>2
    <3>5. Looping(screen', n, paper[n])
      BY <1>3, <2>0, <3>2, <3>3, FreshLoops
    <3>6. InPhase(screen', n, paper[n], writer')
      BY <3>4, <3>5 DEF InPhase
    <3>7. WriterOn(n)' = writer'
      BY <1>2, <1>5, OwnPhase
    <3>. QED BY <3>6, <3>7, Zenon
  <2>. QED BY <2>1, <2>2
<1>. QED BY <1>1, <1>2, <1>3, <1>5, <1>6, TtyKeepsPaper

\* The cell before a place in a console; the first one has no neighbour there.
LEMMA BeforeCell ==
  ASSUME NEW n \in Consoles, NEW p \in Int, p \in Area(n), p > Screen(n).orig \/ n = 0
  PROVE  p - 1 \in Area(n) \/ p - 1 \notin Cells
<1>1. Area(n) = Screen(n).orig .. Screen(n).orig + Screen(n).con_size - 1
  BY DEF Area
<1>2. Screen(n).orig \in Nat /\ Screen(n).con_size \in Nat /\ (n = 0 => Screen(n).orig = 0)
  BY ConsolesFollow, Sizes
<1>3. CASE p > Screen(n).orig
  BY <1>1, <1>2, <1>3
<1>4. CASE n = 0
  <2>1. p = 0 \/ p > Screen(n).orig
    BY <1>1, <1>2, <1>4
  <2>2. p = 0 => p - 1 \notin Cells
    BY DEF Cells
  <2>. QED BY <1>3, <2>1, <2>2
<1>. QED BY <1>3, <1>4

\* l.60-70.
LEMMA TtyStoreKeepsPaper ==
  ASSUME ConsoleInv, PaperInv, TtyStore
  PROVE  PaperInv'
<1>1. /\ failed = 0 /\ writer.pc = "store"
      /\ screen' = Store(screen, writer.con, writer.ch, writer.pch, writer.reg)
      /\ writer' = [Idle EXCEPT !.pc = IF CursorFits(screen', writer.con) THEN "loop" ELSE "wrap",
                                !.con = writer.con]
      /\ UNCHANGED histories
  BY Zenon DEF TtyStore, At
<1>2. PICK n \in Consoles, ch \in Chars, p \in Int, reg \in Int :
        /\ p \in Area(n) /\ n = writer.con /\ ch = writer.ch /\ p = writer.pch /\ reg = writer.reg
        /\ ch = Backspace => p > Screen(n).orig \/ n = 0
  <2>1. /\ WriterInv /\ writer.con \in Consoles /\ writer.pch \in Int /\ writer.reg \in Int
    BY <1>1, Running
  <2>. QED BY <1>1, <2>1 DEF WriterInv
<1>3. Stored(screen, screen', n, ch, p, reg) /\ IsScreen(screen)
  <2>1. ch = Backspace => p - 1 \in Area(n) \/ p - 1 \notin Cells
    BY <1>2, BeforeCell
  <2>2. IsScreen(screen)
    BY <1>1, Running
  <2>3. Stored(screen, Store(screen, n, ch, p, reg), n, ch, p, reg)
    BY <2>1, <2>2, StoreEffect
  <2>. QED BY <1>1, <1>2, <2>2, <2>3
<1>4. writer'.con = n /\ writer'.pc = IF CursorFits(screen', n) THEN "loop" ELSE "wrap"
  <2>. DEFINE stop == IF CursorFits(screen', n) THEN "loop" ELSE "wrap"
  <2>1. stop \in Stops /\ writer' = [Idle EXCEPT !.pc = stop, !.con = n]
    BY <1>1, <1>2 DEF Stops
  <2>. HIDE DEF stop
  <2>2. writer'.con = n /\ writer'.pc = stop
    BY <2>1, IdleAt
  <2>. QED BY <2>2 DEF stop
<1>5. ASSUME InPhase(screen, n, paper[n], WriterOn(n))
      PROVE  InPhase(screen', n, paper[n], WriterOn(n)')
  <2>0. PICK before : \E y \in RowNrs :
          /\ Storing(screen, n, y, before, ch) /\ Erases(before, ch)
          /\ paper[n] = OnPaper(before, ch)
          /\ p = screen.con[n].cursor /\ reg = NewCursor(screen, n, ch, y)
    <3>1. InPhase(screen, n, paper[n], writer)
      BY <1>2, <1>5, OwnPhase
    <3>. QED BY <1>1, <1>2, <3>1 DEF InPhase
  <2>1. PICK y \in RowNrs :
          /\ Storing(screen, n, y, before, ch) /\ Erases(before, ch)
          /\ paper[n] = OnPaper(before, ch)
          /\ p = screen.con[n].cursor /\ reg = NewCursor(screen, n, ch, y)
    BY <2>0
  <2>2. Stored(screen, screen', n, ch, screen.con[n].cursor, NewCursor(screen, n, ch, y))
    BY <1>3, <2>1, Zenon
  <2>3. Going(screen', n, OnPaper(before, ch))
    BY <1>3, <2>1, <2>2, StoreShows
  <2>4. InPhase(screen', n, paper[n], writer')
    BY <1>4, <2>1, <2>3 DEF Going, InPhase
  <2>5. WriterOn(n)' = writer'
    BY <1>2, <1>4, OwnPhase
  <2>. QED BY <2>4, <2>5, Zenon
<1>6. Writes(screen, screen', n)
  BY <1>3 DEF Stored
<1>. QED BY <1>1, <1>2, <1>4, <1>5, <1>6, TtyKeepsPaper

\* l.78-81.
LEMMA TtyWrapKeepsPaper ==
  ASSUME ConsoleInv, PaperInv, TtyWrap
  PROVE  PaperInv'
<1>1. /\ failed = 0 /\ writer.pc = "wrap" /\ screen' = CopyToTop(screen, writer.con)
      /\ writer' = [writer EXCEPT !.pc = "home", !.reg = Offset(screen, writer.con) % SCR_WIDTH]
      /\ UNCHANGED histories
  BY Zenon DEF TtyWrap, At
<1>2. PICK n \in Consoles : n = writer.con
  BY <1>1, Running
<1>3. IsScreen(screen) /\ screen.con[n].cursor = screen.con[n].orig + screen.con[n].con_size
  <2>1. Behind(n)
    BY <1>1, <1>2 DEF Behind
  <2>2. IsScreen(screen) /\ screen.con[n].cursor = Screen(n).orig + Screen(n).con_size
    BY <2>1, <1>1, Running DEF CursorsFit
  <2>. QED BY <2>2 DEF IsScreen
<1>4. Writes(screen, screen', n)
  BY <1>1, <1>2, <1>3, CopyEffect
<1>5. writer'.pc = "home" /\ writer'.con = n
  <2>1. WriterType(writer)
    BY <1>1, Running DEF WriterType
  <2>. DEFINE reg == Offset(screen, writer.con) % SCR_WIDTH
  <2>2. writer' = [writer EXCEPT !.pc = "home", !.reg = reg]
    BY <1>1
  <2>. HIDE DEF reg
  <2>. QED BY <1>2, <2>1, <2>2 DEF WriterType
<1>6. ASSUME InPhase(screen, n, paper[n], WriterOn(n))
      PROVE  InPhase(screen', n, paper[n], WriterOn(n)')
  <2>1. Wrapping(screen, n, NrRows, paper[n])
    BY <1>1, <1>2, <1>6, OwnPhase DEF InPhase
  <2>2. Wrapping(screen', n, SCR_ROWS - 1, paper[n])
    <3>1. Wrapping(CopyToTop(screen, n), n, SCR_ROWS - 1, paper[n])
      BY <1>3, <2>1, CopyShows
    <3>. QED BY <1>1, <1>2, <3>1
  <2>3. InPhase(screen', n, paper[n], writer')
    BY <1>5, <2>2 DEF InPhase
  <2>4. WriterOn(n)' = writer'
    BY <1>2, <1>5, OwnPhase
  <2>. QED BY <2>3, <2>4, Zenon
<1>. QED BY <1>1, <1>2, <1>4, <1>5, <1>6, TtyKeepsPaper

\* l.82-88.
LEMMA TtyHomeKeepsPaper ==
  ASSUME ConsoleInv, PaperInv, TtyHome
  PROVE  PaperInv'
<1>1. /\ failed = 0 /\ writer.pc = "home" /\ screen' = Home(screen, writer.con, writer.reg)
      /\ writer' = [writer EXCEPT !.pc = "loop", !.reg = 0]
      /\ UNCHANGED histories
  BY Zenon DEF TtyHome, At
<1>2. PICK n \in Consoles : n = writer.con /\ writer.reg = 0
  BY <1>1, Running DEF WriterInv
<1>3. IsScreen(screen) /\ screen' = Home(screen, n, 0)
  BY <1>1, <1>2, Running
<1>4. Writes(screen, screen', n)
  BY <1>3, HomeEffect
<1>5. writer'.pc = "loop" /\ writer'.con = n
  <2>1. WriterType(writer)
    BY <1>1, Running DEF WriterType
  <2>. QED BY <1>1, <1>2, <2>1 DEF WriterType
<1>6. ASSUME InPhase(screen, n, paper[n], WriterOn(n))
      PROVE  InPhase(screen', n, paper[n], WriterOn(n)')
  <2>1. Wrapping(screen, n, SCR_ROWS - 1, paper[n])
    BY <1>1, <1>2, <1>6, OwnPhase DEF InPhase
  <2>2. Looping(screen', n, paper[n])
    BY <1>3, <2>1, HomeShows
  <2>3. InPhase(screen', n, paper[n], writer')
    BY <1>5, <2>2 DEF InPhase
  <2>4. WriterOn(n)' = writer'
    BY <1>2, <1>5, OwnPhase
  <2>. QED BY <2>3, <2>4, Zenon
<1>. QED BY <1>1, <1>2, <1>4, <1>5, <1>6, TtyKeepsPaper

\* l.90-93.
LEMMA TtyLoopKeepsPaper ==
  ASSUME ConsoleInv, PaperInv, TtyLoop
  PROVE  PaperInv'
<1>1. failed = 0 /\ writer.pc = "loop" /\ UNCHANGED histories
  BY Zenon DEF TtyLoop, At
<1>2. PICK n \in Consoles : n = writer.con
  BY <1>1, Running
<1>3. IsScreen(screen) /\ CursorFits(screen, n)
  <2>1. ~Behind(n)
    BY <1>1, <1>2 DEF Behind
  <2>. QED BY <2>1, <1>1, Running DEF CursorsFit
<1>4. InPhase(screen, n, paper[n], WriterOn(n)) => Looping(screen, n, paper[n])
  BY <1>1, <1>2, OwnPhase DEF InPhase
<1>5. CASE InWindow(screen.con[n])
  <2>1. writer' = StartFlush(screen, n) /\ screen' = screen
    BY <1>2, <1>5 DEF TtyLoop
  <2>2. writer'.pc \in {"idle", "set_cursor"} /\ (writer'.con = n \/ writer'.pc = "idle")
    <3>1. LET w == StartFlush(screen, n)
          IN  /\ w.pc \in {"idle", "set_cursor"} /\ (n = current => w.con = n)
              /\ n # current => w.pc = "idle"
      BY <1>3, StartFlushIs
    <3>. QED BY <2>1, <3>1
  <2>3. Writes(screen, screen', n)
    BY <1>3, <2>1 DEF Writes
  <2>4. ASSUME InPhase(screen, n, paper[n], WriterOn(n))
        PROVE  InPhase(screen', n, paper[n], WriterOn(n)')
    <3>1. AtRest(screen, n, paper[n])
      <4>1. Fresh(screen, n, paper[n])
        BY <1>3, <1>4, <1>5, <2>4, ExitShows
      <4>. QED BY <4>1 DEF Fresh, AtRest
    <3>2. WriterOn(n)'.pc \in {"idle", "set_cursor", "set_video_start_addr"}
      BY <1>2, <2>2, OwnPhase
    <3>3. PICK w : w = WriterOn(n)'
      OBVIOUS
    <3>4. InPhase(screen', n, paper[n], w)
      BY <2>1, <3>1, <3>2, <3>3, PhaseAtRest
    <3>. QED BY <3>3, <3>4, Zenon
  <2>. QED BY <1>1, <1>2, <2>2, <2>3, <2>4, TtyKeepsPaper
<1>6. CASE ~InWindow(screen.con[n])
  <2>1. screen' = FollowCursor(screen, n) /\ writer' = writer
    BY <1>2, <1>6 DEF TtyLoop
  <2>2. Writes(screen, screen', n)
    BY <1>3, <2>1, TurnEffect
  <2>3. ASSUME InPhase(screen, n, paper[n], WriterOn(n))
        PROVE  InPhase(screen', n, paper[n], WriterOn(n)')
    <3>1. Looping(screen', n, paper[n])
      BY <1>3, <1>4, <1>6, <2>1, <2>3, TurnShows
    <3>2. InPhase(screen', n, paper[n], writer')
      BY <1>1, <2>1, <3>1 DEF InPhase
    <3>3. WriterOn(n)' = writer'
      BY <1>2, <2>1, OwnPhase
    <3>. QED BY <3>2, <3>3, Zenon
  <2>. QED BY <1>1, <1>2, <2>1, <2>2, <2>3, TtyKeepsPaper
<1>. QED BY <1>5, <1>6

\* A step between two calls, that moves at most the window.
LEMMA RestKeepsPaper ==
  ASSUME ConsoleInv, failed = 0, PaperInv, NEW n \in Consoles, Writes(screen, screen', n),
         n = writer.con \/ writer.pc = "idle", writer'.con = n \/ writer'.pc = "idle",
         UNCHANGED histories,
         writer.pc \in {"idle", "set_cursor", "set_video_start_addr"},
         writer'.pc \in {"idle", "set_cursor", "set_video_start_addr"},
         \A roll : AtRest(screen, n, roll) => AtRest(screen', n, roll)
  PROVE  PaperInv'
<1>1. /\ WriterOn(n).pc \in {"idle", "set_cursor", "set_video_start_addr"}
      /\ WriterOn(n)'.pc \in {"idle", "set_cursor", "set_video_start_addr"}
  BY DEF WriterOn, Idle
<1>2. ASSUME InPhase(screen, n, paper[n], WriterOn(n))
      PROVE  InPhase(screen', n, paper[n], WriterOn(n)')
  <2>1. AtRest(screen, n, paper[n])
    BY <1>1, <1>2, PhaseAtRest
  <2>2. AtRest(screen', n, paper[n])
    BY <2>1
  <2>3. PICK w : w = WriterOn(n)'
    OBVIOUS
  <2>4. InPhase(screen', n, paper[n], w)
    BY <1>1, <2>2, <2>3, PhaseAtRest
  <2>. QED BY <2>3, <2>4, Zenon
<1>. QED BY <1>2, TtyKeepsPaper

\* The registers, and the keys that select a console and scroll.
LEMMA KeysKeepPaper ==
  ASSUME ConsoleInv, PaperInv,
         \/ TtySetCursor \/ TtySetVideoStartAddr
         \/ \E n \in Consoles : SelectConsole(n)
         \/ \E dir \in {SCR_UP, SCR_DN} : TtyScroll(dir)
  PROVE  PaperInv'
<1>1. ASSUME failed = 0, NEW n \in Consoles, n = writer.con \/ writer.pc = "idle",
             writer'.con = n \/ writer'.pc = "idle", UNCHANGED histories,
             writer.pc \in {"idle", "set_cursor", "set_video_start_addr"},
             writer'.pc \in {"idle", "set_cursor", "set_video_start_addr"},
             IsScreen(screen'), screen'.con = screen.con, screen'.vmem = screen.vmem
      PROVE  PaperInv'
  <2>1. Writes(screen, screen', n)
    BY <1>1 DEF Writes
  <2>2. IsScreen(screen) /\ Spared(screen, screen', n)
    BY <1>1, Running, SameSpares
  <2>3. \A roll : AtRest(screen, n, roll) => AtRest(screen', n, roll)
    BY <2>2, PhasesSpared
  <2>. QED BY <1>1, <2>1, <2>3, RestKeepsPaper
<1>2. CASE TtySetCursor
  <2>1. /\ failed = 0 /\ writer.pc = "set_cursor" /\ screen' = [screen EXCEPT !.cursor = writer.reg]
        /\ writer' = [writer EXCEPT !.pc = "set_video_start_addr",
                                    !.reg = screen.con[writer.con].crtc_start]
        /\ UNCHANGED histories
    BY <1>2, Zenon DEF TtySetCursor, At
  <2>2. IsScreen(screen) /\ WriterType(writer) /\ writer.con \in Consoles
    BY <2>1, Running DEF WriterType
  <2>3. IsScreen(screen') /\ screen'.con = screen.con /\ screen'.vmem = screen.vmem
    BY <2>1, <2>2 DEF IsScreen, WriterType
  <2>4. writer'.pc = "set_video_start_addr" /\ writer'.con = writer.con
    BY <2>1, <2>2 DEF WriterType
  <2>. QED BY <1>1, <2>1, <2>2, <2>3, <2>4
<1>3. CASE TtySetVideoStartAddr
  <2>1. /\ failed = 0 /\ writer.pc = "set_video_start_addr"
        /\ screen' = [screen EXCEPT !.start = writer.reg] /\ writer' = Idle
        /\ UNCHANGED histories
    BY <1>3, Zenon DEF TtySetVideoStartAddr, At
  <2>2. IsScreen(screen) /\ WriterType(writer) /\ writer.con \in Consoles
    BY <2>1, Running DEF WriterType
  <2>3. IsScreen(screen') /\ screen'.con = screen.con /\ screen'.vmem = screen.vmem
    BY <2>1, <2>2 DEF IsScreen, WriterType
  <2>4. writer'.pc = "idle"
    BY <2>1 DEF Idle
  <2>. QED BY <1>1, <2>1, <2>2, <2>3, <2>4
<1>4. ASSUME NEW n \in Consoles, SelectConsole(n) PROVE PaperInv'
  <2>1. /\ failed = 0 /\ writer.pc = "idle" /\ screen' = screen
        /\ writer' = [Idle EXCEPT !.pc = "set_cursor", !.con = n, !.reg = screen.con[n].cursor]
        /\ UNCHANGED histories
    BY <1>4, Zenon DEF SelectConsole, Ready, At
  <2>2. IsScreen(screen)
    BY <2>1, Running
  <2>3. writer'.pc = "set_cursor" /\ writer'.con = n
    BY <2>1 DEF Idle
  <2>. QED BY <1>1, <2>1, <2>2, <2>3
<1>5. ASSUME NEW dir \in {SCR_UP, SCR_DN}, TtyScroll(dir) PROVE PaperInv'
  <2>. DEFINE top == Scrolled(screen.con[current], dir)
  <2>1. /\ failed = 0 /\ writer.pc = "idle"
        /\ screen' = [screen EXCEPT !.con[current].crtc_start = top]
        /\ writer' = StartFlush(screen', current) /\ UNCHANGED histories
    BY <1>5, Zenon DEF TtyScroll, Ready, At
  <2>2. PICK n \in Consoles : n = current
    BY <2>1, Running
  <2>3. IsScreen(screen) /\ CursorFits(screen, n)
    <3>1. ~Behind(n)
      BY <2>1 DEF Behind
    <3>. QED BY <3>1, <2>1, Running DEF CursorsFit
  <2>4. top \in Tops(n) /\ top \in Int
    BY <2>2, <2>3, ScrolledWithin
  <2>. HIDE DEF top
  <2>5. /\ Writes(screen, screen', n) /\ screen'.vmem = screen.vmem
        /\ screen'.con[n] = [screen.con[n] EXCEPT !.crtc_start = top]
    BY <2>1, <2>2, <2>3, <2>4, ScrollEffect
  <2>6. writer'.pc = "set_cursor" /\ writer'.con = n
    <3>1. IsScreen(screen')
      BY <2>5 DEF Writes
    <3>. QED BY <2>1, <2>2, <3>1, StartFlushIs
  <2>7. \A roll : AtRest(screen, n, roll) => AtRest(screen', n, roll)
    BY <2>3, <2>5, ScrollShows
  <2>. QED BY <2>1, <2>5, <2>6, <2>7, RestKeepsPaper
<1>. QED BY <1>2, <1>3, <1>4, <1>5

\* Text is written where no old rows are shown below it.
LEMMA RestIsFresh ==
  ASSUME NEW n \in Consoles, IsScreen(screen), NEW roll, AtRest(screen, n, roll), ~OldBelow(n)
  PROVE  Fresh(screen, n, roll)
<1>1. PICK y \in RowNrs : Placed(screen, n, y, roll) /\ Ends(screen, n, y, screen.con[n].cursor)
  BY DEF AtRest
<1>2. PICK o \in Nat, z \in Nat, sz \in Nat, top \in Int, p \in Int, full \in BOOLEAN :
        /\ o = screen.con[n].orig /\ o = Screen(n).orig /\ z = Start(NrRows) /\ sz = SCR_SIZE
        /\ top = screen.con[n].crtc_start /\ p = screen.con[n].cursor
        /\ full = screen.con[n].is_full /\ top + sz <= o + z
  <2>1. screen.con[n].crtc_start + SCR_SIZE <= screen.con[n].orig + Start(NrRows)
    BY WindowIn, ConsoleNumbers
  <2>2. /\ screen.con[n].orig \in Nat /\ screen.con[n].orig = Screen(n).orig
        /\ Start(NrRows) \in Nat /\ SCR_SIZE \in Nat /\ screen.con[n].crtc_start \in Int
        /\ screen.con[n].cursor \in Int /\ screen.con[n].is_full \in BOOLEAN
    BY ConsoleNumbers, Sizes
  <2>. QED BY <2>1, <2>2, Zenon
<1>3. Newest(screen.con[n]) = Start(y)
  BY <1>1, PlacedRow
<1>4. ASSUME top <= o + Start(y) + SCR_WIDTH, NEW x \in Cells, top <= x, p <= x, x < top + sz
      PROVE  screen.vmem[x] = Blank
  <2>1. CASE full
    <3>1. x \in screen.con[n].cursor .. screen.con[n].crtc_start + SCR_SIZE - 1
          /\ x >= screen.con[n].crtc_start
      <4>1. x \in p .. top + sz - 1 /\ x >= top
        BY <1>4 DEF Cells
      <4>. QED BY <1>2, <4>1, Zenon
    <3>2. screen.con[n].crtc_start <= screen.con[n].orig + Newest(screen.con[n]) + SCR_WIDTH
      BY <1>2, <1>3, <1>4, Zenon
    <3>. QED BY <1>2, <2>1, <3>1, <3>2, Zenon DEF OldBelow
  <2>2. CASE ~full
    <3>1. BlankFrom(screen, p, o + z)
      BY <1>1, <1>2, <2>2 DEF Ends, Clear
    <3>2. x < o + z
      BY <1>2, <1>4 DEF Cells
    <3>. QED BY <1>4, <3>1, <3>2, Zenon DEF BlankFrom
  <2>. QED BY <2>1, <2>2
<1>5. NewBehind(screen, n, y, screen.con[n].cursor)
  BY <1>2, <1>4, Zenon DEF NewBehind
<1>. QED BY <1>1, <1>5 DEF Fresh

\* Text on paper.
LEMMA RecordedIs ==
  ASSUME NEW n \in Consoles, NEW str, Recorded(n, str), PaperInv
  PROVE  /\ DOMAIN paper' = Consoles /\ \A m \in Consoles \ {n} : paper'[m] = paper[m]
         /\ ~raced' /\ ~mixed' => /\ ~mixed /\ ~OldBelow(n) /\ ~ErasesPast(n, str)
                                  /\ paper'[n] = TextOnPaper(paper[n], str)
<1>1. /\ mixed' = (mixed \/ OldBelow(n) \/ ErasesPast(n, str))
      /\ paper' = IF raced' \/ mixed' THEN paper
                  ELSE [paper EXCEPT ![n] = TextOnPaper(paper[n], str)]
  BY DEF Recorded, Mixes
<1>2. DOMAIN paper = Consoles
  BY DEF PaperInv
<1>. QED BY <1>1, <1>2

\* l.53-58.
LEMMA TtyOutCharKeepsPaper ==
  ASSUME ConsoleInv, PaperInv, NEW n \in Consoles, NEW ch \in Chars, TtyOutChar(n, ch)
  PROVE  PaperInv'
<1>1. /\ failed = 0 /\ writer.pc = "idle" /\ ~raced /\ ~mixed
      /\ Recorded(n, <<ch>>) /\ screen' = screen /\ raced' = raced
  BY Zenon DEF TtyOutChar, Ready, At
<1>2. IsScreen(screen) /\ CursorFits(screen, n)
  <2>1. ~Behind(n)
    BY <1>1 DEF Behind
  <2>. QED BY <2>1, <1>1, Running DEF CursorsFit
<1>3. writer'.pc = "put" /\ writer'.con = n /\ writer'.ch = ch
  BY <1>2 DEF TtyOutChar
<1>5. /\ DOMAIN paper' = Consoles /\ \A m \in Consoles \ {n} : paper'[m] = paper[m]
      /\ ~raced' /\ ~mixed' => /\ ~OldBelow(n) /\ ~ErasesPast(n, <<ch>>)
                               /\ paper'[n] = OnPaper(paper[n], ch)
  BY <1>1, RecordedIs, CharOnPaper
<1>6. \A m \in Consoles \ {n} : WriterOn(m).pc = "idle" /\ WriterOn(m)'.pc = "idle"
  BY <1>1, <1>3 DEF WriterOn, Idle
<1>7. ASSUME ~raced', ~mixed' PROVE OnScreen(n)'
  <2>1. IsRoll(paper[n]) /\ InPhase(screen, n, paper[n], WriterOn(n))
    BY <1>1 DEF PaperInv, OnScreen
  <2>2. Fresh(screen, n, paper[n])
    <3>1. WriterOn(n).pc = "idle"
      BY <1>1 DEF WriterOn, Idle
    <3>2. AtRest(screen, n, paper[n])
      BY <2>1, <3>1, PhaseAtRest
    <3>. QED BY <1>2, <1>5, <1>7, <3>2, RestIsFresh
  <2>3. Told(screen, n, paper[n], ch)
    <3>1. Offset(screen, n) \in Int
      BY <1>2, FitsArea
    <3>2. ASSUME ~Erases(paper[n], ch) PROVE Offset(screen, n) <= 0
      <4>. DEFINE roll == paper[n]
      <4>1. roll.col \in Nat /\ Len(roll.rows) \in Nat /\ Len(roll.rows) > 0
        BY <2>1, RollNumbers
      <4>2. ch = Backspace /\ ~(roll.col > 0) /\ ~(Len(roll.rows) > 1)
        BY <3>2 DEF Erases
      <4>3. roll.col = 0 /\ Len(roll.rows) = 1
        <5>. DEFINE rows == Len(roll.rows)
        <5>. HIDE DEF roll, rows
        <5>1. ~(roll.col > 0) /\ ~(rows > 1)
          BY <4>2, Zenon DEF rows
        <5>2. roll.col \in Nat /\ rows \in Nat /\ rows > 0
          BY <4>1, Zenon DEF rows
        <5>3. roll.col = 0 /\ rows = 1
          BY <5>1, <5>2
        <5>. QED BY <5>3, Zenon DEF rows
      <4>4. ~ErasesPast(n, <<ch>>)
        BY <1>5, <1>7, Zenon
      <4>5. ~(Offset(screen, n) > 0)
        BY <4>2, <4>3, <4>4, Zenon DEF ErasesPast
      <4>. QED BY <3>1, <4>5
    <3>. QED BY <3>2 DEF Told
  <2>4. paper'[n] = OnPaper(paper[n], ch)
    BY <1>5, <1>7
  <2>5. IsRoll(paper'[n])
    <3>1. CASE Erases(paper[n], ch)
      BY <2>1, <2>4, <3>1, OnPaperRoll
    <3>2. CASE ~Erases(paper[n], ch)
      BY <2>1, <2>4, <3>2, NothingErased
    <3>. QED BY <3>1, <3>2
  <2>6. InPhase(screen', n, paper'[n], writer')
    <3>1. \E before : /\ Fresh(screen', n, before) /\ Told(screen', n, before, writer'.ch)
                      /\ paper'[n] = OnPaper(before, writer'.ch)
      BY <1>1, <1>3, <2>2, <2>3, <2>4
    <3>. QED BY <1>3, <3>1 DEF InPhase
  <2>7. WriterOn(n)' = writer'
    BY <1>3 DEF WriterOn
  <2>. QED BY <2>5, <2>6, <2>7, Zenon DEF OnScreen
<1>8. Writes(screen, screen', n)
  BY <1>1, <1>2 DEF Writes
<1>. QED BY <1>1, <1>5, <1>6, <1>7, <1>8, PaperKept

\* sys_printx().
LEMMA PrintxKeepsPaper ==
  ASSUME ConsoleInv, PaperInv, NEW str \in Strings, Printx(str)
  PROVE  PaperInv'
<1>. DEFINE st == OutString(screen, str)
<1>1. /\ failed = 0 /\ screen' = st.screen /\ failed' = st.failed
      /\ raced' = (raced \/ (writer.pc # "idle" /\ writer.con = 0))
      /\ Recorded(0, str) /\ writer' = writer
  BY Zenon DEF Printx
<1>2. 0 \in Consoles /\ str \in Seq({Letter, Newline}) /\ IsScreen(screen)
  BY <1>1, Running, ConsolesFollow, ConsoleAssumption
<1>3. Writes(screen, screen', 0)
  <2>1. Printed(screen, st, 0)
    BY <1>2, OutStringEffect
  <2>. HIDE DEF st
  <2>. QED BY <1>1, <2>1 DEF Printed
<1>4. /\ DOMAIN paper' = Consoles /\ \A m \in Consoles \ {0} : paper'[m] = paper[m]
      /\ ~raced' /\ ~mixed' => /\ ~mixed /\ ~OldBelow(0)
                               /\ paper'[0] = TextOnPaper(paper[0], str)
  BY <1>1, <1>2, RecordedIs
<1>5. \A m \in Consoles : WriterOn(m)' = WriterOn(m)
  BY <1>1 DEF WriterOn
<1>6. ASSUME ~raced', ~mixed' PROVE OnScreen(0)'
  <2>1. ~raced /\ ~mixed /\ WriterOn(0).pc = "idle" /\ st.failed = 0
    <3>1. ~raced /\ ~mixed /\ (writer.pc = "idle" \/ writer.con # 0)
      BY <1>1, <1>4, <1>6
    <3>2. WriterOn(0).pc = "idle"
      BY <3>1 DEF WriterOn, Idle
    <3>3. failed' = 0
      <4>1. ConsoleInv'
        BY PrintxKeeps
      <4>. QED BY <1>6, <4>1 DEF ConsoleInv
    <3>. HIDE DEF st
    <3>. QED BY <1>1, <3>1, <3>2, <3>3
  <2>2. IsRoll(paper[0]) /\ InPhase(screen, 0, paper[0], WriterOn(0))
    BY <1>2, <2>1 DEF PaperInv, OnScreen
  <2>3. Fresh(screen, 0, paper[0])
    <3>1. AtRest(screen, 0, paper[0])
      BY <2>1, <2>2, PhaseAtRest
    <3>. QED BY <1>2, <1>4, <1>6, <3>1, RestIsFresh
  <2>4. Fresh(st.screen, 0, TextOnPaper(paper[0], str))
    BY <1>2, <2>1, <2>3, OutStringShows
  <2>. HIDE DEF st
  <2>5. Fresh(screen', 0, paper'[0])
    BY <1>1, <1>4, <1>6, <2>4
  <2>6. IsRoll(paper'[0])
    BY <2>5 DEF Fresh, Placed
  <2>7. InPhase(screen', 0, paper'[0], WriterOn(0)')
    <3>1. AtRest(screen', 0, paper'[0])
      BY <2>5 DEF Fresh, AtRest
    <3>2. PICK w : w = WriterOn(0)' /\ w.pc = "idle"
      BY <1>2, <1>5, <2>1
    <3>3. InPhase(screen', 0, paper'[0], w)
      BY <3>1, <3>2, PhaseAtRest
    <3>. QED BY <3>2, <3>3, Zenon
  <2>. QED BY <2>6, <2>7, Zenon DEF OnScreen
<1>. HIDE DEF st
<1>. QED BY <1>1, <1>2, <1>3, <1>4, <1>5, <1>6, PaperKept

\* Every step keeps it.
LEMMA PaperStep ==
  ASSUME ConsoleInv, PaperInv, [ConsoleNext]_consoleVars
  PROVE  PaperInv'
<1>1. ASSUME TtyStep PROVE PaperInv'
  BY <1>1, TtyPutKeepsPaper, TtyStoreKeepsPaper, TtyWrapKeepsPaper, TtyHomeKeepsPaper,
     TtyLoopKeepsPaper, KeysKeepPaper, Zenon DEF TtyStep
<1>2. ASSUME NEW c \in Consoles, NEW ch \in {Letter, Newline, Backspace}, TtyOutChar(c, ch)
      PROVE  PaperInv'
  BY <1>2, TtyOutCharKeepsPaper DEF Chars
<1>3. ASSUME NEW dir \in {SCR_UP, SCR_DN}, TtyScroll(dir) PROVE PaperInv'
  BY <1>3, KeysKeepPaper, Zenon
<1>4. ASSUME NEW n \in Consoles, SelectConsole(n) PROVE PaperInv'
  BY <1>4, KeysKeepPaper, Zenon
<1>5. ASSUME NEW str \in Strings, Printx(str) PROVE PaperInv'
  BY <1>5, PrintxKeepsPaper
<1>6. ASSUME UNCHANGED consoleVars PROVE PaperInv'
  <2>1. /\ screen' = screen /\ writer' = writer /\ raced' = raced /\ mixed' = mixed
        /\ paper' = paper
    BY <1>6, Zenon DEF consoleVars, histories
  <2>2. \A n \in Consoles : WriterOn(n)' = WriterOn(n)
    BY <2>1 DEF WriterOn
  <2>3. ASSUME NEW n \in Consoles, OnScreen(n) PROVE OnScreen(n)'
    <3>1. IsRoll(paper'[n])
      BY <2>1, <2>3 DEF OnScreen
    <3>2. InPhase(screen', n, paper'[n], WriterOn(n)')
      BY <2>1, <2>2, <2>3, Zenon DEF OnScreen
    <3>. QED BY <3>1, <3>2, Zenon DEF OnScreen
  <2>. QED BY <2>1, <2>3 DEF PaperInv
<1>. QED BY <1>1, <1>2, <1>3, <1>4, <1>5, <1>6, Zenon DEF ConsoleNext

\* What a console that is not written on shows is what stands on its roll of paper.
LEMMA RestShowsPaper ==
  ASSUME NEW n \in Consoles, IsScreen(screen), AtRest(screen, n, paper[n])
  PROVE  ShowsPaper(n)
<1>. DEFINE roll == paper[n]
            rows == roll.rows
            row == screen.con[n].orig + Newest(screen.con[n])
<1>1. PICK y \in RowNrs : Placed(screen, n, y, roll) /\ Ends(screen, n, y, screen.con[n].cursor)
  BY DEF AtRest
<1>2. Newest(screen.con[n]) = Start(y) /\ y \in 0 .. NrRows - 1
  BY <1>1, PlacedRow DEF RowNrs
<1>3. IsRoll(roll) /\ Len(rows) - 1 <= y /\ Len(rows) \in Nat /\ rows \in Seq(Row)
  BY <1>1 DEF Placed, IsRoll
<1>4. screen.con[n].orig = Screen(n).orig /\ row = Screen(n).orig + Start(y)
  BY <1>2, ConsoleNumbers
<1>5. screen.con[n].cursor = row + roll.col
  BY <1>1, <1>4 DEF Placed
<1>6. TextUpTo(screen, n, y, rows, SCR_WIDTH)
  <2>1. BlankFrom(screen, Screen(n).orig + Start(y) + roll.col,
                  Screen(n).orig + Start(y) + SCR_WIDTH)
    BY <1>1, Zenon DEF Placed, Ends
  <2>2. TextUpTo(screen, n, y, rows, roll.col)
    BY <1>1 DEF Placed
  <2>. HIDE DEF roll
  <2>. QED BY <1>2, <1>3, <2>1, <2>2, TextFills
<1>. HIDE DEF row, rows, roll
<1>7. ASSUME NEW i \in 0 .. Len(rows) - 1
      PROVE  RowShows(n, row - i * SCR_WIDTH, rows[Len(rows) - i])
  <2>1. y \in Nat /\ y - i \in Nat /\ i \in Nat /\ (y - i) + i = y
    BY <1>2, <1>3, <1>7, Sizes, SMTT(60)
  <2>2. PICK o \in Nat, sy \in Nat, si \in Nat, sd \in Nat :
          /\ o = Screen(n).orig /\ sy = Start(y) /\ si = Start(i) /\ sd = Start(y - i)
          /\ sy = sd + si
    <3>1. Start((y - i) + i) = Start(y - i) + Start(i)
      BY <2>1, StartSum
    <3>2. Start(y - i) \in Nat /\ Start(i) \in Nat /\ Start(y) \in Nat /\ Screen(n).orig \in Nat
      BY <2>1, RowsFollow, ConsolesFollow
    <3>. QED BY <2>1, <3>1, <3>2, Zenon
  <2>3. row - i * SCR_WIDTH = o + sd
    <3>1. row - i * SCR_WIDTH = (o + sy) - si
      BY <1>4, <2>2, Zenon DEF Start
    <3>2. (o + sy) - si = o + sd
      BY <2>2
    <3>. QED BY <3>1, <3>2
  <2>4. ASSUME NEW x \in 1 .. SCR_WIDTH
        PROVE  LET p == row - i * SCR_WIDTH
                   text == rows[Len(rows) - i]
               IN  \/ screen.vmem[p + x - 1] = text[x]
                   \/ n > 0 /\ p = screen.con[n].orig /\ screen.vmem[p + x - 1] = Blank
    <3>1. CellShows(screen, n, y - i, x, rows[Len(rows) - i][x])
      <4>1. x <= SCR_WIDTH
        BY RowsFollow
      <4>. QED BY <1>6, <4>1 DEF TextUpTo
    <3>2. CellAt(n, y - i, x) = (o + sd) + x - 1
      BY <2>2, Zenon DEF CellAt
    <3>3. y - i = 0 => o + sd = screen.con[n].orig
      <4>1. y - i = 0 => sd = 0
        BY <2>2, RowsFollow
      <4>2. sd = 0 => o + sd = o
        BY <2>2
      <4>. QED BY <1>4, <2>2, <4>1, <4>2
    <3>. QED BY <2>3, <3>1, <3>2, <3>3, Zenon DEF CellShows
  <2>. QED BY <2>4, Zenon DEF RowShows
<1>. QED BY <1>5, <1>7, Zenon DEF ShowsPaper, row, rows, roll

\* What is on screen is what is on paper, between any two statements.
THEOREM PaperInvariant == ConsoleSpec => []PaperInv
<1>1. ConsoleInv /\ PaperInv /\ [ConsoleNext]_consoleVars => PaperInv'
  BY PaperStep
<1>. QED BY <1>1, PaperInitInv, ConsoleInvariant, PTL DEF ConsoleSpec

\* Whatever was scrolled, wrapped, erased or selected: the windows stay in their consoles,
\* the CRTC shows the current one, and a window with the cursor in it shows the rows last
\* written -- unless a printx() cut into TTY's work, or text stands among old rows.
THEOREM ConsolesShowWhatWasWritten == ConsoleSpec => []ShowsWhatWasWritten
<1>1. ASSUME ConsoleInv, PaperInv, Quiet, ~raced, ~mixed, NEW n \in Consoles PROVE ShowsPaper(n)
  <2>1. IsScreen(screen)
    BY <1>1 DEF ConsoleInv, ConsoleTypes
  <2>2. WriterOn(n).pc = "idle"
    BY <1>1 DEF Quiet, WriterOn, Idle
  <2>3. InPhase(screen, n, paper[n], WriterOn(n))
    BY <1>1 DEF PaperInv, OnScreen
  <2>4. AtRest(screen, n, paper[n])
    BY <2>2, <2>3, PhaseAtRest
  <2>. QED BY <2>1, <2>4, RestShowsPaper
<1>2. ConsoleInv /\ PaperInv
        => (Quiet /\ ~raced /\ ~mixed => \A n \in Consoles : ShowsPaper(n))
  BY <1>1, Zenon
<1>. DEFINE Inside == (\A n \in Consoles : WindowInside(n)) /\ (Quiet /\ ~raced => CrtcShowsCurrent)
<1>3. ConsoleSpec => []Inside
  BY WindowsStayInside
<1>4. Inside /\ (Quiet /\ ~raced /\ ~mixed => \A n \in Consoles : ShowsPaper(n))
        => ShowsWhatWasWritten
  BY Zenon DEF ShowsWhatWasWritten
<1>. HIDE DEF Inside
<1>. QED BY <1>2, <1>3, <1>4, ConsoleInvariant, PaperInvariant, PTL
=============================================================================

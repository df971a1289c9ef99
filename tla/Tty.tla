-------------------------------- MODULE Tty --------------------------------
(***************************************************************************)
(* The terminals (kernel/tty.c) and the keyboard (kernel/keyboard.c): the  *)
(* keyboard interrupt fills a ring of scan codes and sets key_pressed, the *)
(* clock interrupt turns key_pressed into a HARD_INT message, and the TTY  *)
(* task, in one round of its loop per message, takes one scan code per     *)
(* visit to the console on screen, edits the line of a pending DEV_READ    *)
(* and resumes the reader when the line is complete.                       *)
(*                                                                         *)
(* A scan code is named for its key; "E0" is the prefix of the extended    *)
(* keys and "release" a break code of a key whose release means nothing.   *)
(* What is shown on the screen is left out, so a DEV_WRITE is a request    *)
(* that changes nothing here.                                              *)
(***************************************************************************)
EXTENDS Terminals, Naturals, Sequences, SequencesExt

CONSTANTS KB_IN_BYTES,   \* size of the ring of scan codes (32 in the code)
          Codes,         \* the scan codes that are typed
          MaxTyped,      \* bound on the scan codes that enter the ring
          MaxReads,      \* bound on the DEV_READs
          Counts         \* the lengths CNT of a DEV_READ

Keyboard == {"x", "bs", "enter", "ctrl", "ctrl_release", "release", "E0",
             "F1", "F2"}

ASSUME TtyAssumption ==
  /\ NR_CONSOLES \in Nat \ {0} /\ KB_IN_BYTES \in Nat \ {0}
  /\ MaxTyped \in Nat /\ MaxReads \in Nat
  /\ Counts \subseteq Nat /\ Codes \subseteq Keyboard

VARIABLES
  buf, p_head, p_tail, count,  \* struct kb_inbuf kb_in
  key_pressed,
  informed,        \* a HARD_INT is on its way to TTY (inform_int)
  current_console,
  ctrl,            \* which of ctrl_l, ctrl_r are down
  code_with_E0,    \* keyboard_read() spins for the byte after an E0
  ibuf,            \* per terminal: ibuf_tail .. ibuf_head
  tty_left_cnt, tty_trans_cnt,
  tty_req_buf,     \* per terminal: the bytes of the reader's buffer
  pc, tty,         \* the TTY task: the statement, the terminal it visits
  typed,           \* every scan code that entered the ring (history)
  since,           \* per terminal: codes taken when its read came (history)
  reads,           \* how many DEV_READs have come
  patient          \* does the typist wait until the ring is empty?

ring == <<buf, p_head, p_tail, count, key_pressed, typed>>
lineVars == <<tty_left_cnt, tty_trans_cnt, tty_req_buf, since, reads>>
keyState == <<current_console, ctrl, code_with_E0>>
vars == <<ring, informed, keyState, ibuf, lineVars, pc, tty, patient>>

Init ==
  /\ buf = [i \in 0 .. KB_IN_BYTES - 1 |-> "release"]
  /\ p_head = 0 /\ p_tail = 0 /\ count = 0
  /\ key_pressed = FALSE /\ informed = FALSE
  /\ current_console = 0 /\ ctrl = {} /\ code_with_E0 = FALSE
  /\ ibuf = [t \in Consoles |-> <<>>]
  /\ tty_left_cnt = [t \in Consoles |-> 0]
  /\ tty_trans_cnt = [t \in Consoles |-> 0]
  /\ tty_req_buf = [t \in Consoles |-> <<>>]
  /\ pc = "read" /\ tty = 0
  /\ typed = <<>> /\ since = [t \in Consoles |-> 0] /\ reads = 0
  /\ patient \in BOOLEAN

----------------------------------------------------------------------------
\* Interrupts.  A code that finds the ring full is dropped, and then
\* key_pressed is left as it is.
Bump(p) == IF p + 1 = KB_IN_BYTES THEN 0 ELSE p + 1

\* Variant with a fault: one code too many fits the ring.
KeyboardHandlerOverruns(code) ==
  /\ count <= KB_IN_BYTES /\ Len(typed) < MaxTyped
  /\ patient => count = 0
  /\ code = "E0" => Len(typed) + 1 < MaxTyped
  /\ buf' = [buf EXCEPT ![p_head] = code]
  /\ p_head' = Bump(p_head) /\ count' = count + 1
  /\ key_pressed' = TRUE
  /\ typed' = Append(typed, code)
  /\ UNCHANGED <<p_tail, informed, keyState, ibuf, lineVars, pc, tty, patient>>

KeyboardHandler(code) ==
  /\ count < KB_IN_BYTES /\ Len(typed) < MaxTyped
  /\ patient => count = 0
  /\ code = "E0" => Len(typed) + 1 < MaxTyped   \* another byte follows it
  /\ buf' = [buf EXCEPT ![p_head] = code]
  /\ p_head' = Bump(p_head) /\ count' = count + 1
  /\ key_pressed' = TRUE
  /\ typed' = Append(typed, code)
  /\ UNCHANGED <<p_tail, informed, keyState, ibuf, lineVars, pc, tty, patient>>

ClockHandler ==
  /\ key_pressed /\ informed' = TRUE
  /\ UNCHANGED <<ring, keyState, ibuf, lineVars, pc, tty, patient>>

----------------------------------------------------------------------------
\* keyboard_read() and in_process().
GetByteFromKbuf ==
  /\ count > 0
  /\ p_tail' = Bump(p_tail) /\ count' = count - 1
  /\ UNCHANGED <<buf, p_head, key_pressed, typed>>

\* put_key() of the character, if any, the key is for the line editor; the
\* keymap has no character for most keys after an E0.
Char(code, ext) ==
  IF code = "enter" THEN <<"newline">>
  ELSE IF ext /\ code \in {"x", "bs", "F1", "F2"} THEN <<"nul">>
  ELSE IF code = "bs" THEN <<"backspace">>
  ELSE IF code = "x" THEN <<"x">> ELSE <<>>

CtrlKey(ext) == IF ext THEN "r" ELSE "l"

CtrlAfter(code, ext) ==
  CASE code = "ctrl" -> ctrl \union {CtrlKey(ext)}
    [] code = "ctrl_release" -> ctrl \ {CtrlKey(ext)}
    [] OTHER -> ctrl

\* Variant with a fault: the console changes without Ctrl.
ConsoleAfterAnyF(code, ext) ==
  CASE code = "F1" -> 0
    [] code = "F2" /\ NR_CONSOLES > 1 -> 1
    [] OTHER -> current_console

\* Ctrl+F1, Ctrl+F2 choose a console.
ConsoleAfter(code, ext) ==
  IF ctrl = {} \/ ext THEN current_console
  ELSE CASE code = "F1" -> 0
         [] code = "F2" /\ NR_CONSOLES > 1 -> 1
         [] OTHER -> current_console

InProcess(code, ext) ==
  /\ ibuf' = [ibuf EXCEPT ![tty] = @ \o Char(code, ext)]
  /\ ctrl' = CtrlAfter(code, ext)
  /\ current_console' = ConsoleAfter(code, ext)

KeyboardRead ==
  /\ pc = "read" /\ tty = current_console /\ count > 0 /\ ~code_with_E0
  /\ GetByteFromKbuf
  /\ \/ /\ buf[p_tail] = "E0" /\ code_with_E0' = TRUE
        /\ UNCHANGED <<pc, ibuf, ctrl, current_console>>
     \/ /\ buf[p_tail] # "E0" /\ InProcess(buf[p_tail], FALSE)
        /\ pc' = "write" /\ UNCHANGED code_with_E0
  /\ UNCHANGED <<informed, lineVars, tty, patient>>

\* The byte after the E0 is a key whatever it is.
ReadExtended ==
  /\ pc = "read" /\ code_with_E0
  /\ GetByteFromKbuf
  /\ InProcess(buf[p_tail], TRUE)
  /\ code_with_E0' = FALSE /\ pc' = "write"
  /\ UNCHANGED <<informed, lineVars, tty, patient>>

\* tty_dev_write() with nothing to write, and on to the next terminal.
NextTty ==
  /\ ibuf[tty] = <<>>
  /\ IF tty + 1 < NR_CONSOLES
       THEN tty' = tty + 1 /\ pc' = "read"
       ELSE tty' = 0 /\ pc' = "receive"

NothingToRead ==
  /\ pc = "read" /\ ~code_with_E0
  /\ tty # current_console \/ count = 0
  /\ NextTty
  /\ UNCHANGED <<ring, informed, keyState, ibuf, lineVars, patient>>

----------------------------------------------------------------------------
\* Variant with a fault: the line is taken for complete one byte early.
LineCompleteEarly(ch, left) == ch = "newline" \/ left <= 1

\* tty_dev_write(): edit the line of the reader, if there is one.
LineComplete(ch, left) == ch = "newline" \/ left = 0

EditLine(t, ch) ==
  LET keeps == ch = "x"
      erases == ch = "backspace" /\ tty_trans_cnt[t] > 0
  IN /\ tty_req_buf' = IF keeps
          THEN [tty_req_buf EXCEPT
                  ![t] = SubSeq(@, 1, tty_trans_cnt[t]) \o <<ch>>]
          ELSE tty_req_buf
     /\ tty_trans_cnt' = [tty_trans_cnt EXCEPT
          ![t] = CASE keeps -> @ + 1 [] erases -> @ - 1 [] OTHER -> @]
     /\ tty_left_cnt' = [tty_left_cnt EXCEPT
          ![t] = CASE keeps -> @ - 1 [] erases -> @ + 1 [] OTHER -> @]
     /\ pc' = IF LineComplete(ch, tty_left_cnt'[t]) THEN "resume" ELSE "write"

DevWrite ==
  /\ pc = "write" /\ ibuf[tty] # <<>>
  /\ ibuf' = [ibuf EXCEPT ![tty] = Tail(@)]
  /\ IF tty_left_cnt[tty] > 0
       THEN EditLine(tty, Head(ibuf[tty]))
       ELSE UNCHANGED <<tty_req_buf, tty_trans_cnt, tty_left_cnt, pc>>
  /\ UNCHANGED <<ring, informed, keyState, since, reads, tty,
                 patient>>

\* RESUME_PROC: TTY blocks until FS receives it.
Resume ==
  /\ pc = "resume" /\ pc' = "write"
  /\ tty_left_cnt' = [tty_left_cnt EXCEPT ![tty] = 0]
  /\ UNCHANGED <<ring, informed, keyState, ibuf, tty_trans_cnt, tty_req_buf,
                 since, reads, tty, patient>>

\* Variant with a fault: key_pressed is cleared after the terminals were visited.
WrittenAndCleared ==
  /\ pc = "write" /\ NextTty
  /\ key_pressed' = FALSE
  /\ UNCHANGED <<buf, p_head, p_tail, count, typed, informed, keyState, ibuf,
                 lineVars, patient>>

Written ==
  /\ pc = "write" /\ NextTty
  /\ UNCHANGED <<ring, informed, keyState, ibuf, lineVars, patient>>

----------------------------------------------------------------------------
\* The message loop of task_tty().
HardInt ==
  /\ pc = "receive" /\ informed
  /\ informed' = FALSE /\ pc' = "interrupted"
  /\ UNCHANGED <<ring, keyState, ibuf, lineVars, tty, patient>>

ClearKeyPressed ==
  /\ pc = "interrupted"
  /\ key_pressed' = FALSE /\ pc' = "read"
  /\ UNCHANGED <<buf, p_head, p_tail, count, typed, informed, keyState, ibuf,
                 lineVars, tty, patient>>

\* A DEV_READ replaces the one this terminal was reading for.  The answer,
\* SUSPEND_PROC, goes to FS, which waits for it.
DoRead(t, cnt) ==
  /\ pc = "receive" /\ ~informed /\ reads < MaxReads
  /\ reads' = reads + 1
  /\ tty_left_cnt' = [tty_left_cnt EXCEPT ![t] = cnt]
  /\ tty_trans_cnt' = [tty_trans_cnt EXCEPT ![t] = 0]
  /\ tty_req_buf' = [tty_req_buf EXCEPT ![t] = <<>>]
  /\ since' = [since EXCEPT ![t] = Len(typed) - count]
  /\ pc' = "read"
  /\ UNCHANGED <<ring, informed, keyState, ibuf, tty, patient>>

\* DEV_OPEN, DEV_WRITE.
OtherRequest ==
  /\ pc = "receive" /\ ~informed
  /\ pc' = "read"
  /\ UNCHANGED <<ring, informed, keyState, ibuf, lineVars, tty, patient>>

Type == \E code \in Codes : KeyboardHandler(code)
Interrupt == Type \/ ClockHandler
Request == \/ \E t \in Consoles, cnt \in Counts : DoRead(t, cnt)
           \/ OtherRequest
Task == \/ KeyboardRead \/ ReadExtended \/ NothingToRead
        \/ DevWrite \/ Resume \/ Written
        \/ HardInt \/ ClearKeyPressed

Next == Interrupt \/ Request \/ Task

Spec == Init /\ [][Next]_vars

\* The TTY task is scheduled again and again (Sched), FS receives what TTY
\* sends it (Servers), and the clock never stops.
FairSpec == Spec /\ WF_vars(Task) /\ WF_vars(ClockHandler)

----------------------------------------------------------------------------
\* What the keys mean, said without the task: the codes typed, taken from left
\* to right, make the console on screen and the keys each console got.
NothingTyped == [on |-> 0, ctrl |-> {}, ext |-> FALSE,
                 keys |-> [t \in Consoles |-> <<>>]]

AfterCode(m, code) ==
  CASE code = "E0" /\ ~m.ext -> [m EXCEPT !.ext = TRUE]
    [] code = "ctrl" -> [m EXCEPT !.ext = FALSE, !.ctrl = @ \union {m.ext}]
    [] code = "ctrl_release" -> [m EXCEPT !.ext = FALSE, !.ctrl = @ \ {m.ext}]
    [] code = "F1" /\ m.ctrl # {} /\ ~m.ext -> [m EXCEPT !.on = 0]
    [] code = "F2" /\ m.ctrl # {} /\ ~m.ext /\ 1 \in Consoles -> [m EXCEPT !.on = 1]
    [] code = "enter" \/ (code \in {"x", "bs"} /\ ~m.ext) ->
         [m EXCEPT !.ext = FALSE, !.keys[m.on] = Append(@, code)]
    [] OTHER -> [m EXCEPT !.ext = FALSE]

Meaning(codes) ==
  LET m[i \in 0 .. Len(codes)] ==
        IF i = 0 THEN NothingTyped ELSE AfterCode(m[i - 1], codes[i])
  IN m[Len(codes)]

\* The line a reader of cnt bytes is given for the keys.
EmptyLine == [text |-> <<>>, done |-> FALSE]

AfterKey(l, key, cnt) ==
  CASE l.done -> l
    [] ~l.done /\ key = "enter" -> [l EXCEPT !.done = TRUE]
    [] ~l.done /\ key = "bs" ->
         [l EXCEPT !.text = IF @ = <<>> THEN @ ELSE Front(@)]
    [] OTHER -> [l EXCEPT !.text = Append(@, key),
                          !.done = Len(l.text) + 1 = cnt]

Line(keys, cnt) ==
  LET l[i \in 0 .. Len(keys)] ==
        IF i = 0 THEN EmptyLine ELSE AfterKey(l[i - 1], keys[i], cnt)
  IN l[Len(keys)]

Taken == SubSeq(typed, 1, Len(typed) - count)

\* The keys of console t that came after its read.
KeysFor(t) ==
  LET all == Meaning(Taken).keys[t]
      before == Meaning(SubSeq(typed, 1, since[t])).keys[t]
  IN SubSeq(all, Len(before) + 1, Len(all))

Text(t) == SubSeq(tty_req_buf[t], 1, tty_trans_cnt[t])

----------------------------------------------------------------------------
\* Properties.

\* The ring holds the codes that were typed and not yet taken, in their order,
\* whatever the handler and get_byte_from_kbuf() do between each other's
\* statements: no code is lost, doubled or overtaken once it is accepted.
RingIsQueue ==
  \A i \in 0 .. count - 1 :
    buf[(p_tail + i) % KB_IN_BYTES] = typed[(Len(typed) - count) + i + 1]

\* Whenever TTY waits for a message, the buffer of each reader holds the line
\* that the keys typed on its console since the read came make, with its
\* corrections, and the read is still open iff that line is not complete:
\* no key goes to the console that was on screen before or after it.
LineIsRight ==
  pc = "receive" =>
    \A t \in Consoles :
      tty_left_cnt[t] > 0 =>
        LET line == Line(KeysFor(t), tty_left_cnt[t] + tty_trans_cnt[t])
        IN ~line.done /\ Text(t) = line.text

\* A reader is resumed with the complete line of the keys since its read: not
\* before its ENTER or its last byte, and with no key of the next line.
ResumedWithLine ==
  [][pc = "resume" /\ pc' # "resume" =>
       LET line == Line(KeysFor(tty), tty_left_cnt[tty] + tty_trans_cnt[tty])
       IN line.done /\ Text(tty) = line.text]_vars

\* If no code comes before the one before it was taken, every code is taken:
\* key_pressed, cleared by TTY and set by the handler, is never left clear
\* with a code in the ring.  (Codes that come faster may stay in the ring
\* until the next key: each HARD_INT makes TTY take at most one per console.)
PatientTypistIsRead == patient => []<>(count = 0)
=============================================================================

------------------------------ MODULE Console ------------------------------
(***************************************************************************)
(* The consoles of kernel/console.c: NR_CONSOLES stretches of the video    *)
(* memory, each a buffer of rows of which the CRTC shows SCR_ROWS.         *)
(*                                                                         *)
(* out_char() is called from two sides.  TTY writes to the terminals and   *)
(* moves the window for the user's keys; it is an ordinary task, so the    *)
(* clock may preempt it between two statements: its calls are taken in     *)
(* steps.  sys_printx() (tty.c) prints on the first console for any        *)
(* process, inside the kernel, where nothing is rescheduled: one step.     *)
(* Both are made of the same operators on the screen, in the order of the  *)
(* code.  cursor++ is a load and a store, as compiled.                     *)
(*                                                                         *)
(* A cell is its character, '\0' and ' ' both Blank; colours are left out. *)
(***************************************************************************)
EXTENDS Terminals, Integers, Sequences

CONSTANTS
    SCR_WIDTH,
    SCR_ROWS,       \* SCR_SIZE / SCR_WIDTH
    V_MEM_CELLS,    \* V_MEM_SIZE >> 1
    Strings,        \* what a printx() prints
    MaxPrintx,      \* bound: calls of printx()
    MaxOthers       \* bound: characters TTY writes on the consoles but the first

Newline == "\n"
Backspace == "BS"
Letter == "x"
Blank == " "

ASSUME ConsoleAssumption ==
    /\ {NR_CONSOLES, SCR_WIDTH, V_MEM_CELLS} \subseteq Nat \ {0}
    /\ SCR_ROWS \in Nat /\ SCR_ROWS > 1
    \* a console has two screens of rows, or a row less
    /\ V_MEM_CELLS \div NR_CONSOLES >= (2 * SCR_ROWS - 1) * SCR_WIDTH
    \* printl() prints text, without '\b'
    /\ Strings \subseteq Seq({Letter, Newline})
    /\ MaxPrintx \in Nat /\ MaxOthers \in Nat

VARIABLES
    screen,     \* the video memory, console_table and the CRTC's registers
    current,    \* current_console
    writer,     \* TTY's place in the code and its locals
    printed,    \* calls of printx() so far
    failed,     \* the line of the assertion that failed or of a loop without end, or 0
    raced,      \* history: printx() has cut into TTY's work on the first console
    mixed,      \* history: text stands among old rows, see Mixes
    paper,      \* history: paper[c]: the last rows written on c, the cursor's last
    others      \* history: characters TTY wrote on the consoles but the first

histories == <<raced, mixed, paper, others>>
consoleVars == <<screen, current, writer, printed, failed, histories>>

SCR_UP == 1
SCR_DN == -1
SCR_SIZE == SCR_ROWS * SCR_WIDTH
size_per_con == V_MEM_CELLS \div NR_CONSOLES

-----------------------------------------------------------------------------
(* What a roll of paper would show: the reference out_char() is compared   *)
(* with.                                                                   *)
FullRow == [i \in 1 .. SCR_WIDTH |-> Letter]
EmptyRow == [i \in 1 .. SCR_WIDTH |-> Blank]

LastRows(rows) ==
    IF Len(rows) <= SCR_ROWS THEN rows
    ELSE SubSeq(rows, Len(rows) - SCR_ROWS + 1, Len(rows))

OnPaper(roll, ch) ==
    LET last == Len(roll.rows) IN
    CASE ch = Newline -> [rows |-> LastRows(Append(roll.rows, EmptyRow)), col |-> 0]
      [] ch = Letter ->
           LET put == [roll.rows EXCEPT ![last][roll.col + 1] = Letter] IN
           IF roll.col + 1 < SCR_WIDTH
           THEN [rows |-> put, col |-> roll.col + 1]
           ELSE [rows |-> LastRows(Append(put, EmptyRow)), col |-> 0]
      [] ch = Backspace /\ roll.col > 0 ->
           [rows |-> [roll.rows EXCEPT ![last][roll.col] = Blank], col |-> roll.col - 1]
      [] ch = Backspace /\ roll.col = 0 /\ last > 1 ->
           [rows |-> [SubSeq(roll.rows, 1, last - 1) EXCEPT ![last - 1][SCR_WIDTH] = Blank],
            col |-> SCR_WIDTH - 1]
      [] OTHER -> roll

TextOnPaper(roll, str) ==
    LET After[k \in 0 .. Len(str)] == IF k = 0 THEN roll ELSE OnPaper(After[k - 1], str[k])
    IN  After[Len(str)]

-----------------------------------------------------------------------------
(* init_screen(): the consoles as task_tty() leaves them.  The first one   *)
(* goes on below what the boot code displayed (here one row), the others   *)
(* below a prompt line.                                                    *)
Screen(n) ==
    [orig |-> n * size_per_con,
     con_size |-> (size_per_con \div SCR_WIDTH) * SCR_WIDTH,
     cursor |-> n * size_per_con + SCR_WIDTH,
     crtc_start |-> n * size_per_con,
     is_full |-> FALSE]

Idle == [pc |-> "idle", con |-> 0, ch |-> Blank, pch |-> 0, row |-> 0, reg |-> 0]

ConsoleInit ==
    /\ screen = [vmem |-> [p \in 0 .. V_MEM_CELLS - 1 |->
                             IF \E n \in Consoles : p \in Screen(n).orig .. Screen(n).cursor - 1
                             THEN Letter ELSE Blank],
                 con |-> [n \in Consoles |-> Screen(n)],
                 cursor |-> Screen(0).cursor,
                 start |-> Screen(0).crtc_start]
    /\ current = 0
    /\ writer = Idle
    /\ printed = 0 /\ failed = 0 /\ raced = FALSE /\ mixed = FALSE /\ others = 0
    /\ paper = [n \in Consoles |-> [rows |-> <<FullRow, EmptyRow>>, col |-> 0]]

-----------------------------------------------------------------------------
(* The cursor's place in console c, and the assertion of l.55 and l.88.    *)
Offset(s, c) == s.con[c].cursor - s.con[c].orig

(* Variant with a fault: the cell behind the last one is taken for a cell. *)
CursorFitsOneOn(s, c) == Offset(s, c) \in 0 .. s.con[c].con_size

CursorFits(s, c) == Offset(s, c) \in 0 .. s.con[c].con_size - 1
InWindow(c) == c.cursor \in c.crtc_start .. c.crtc_start + SCR_SIZE - 1

(* Variant with a fault: a screen is cleared for a row.                    *)
ClearScreenFromCursor(s, c) ==
    [s EXCEPT !.vmem = [p \in DOMAIN @ |->
        IF p - s.con[c].cursor \in 0 .. SCR_SIZE - 1 THEN Blank ELSE @[p]]]

(* clear_screen(con->cursor, SCR_WIDTH) *)
ClearFromCursor(s, c) ==
    [s EXCEPT !.vmem = [p \in DOMAIN @ |->
        IF p - s.con[c].cursor \in 0 .. SCR_WIDTH - 1 THEN Blank ELSE @[p]]]

(* flush(con): the CRTC shows con, if it is the current console.           *)
Flushed(s, c) ==
    IF c = current
    THEN [s EXCEPT !.cursor = s.con[c].cursor, !.start = s.con[c].crtc_start]
    ELSE s

(* l.71-74, the cell, and the cursor l.60-75 is going to store.            *)
Put(s, c, ch, pch) == IF ch = Letter THEN [s EXCEPT !.vmem[pch] = Letter] ELSE s

NewCursor(s, c, ch, row) ==
    CASE ch = Newline -> s.con[c].orig + SCR_WIDTH * (row + 1)
      [] ch = Letter -> s.con[c].cursor + 1
      [] OTHER -> s.con[c].cursor - 1

(* The store into con->cursor; '\b' erases the cell before pch.            *)
Store(s, c, ch, pch, reg) ==
    [s EXCEPT !.con[c].cursor = reg,
              !.vmem = IF ch = Backspace THEN [@ EXCEPT ![pch - 1] = Blank] ELSE @]

(* Variant with a fault: the rows above the last ones are copied.          *)
CopyOneRowAbove(s, c) ==
    LET orig == s.con[c].orig
        cp_orig == orig + (Offset(s, c) \div SCR_WIDTH) * SCR_WIDTH - SCR_SIZE
    IN  [s EXCEPT !.vmem = [p \in DOMAIN @ |->
           IF p - orig \in 0 .. SCR_SIZE - SCR_WIDTH - 1 THEN @[cp_orig + p - orig] ELSE @[p]]]

(* l.78-81: past the end of the console, the last rows of the screen but   *)
(* one are copied to its top.                                              *)
CopyToTop(s, c) ==
    LET orig == s.con[c].orig
        cp_orig == orig + (Offset(s, c) \div SCR_WIDTH + 1) * SCR_WIDTH - SCR_SIZE
    IN  [s EXCEPT !.vmem = [p \in DOMAIN @ |->
           IF p - orig \in 0 .. SCR_SIZE - SCR_WIDTH - 1 THEN @[cp_orig + p - orig] ELSE @[p]]]

(* l.82-86: and the console goes on below them.                            *)
Home(s, c, cursor_x) ==
    ClearFromCursor([s EXCEPT !.con[c].crtc_start = s.con[c].orig,
                              !.con[c].cursor = s.con[c].orig + SCR_SIZE - SCR_WIDTH + cursor_x,
                              !.con[c].is_full = TRUE], c)

(* scroll_screen(): the newest and the oldest row, and where the window    *)
(* goes.                                                                   *)
Newest(c) == ((c.cursor - c.orig) \div SCR_WIDTH) * SCR_WIDTH
Oldest(c) == IF c.is_full THEN (Newest(c) + SCR_WIDTH) % c.con_size ELSE 0

ScrollDown(c) ==
    LET top == c.crtc_start - c.orig IN
    CASE top > 0 /\ (c.is_full => top # Oldest(c)) -> c.crtc_start - SCR_WIDTH
      [] top = 0 /\ c.is_full /\ top # Oldest(c)
           /\ c.cursor - c.orig < c.con_size - SCR_SIZE -> c.orig + c.con_size - SCR_SIZE
      [] OTHER -> c.crtc_start

(* Variant with a fault: the window stops at the end of a full console.    *)
ScrollUpToEnd(c) ==
    IF Newest(c) >= c.crtc_start - c.orig + SCR_SIZE THEN c.crtc_start + SCR_WIDTH
    ELSE c.crtc_start

ScrollUp(c) ==
    LET top == c.crtc_start - c.orig IN
    CASE ~c.is_full /\ Newest(c) >= top + SCR_SIZE -> c.crtc_start + SCR_WIDTH
      [] c.is_full /\ top + SCR_SIZE - SCR_WIDTH # Newest(c) ->
           IF top + SCR_SIZE = c.con_size THEN c.orig ELSE c.crtc_start + SCR_WIDTH
      [] OTHER -> c.crtc_start

Scrolled(c, dir) == IF dir = SCR_DN THEN ScrollDown(c) ELSE ScrollUp(c)

scroll_screen(s, c, dir) == Flushed([s EXCEPT !.con[c].crtc_start = Scrolled(s.con[c], dir)], c)

(* l.90-93, one turn: the cursor is outside the window.                    *)
FollowCursor(s, c) == ClearFromCursor(scroll_screen(s, c, SCR_UP), c)

(* l.60-75: the character, and the new cursor.                             *)
PutChar(s, c, ch) ==
    IF ch = Backspace /\ Offset(s, c) <= 0 THEN s
    ELSE Store(Put(s, c, ch, s.con[c].cursor), c, ch, s.con[c].cursor,
               NewCursor(s, c, ch, Offset(s, c) \div SCR_WIDTH))

(* l.77-87 *)
Wrapped(s, c) ==
    IF CursorFits(s, c) THEN s ELSE Home(CopyToTop(s, c), c, Offset(s, c) % SCR_WIDTH)

OneTurn(s, c) == IF InWindow(s.con[c]) THEN s ELSE FollowCursor(s, c)

(* The loop of l.90-93: a window makes at most one turn through the        *)
(* console.                                                                *)
Followed(s, c) ==
    LET After[k \in 0 .. s.con[c].con_size] ==
          IF k = 0 THEN s ELSE OneTurn(After[k - 1], c)
    IN  After[s.con[c].con_size]

(* A whole out_char(), with the line it stops at.                          *)
OutChar(st, c, ch) ==
    LET shown == Followed(Wrapped(PutChar(st.screen, c, ch), c), c)
    IN  IF st.failed # 0 THEN st
        ELSE IF ~CursorFits(st.screen, c) THEN [screen |-> st.screen, failed |-> 55]
        ELSE IF ~InWindow(shown.con[c]) THEN [screen |-> shown, failed |-> 90]
        ELSE [screen |-> Flushed(shown, c), failed |-> 0]

(* sys_printx(), its loop over the characters of str.                      *)
OutString(s, str) ==
    LET After[k \in 0 .. Len(str)] ==
          IF k = 0 THEN [screen |-> s, failed |-> 0] ELSE OutChar(After[k - 1], 0, str[k])
    IN  After[Len(str)]

-----------------------------------------------------------------------------
(* The user has scrolled to where the screen shows old rows at or below    *)
(* the cursor: on a full console the next row is the oldest.               *)
OldBelow(c) ==
    LET k == screen.con[c] IN
    /\ k.is_full
    /\ k.crtc_start <= k.orig + Newest(k) + SCR_WIDTH
    /\ \E p \in k.cursor .. k.crtc_start + SCR_SIZE - 1 :
         p >= k.crtc_start /\ screen.vmem[p] # Blank

(* More than a screen is erased: what the row before holds the roll of     *)
(* paper does not tell any more.                                           *)
ErasesPast(c, str) ==
    /\ str = <<Backspace>> /\ paper[c].col = 0 /\ Len(paper[c].rows) = 1
    /\ Offset(screen, c) > 0

Mixes(c, str) == OldBelow(c) \/ ErasesPast(c, str)

(* The roll of console c after the characters of str.                      *)
Recorded(c, str) ==
    /\ mixed' = (mixed \/ Mixes(c, str))
    /\ paper' = IF raced' \/ mixed' THEN paper
                ELSE [paper EXCEPT ![c] = TextOnPaper(@, str)]

At(pc) == failed = 0 /\ writer.pc = pc

(* TTY may start something new.  Bound: once a race, or text among old     *)
(* rows, has spoilt the screen, only the call that is under way is         *)
(* followed to its end.                                                    *)
Ready == At("idle") /\ ~raced /\ ~mixed

(* out_char() by TTY, l.53-58: the reads before the switch.  TTY echoes    *)
(* keys (tty_dev_write()) and writes what processes give it                *)
(* (tty_do_write()): any character, '\b' as often as they like.            *)
TtyOutChar(c, ch) ==
    /\ Ready
    /\ c > 0 => others < MaxOthers
    /\ others' = IF c > 0 THEN others + 1 ELSE others
    /\ IF CursorFits(screen, c)
       THEN /\ writer' = [pc |-> "put", con |-> c, ch |-> ch, pch |-> screen.con[c].cursor,
                          row |-> Offset(screen, c) \div SCR_WIDTH, reg |-> 0]
            /\ UNCHANGED failed
       ELSE failed' = 55 /\ UNCHANGED writer
    /\ UNCHANGED raced
    /\ Recorded(c, <<ch>>)
    /\ UNCHANGED <<screen, current, printed>>

TtyPut ==
    /\ At("put")
    /\ screen' = Put(screen, writer.con, writer.ch, writer.pch)
    /\ writer' = IF writer.ch = Backspace /\ Offset(screen, writer.con) <= 0
                 THEN [Idle EXCEPT !.pc = "loop", !.con = writer.con]
                 ELSE [writer EXCEPT !.pc = "store",
                                     !.reg = NewCursor(screen, writer.con, writer.ch, writer.row)]
    /\ UNCHANGED <<current, printed, failed, histories>>

TtyStore ==
    /\ At("store")
    /\ screen' = Store(screen, writer.con, writer.ch, writer.pch, writer.reg)
    /\ writer' = [Idle EXCEPT !.pc = IF CursorFits(screen', writer.con) THEN "loop" ELSE "wrap",
                              !.con = writer.con]
    /\ UNCHANGED <<current, printed, failed, histories>>

TtyWrap ==
    /\ At("wrap")
    /\ screen' = CopyToTop(screen, writer.con)
    /\ writer' = [writer EXCEPT !.pc = "home", !.reg = Offset(screen, writer.con) % SCR_WIDTH]
    /\ UNCHANGED <<current, printed, failed, histories>>

(* With the assertion of l.88.                                             *)
TtyHome ==
    /\ At("home")
    /\ screen' = Home(screen, writer.con, writer.reg)
    /\ failed' = IF CursorFits(screen', writer.con) THEN 0 ELSE 88
    /\ writer' = [writer EXCEPT !.pc = "loop", !.reg = 0]
    /\ UNCHANGED <<current, printed, histories>>

(* flush(con): a register is written with interrupts off, but its value is *)
(* read before.                                                            *)
StartFlush(s, c) ==
    IF c = current THEN [Idle EXCEPT !.pc = "set_cursor", !.con = c, !.reg = s.con[c].cursor]
    ELSE Idle

TtyLoop ==
    /\ At("loop")
    /\ IF InWindow(screen.con[writer.con])
       THEN writer' = StartFlush(screen, writer.con) /\ UNCHANGED screen
       ELSE screen' = FollowCursor(screen, writer.con) /\ UNCHANGED writer
    /\ UNCHANGED <<current, printed, failed, histories>>

TtySetCursor ==
    /\ At("set_cursor")
    /\ screen' = [screen EXCEPT !.cursor = writer.reg]
    /\ writer' = [writer EXCEPT !.pc = "set_video_start_addr",
                                !.reg = screen.con[writer.con].crtc_start]
    /\ UNCHANGED <<current, printed, failed, histories>>

TtySetVideoStartAddr ==
    /\ At("set_video_start_addr")
    /\ screen' = [screen EXCEPT !.start = writer.reg]
    /\ writer' = Idle
    /\ UNCHANGED <<current, printed, failed, histories>>

(* Shift+Up, Shift+Down: in_process() scrolls the current console.         *)
TtyScroll(dir) ==
    /\ Ready
    /\ screen' = [screen EXCEPT !.con[current].crtc_start = Scrolled(screen.con[current], dir)]
    /\ writer' = StartFlush(screen', current)
    /\ UNCHANGED <<current, printed, failed, histories>>

(* Ctrl+Fn *)
SelectConsole(n) ==
    /\ Ready
    /\ current' = n
    /\ writer' = [Idle EXCEPT !.pc = "set_cursor", !.con = n, !.reg = screen.con[n].cursor]
    /\ UNCHANGED <<screen, printed, failed, histories>>

(* sys_printx(), with TTY preempted wherever it is.                        *)
Printx(str) ==
    /\ failed = 0
    /\ printed < MaxPrintx
    /\ printed' = printed + 1
    /\ raced' = (raced \/ (writer.pc # "idle" /\ writer.con = 0))
    /\ screen' = OutString(screen, str).screen /\ failed' = OutString(screen, str).failed
    /\ Recorded(0, str)
    /\ UNCHANGED <<current, writer, others>>

TtyStep ==
    \/ TtyPut \/ TtyStore \/ TtyWrap \/ TtyHome \/ TtyLoop
    \/ TtySetCursor \/ TtySetVideoStartAddr

ConsoleNext ==
    \/ TtyStep
    \/ \E c \in Consoles, ch \in {Letter, Newline, Backspace} : TtyOutChar(c, ch)
    \/ \E dir \in {SCR_UP, SCR_DN} : TtyScroll(dir)
    \/ \E n \in Consoles : SelectConsole(n)
    \/ \E str \in Strings : Printx(str)

(* TTY is scheduled again while it is ready.                               *)
ConsoleSpec == ConsoleInit /\ [][ConsoleNext]_consoleVars /\ WF_consoleVars(TtyStep)

-----------------------------------------------------------------------------
Quiet == failed = 0 /\ writer.pc = "idle"

(* The assertions of out_char(), l.55 and l.88, hold, and its loop ends in *)
(* the kernel, as long as no printx() cut into TTY's work on the first     *)
(* console.                                                                *)
OnlyRacesFail == failed # 0 => raced

(* The window never leaves the console, even after a race; the cursor is   *)
(* in its console between calls.                                           *)
WindowInside(n) ==
    LET c == screen.con[n] IN
    /\ c.crtc_start \in {c.orig + r * SCR_WIDTH :
                           r \in 0 .. (c.con_size \div SCR_WIDTH) - SCR_ROWS}
    /\ Quiet /\ ~raced => CursorFits(screen, n)

(* Row text is on the screen from p on.  (The first row of a console may   *)
(* have lost cells to its neighbour, see OnlyBlanksSpill.)                 *)
RowShows(n, p, text) ==
    \A i \in 1 .. SCR_WIDTH :
      \/ screen.vmem[p + i - 1] = text[i]
      \/ n > 0 /\ p = screen.con[n].orig /\ screen.vmem[p + i - 1] = Blank

(* A window with the cursor in it shows, down to the cursor's row, the     *)
(* last rows written.                                                      *)
ShowsPaper(n) ==
    LET c == screen.con[n]
        row == c.orig + Newest(c)
        rows == paper[n].rows
    IN  InWindow(c) =>
          /\ c.cursor = row + paper[n].col
          /\ \A i \in 0 .. Len(rows) - 1 :
               row - i * SCR_WIDTH >= c.crtc_start
                 => RowShows(n, row - i * SCR_WIDTH, rows[Len(rows) - i])

(* The CRTC shows the current console's window and cursor.                 *)
CrtcShowsCurrent ==
    /\ screen.cursor = screen.con[current].cursor
    /\ screen.start = screen.con[current].crtc_start

(* Whatever was scrolled, wrapped, erased, selected: the window stays in   *)
(* its console, and between calls the user sees the current console, the   *)
(* rows last written on it above the cursor -- unless a printx() cut into  *)
(* TTY's work, or text stands among old rows (Mixes).                      *)
ShowsWhatWasWritten ==
    /\ \A n \in Consoles : WindowInside(n)
    /\ Quiet /\ ~raced => CrtcShowsCurrent
    /\ Quiet /\ ~raced /\ ~mixed => \A n \in Consoles : ShowsPaper(n)

(* Text is written into one's own console only; what is cleared beyond it  *)
(* is at most the end of a row after the last one (clear_screen() from a   *)
(* cursor inside the last row).                                            *)
OnlyBlanksSpill ==
    [][\A p \in DOMAIN screen.vmem :
         screen.vmem'[p] # screen.vmem[p] =>
           \E n \in Consoles :
             LET c == screen.con[n] IN
             /\ n = writer.con \/ (n = 0 /\ printed' > printed)
             /\ \/ p - c.orig \in 0 .. c.con_size - 1
                \/ /\ screen.vmem'[p] = Blank
                   /\ p - (c.orig + c.con_size) \in 0 .. SCR_WIDTH - 2]_consoleVars

(* '\b' has taken the cursor above the window of a console that is not     *)
(* full: scroll_screen() moves the window of such a console only down.     *)
CursorAbove(n) ==
    ~screen.con[n].is_full /\ screen.con[n].cursor < screen.con[n].crtc_start

(* The loop at l.90 ends and TTY returns from out_char(), unless a         *)
(* printx() cut in or '\b' took the cursor above the window: then TTY      *)
(* turns for ever.                                                         *)
OutCharReturns ==
    (writer.pc # "idle") ~> (writer.pc = "idle" \/ raced \/ CursorAbove(writer.con))
=============================================================================

------------------------------ MODULE Terminal ------------------------------
(***************************************************************************)
(* The text console: lib/c/kernel/terminal.c, lib/c/stdio/putchar.c and    *)
(* lib/c/system/vga.c.                                                     *)
(*                                                                         *)
(* `tty' is everything the user can look at: the VGA memory cell by cell,  *)
(* the hardware cursor, and the two buffers of lines that have left the    *)
(* screen: top above it, bottom below it while the user looks at history.  *)
(* putchar() and the scroll functions map one tty to the next; an action   *)
(* is one call of terminal_console() with the key it read. A command runs  *)
(* inside the call that read Enter: meanwhile `running' holds, what is     *)
(* printed is printed one character per step, and no key is read. Colours  *)
(* are left out; the blank of vga_clear() is not a space.                  *)
(*                                                                         *)
(* A program is linked with a copy of the library of its own (mk/app.mk):  *)
(* its putchar() draws on the same VGA memory and moves the same hardware  *)
(* cursor as the kernel's, but keeps its history in the program's memory.  *)
(***************************************************************************)
EXTENDS Integers, SequencesExt

CONSTANTS
  VGA_WIDTH, HEADER_ROWS, ROWS,  \* columns, rows of the header, rows below
  SCROLL_HISTORY_SIZE,           \* lines each buffer can hold
  INPUT_BUF_SIZE,
  TAB_SIZE, TAB_STOP,            \* typed and printed tabs (4 and 8)
  Letters,                       \* printable characters other than space
  Outputs                        \* what the kernel or a program may print

ASSUME SizesAssumption ==
  /\ {VGA_WIDTH, ROWS, TAB_SIZE, TAB_STOP, INPUT_BUF_SIZE} \subseteq Nat \ {0}
  /\ HEADER_ROWS \in Nat /\ SCROLL_HISTORY_SIZE \in Nat \ {0}
\* 255 characters and a prompt are far less than the 23 rows of 80.
ASSUME InputFitsScreen == 2 + INPUT_BUF_SIZE - 1 < ROWS * VGA_WIDTH
\* A prompt and a typed tab are shorter than a line (6 characters of 80).
ASSUME TabFitsLine == 2 + TAB_SIZE <= VGA_WIDTH
ASSUME CharsAssumption ==
  /\ Letters \cap {"LF", "CR", "HT"} = {}
  /\ Outputs \subseteq Letters \cup {" ", ">", "LF", "CR", "HT"}

VARIABLES
  tty,           \* [vga, cursor, shown, top, bottom]
  input_buf,     \* the line typed so far
  prompt_shown,
  running        \* autorun_init(), or a command and the report on it

vars == <<tty, input_buf, prompt_shown, running>>

VGA_START_CURSOR_POSITION == VGA_WIDTH * HEADER_ROWS
terminal_bottom == VGA_WIDTH * (HEADER_ROWS + ROWS)
Cells == 0 .. terminal_bottom - 1
Cols == 0 .. VGA_WIDTH - 1
blank == "blank"
PROMPT_STR == <<">", " ">>
Chars == {blank, " ", ">", "header"} \cup Letters

Row(vga, r) == [c \in Cols |-> vga[r * VGA_WIDTH + c]]
BlankRow == [c \in Cols |-> blank]

\* The rows below the header move up, `last' becomes the lowest one.
ShiftUp(vga, last) ==
  [p \in Cells |-> IF p < VGA_START_CURSOR_POSITION THEN vga[p]
                   ELSE IF p + VGA_WIDTH < terminal_bottom THEN vga[p + VGA_WIDTH]
                   ELSE last[p % VGA_WIDTH]]

\* The rows below the header move down, `first' becomes the highest one.
ShiftDown(vga, first) ==
  [p \in Cells |-> IF p < VGA_START_CURSOR_POSITION THEN vga[p]
                   ELSE IF p < VGA_START_CURSOR_POSITION + VGA_WIDTH
                     THEN first[p % VGA_WIDTH]
                   ELSE vga[p - VGA_WIDTH]]

TopRow(t) == Row(t.vga, HEADER_ROWS)
BottomRow(t) == Row(t.vga, HEADER_ROWS + ROWS - 1)

-----------------------------------------------------------------------------
(***************************************************************************)
(* Plausible mistakes, used only to check that the properties notice them. *)
(***************************************************************************)
NeverDropALine(t) == Append(t.top, TopRow(t))
DropTheNewest(t) ==
  IF Len(t.top) < SCROLL_HISTORY_SIZE THEN Append(t.top, TopRow(t))
  ELSE Append(Front(t.top), TopRow(t))
EraseTheWrongCell(t) ==
  [t EXCEPT !.vga[t.cursor] = " ", !.cursor = @ - 1]
TabIgnoresRoom(t) == TAB_SIZE - ((t.cursor % VGA_WIDTH) % TAB_SIZE)

-----------------------------------------------------------------------------
(* terminal_auto_scroll(): the highest row becomes history, the oldest line *)
(* of a full history is dropped, and whatever was below the screen is gone. *)
Remembered(t) ==
  IF Len(t.top) < SCROLL_HISTORY_SIZE THEN Append(t.top, TopRow(t))
  ELSE Append(Tail(t.top), TopRow(t))

terminal_auto_scroll(t) ==
  [t EXCEPT !.top = Remembered(t), !.bottom = <<>>,
            !.vga = ShiftUp(@, BlankRow)]

\* A cursor outside the area is put back to its start.
InBounds(cursor) ==
  IF cursor \in VGA_START_CURSOR_POSITION .. terminal_bottom - 1
  THEN cursor ELSE VGA_START_CURSOR_POSITION

\* Where the cursor goes before a possible scroll.
Advanced(cur, c) ==
  CASE c = "LF" -> (cur \div VGA_WIDTH + 1) * VGA_WIDTH
    [] c = "CR" -> (cur \div VGA_WIDTH) * VGA_WIDTH
    [] c = "HT" -> LET spaces == TAB_STOP - ((cur % VGA_WIDTH) % TAB_STOP)
                   IN IF cur + spaces >= terminal_bottom
                      THEN terminal_bottom - VGA_WIDTH ELSE cur + spaces
    [] OTHER -> cur + 1

putchar(t, c) ==
  LET cur == InBounds(t.cursor)
      next == Advanced(cur, c)
      drawn == IF c \in {"LF", "CR", "HT"} THEN t ELSE [t EXCEPT !.vga[cur] = c]
  IN IF next >= terminal_bottom
     THEN [terminal_auto_scroll(drawn) EXCEPT !.cursor = terminal_bottom - VGA_WIDTH]
     ELSE [drawn EXCEPT !.cursor = next]

\* The program's copy of putchar(): the kernel's buffers are out of its reach.
program_putchar(t, c) ==
  [putchar(t, c) EXCEPT !.top = t.top, !.bottom = t.bottom]

\* The characters of s, one after the other.
Printed(t, s) ==
  LET at[k \in 0 .. Len(s)] == IF k = 0 THEN t ELSE putchar(at[k - 1], s[k])
  IN  at[Len(s)]

print_prompt(t) == Printed(t, PROMPT_STR)

-----------------------------------------------------------------------------
(* Scrolling. The top row is stored without asking whether there is room.  *)
OneLineForward(t) ==
  [t EXCEPT !.top = Append(@, TopRow(t)),
            !.vga = ShiftUp(@, Last(t.bottom)),
            !.bottom = Front(@)]

ShowCursor(t) == [t EXCEPT !.shown = TRUE]

return_to_present(t) ==
  LET n == Len(t.bottom)
      at[k \in 0 .. n] == IF k = 0 THEN t ELSE OneLineForward(at[k - 1])
  IN  IF n = 0 THEN t ELSE ShowCursor(at[n])

scroll_down(t) ==
  IF t.bottom = <<>> THEN t
  ELSE LET u == OneLineForward(t)
       IN IF u.bottom = <<>> THEN ShowCursor(u) ELSE u

scroll_up(t) ==
  IF t.top = <<>> THEN t
  ELSE [t EXCEPT !.shown = FALSE,
                 !.bottom = IF Len(@) < SCROLL_HISTORY_SIZE
                            THEN Append(@, BottomRow(t)) ELSE @,
                 !.vga = ShiftDown(@, Last(t.top)),
                 !.top = Front(@)]

\* The backspace key: step back, print a space, step back again.
Erased(t) ==
  IF t.cursor > 0
  THEN [putchar([t EXCEPT !.cursor = @ - 1], " ") EXCEPT !.cursor = t.cursor - 1]
  ELSE t

\* How many spaces a typed tab is worth: up to the next stop, and no more
\* than the input buffer has room for.
TabSpaces(t) ==
  LET spaces == TAB_SIZE - ((t.cursor % VGA_WIDTH) % TAB_SIZE)
      free_space == INPUT_BUF_SIZE - 1 - Len(input_buf)
  IN IF spaces > free_space THEN free_space ELSE spaces

-----------------------------------------------------------------------------
(* kmain() calls terminal_initialize(), then autorun_init(), which prints  *)
(* and may run programs, and only then enters the loop that reads keys.    *)
Init ==
  /\ tty = [vga |-> [p \in Cells |-> IF p < VGA_START_CURSOR_POSITION
                                     THEN "header" ELSE blank],
            cursor |-> VGA_START_CURSOR_POSITION, shown |-> TRUE,
            top |-> <<>>, bottom |-> <<>>]
  /\ input_buf = <<>>
  /\ prompt_shown = FALSE
  /\ running = TRUE

\* terminal_console() prints a missing prompt before it looks at the key.
Prompted == IF prompt_shown THEN tty ELSE print_prompt(tty)
Present == return_to_present(Prompted)
Console == ~running /\ prompt_shown' = TRUE

\* No key, or the release of one.
Poll ==
  /\ Console
  /\ tty' = Prompted
  /\ UNCHANGED <<input_buf, running>>

ScrollDown ==
  /\ Console
  /\ tty' = scroll_down(Prompted)
  /\ UNCHANGED <<input_buf, running>>

ScrollUp ==
  /\ Console
  /\ tty' = scroll_up(Prompted)
  /\ UNCHANGED <<input_buf, running>>

\* A key whose character is neither handled nor printable.
OtherKey ==
  /\ Console
  /\ tty' = Present
  /\ UNCHANGED <<input_buf, running>>

Enter ==
  /\ Console
  /\ LET t == putchar(Present, "LF")
     IN tty' = IF input_buf = <<>> THEN print_prompt(t) ELSE t
  /\ running' = (input_buf # <<>>)
  /\ UNCHANGED input_buf

Backspace ==
  /\ Console
  /\ tty' = IF input_buf # <<>> THEN Erased(Present) ELSE Present
  /\ input_buf' = IF input_buf # <<>> THEN Front(input_buf) ELSE input_buf
  /\ UNCHANGED running

Tab ==
  /\ Console
  /\ LET spaces == [i \in 1 .. TabSpaces(Present) |-> " "]
     IN /\ tty' = Printed(Present, spaces)
        /\ input_buf' = input_buf \o spaces
  /\ UNCHANGED running

Type(c) ==
  /\ Console
  /\ IF Len(input_buf) < INPUT_BUF_SIZE - 1
     THEN tty' = putchar(Present, c) /\ input_buf' = Append(input_buf, c)
     ELSE tty' = Present /\ UNCHANGED input_buf
  /\ UNCHANGED running

\* The kernel prints what became of the command.
Output(c) ==
  /\ running
  /\ tty' = putchar(tty, c)
  /\ UNCHANGED <<input_buf, prompt_shown, running>>

\* The program that was started prints.
ProgramOutput(c) ==
  /\ running
  /\ tty' = program_putchar(tty, c)
  /\ UNCHANGED <<input_buf, prompt_shown, running>>

\* The last line of autorun_init() ends; the loop will print the prompt.
AutorunDone ==
  /\ running /\ ~prompt_shown
  /\ tty' = putchar(tty, "LF")
  /\ running' = FALSE
  /\ UNCHANGED <<input_buf, prompt_shown>>

\* The report ends with a newline, and the next prompt follows.
CommandDone ==
  /\ running /\ prompt_shown
  /\ tty' = print_prompt(putchar(tty, "LF"))
  /\ input_buf' = <<>>
  /\ running' = FALSE
  /\ UNCHANGED prompt_shown

Key ==
  \/ Poll \/ ScrollDown \/ ScrollUp \/ OtherKey
  \/ Enter \/ Backspace \/ Tab
  \/ \E c \in Letters : Type(c)

KernelPrints == (\E c \in Outputs : Output(c)) \/ AutorunDone \/ CommandDone

Next == Key \/ KernelPrints \/ \E c \in Outputs : ProgramOutput(c)

Spec == Init /\ [][Next]_vars

-----------------------------------------------------------------------------
(* Properties.                                                             *)

\* Every line there is, oldest first: the history, the screen, and what
\* scrolling up pushed off the screen.
Document(t) ==
  t.top \o [r \in 1 .. ROWS |-> Row(t.vga, HEADER_ROWS + r - 1)] \o Reverse(t.bottom)

\* Cell k of a document, counted from 0.
DocCell(d, k) == d[k \div VGA_WIDTH + 1][k % VGA_WIDTH]

\* The place in the document where the next typed character goes: the
\* cursor keeps its place on the present screen while history is shown.
DocCursor(t) ==
  (Len(t.top) + Len(t.bottom)) * VGA_WIDTH + t.cursor - VGA_START_CURSOR_POSITION

\* The state is of the declared shape: the cursor is inside the area, the
\* input line with its terminator fits input_buf, and the header rows hold
\* nothing but the header (print_header()).
TypeOK ==
  /\ tty \in [vga : [Cells -> Chars],
              cursor : VGA_START_CURSOR_POSITION .. terminal_bottom - 1,
              shown : BOOLEAN, top : Seq([Cols -> Chars]),
              bottom : Seq([Cols -> Chars])]
  /\ \A p \in 0 .. VGA_START_CURSOR_POSITION - 1 : tty.vga[p] = "header"
  /\ input_buf \in Seq(Letters \cup {" "}) /\ Len(input_buf) <= INPUT_BUF_SIZE - 1
  /\ prompt_shown \in BOOLEAN /\ running \in BOOLEAN

\* The rows return_to_present() and scroll_down() store without a test for
\* room (terminal.c 158 and 192) always fit terminal_top_buffer, and the
\* full-buffer case of scroll_up() (230), which would lose a line, is never
\* met: what is above and what is below the screen share one buffer's worth.
BuffersFit == Len(tty.top) + Len(tty.bottom) <= SCROLL_HISTORY_SIZE

\* While the console waits for keys, the cells in front of the input
\* position are the prompt and the line that Enter would execute and those
\* behind it look empty, also across line ends, after erasing, and while
\* the user looks at history; the hardware cursor is hidden exactly then.
EchoIsInput ==
  (prompt_shown /\ ~running) =>
    LET line == PROMPT_STR \o input_buf
        start == DocCursor(tty) - Len(line)
    IN /\ tty.shown <=> tty.bottom = <<>>
       /\ start >= 0
       /\ \A i \in 1 .. Len(line) :
            DocCell(Document(tty), start + i - 1) = line[i]
       /\ \A k \in DocCursor(tty) .. Len(Document(tty)) * VGA_WIDTH - 1 :
            DocCell(Document(tty), k) \in {blank, " "}

\* The step leaves every cell in front of the input, or of the running
\* command's current line, as it is, wherever the cell moves to; a full
\* history gives up its oldest line only.
KeepsText ==
  LET d == Document(tty)
      e == Document(tty')
      fixed == IF running THEN DocCursor(tty) - (tty.cursor % VGA_WIDTH)
               ELSE DocCursor(tty) - Len(input_buf)
  IN \E lost \in 0 .. 1 :
       /\ lost = 1 => Len(d) = SCROLL_HISTORY_SIZE + ROWS
       /\ \A k \in lost * VGA_WIDTH .. fixed - 1 :
            /\ (k \div VGA_WIDTH) - lost < Len(e)
            /\ DocCell(e, k - lost * VGA_WIDTH) = DocCell(d, k)

\* Whatever the user types, erases or scrolls and whatever the kernel prints,
\* a line feed or a prompt included, the text before it is still on the
\* screen or in the history; looking at history (scroll_up(), scroll_down())
\* changes no line at all. A character a program prints need not keep it:
\* when it scrolls, the line it pushes off the screen goes to the program's
\* copy of the history.
EarlierTextStays ==
  [][/\ Key \/ KernelPrints => KeepsText
     /\ (ScrollUp \/ ScrollDown) /\ prompt_shown => Document(tty') = Document(tty)]_vars

=============================================================================

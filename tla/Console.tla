------------------------------- MODULE Console -------------------------------
(***************************************************************************)
(* The text console of kernel/arch/x64/io/tty.c and the callers of         *)
(* printk(): kernel threads that can be preempted at any instruction,      *)
(* system calls and handlers that run with interrupts masked, and panics,  *)
(* which print, mask interrupts, print again and halt.                     *)
(*                                                                         *)
(* A step is one access of a writer to the shared structure tty, to its    *)
(* ring of lines or to video memory, in the order of the compiled code; a  *)
(* memset or memcpy of a line is one step.  Video memory and the ring are  *)
(* flat arrays; what is written beyond them is lost.  Colours are left     *)
(* out.                                                                    *)
(***************************************************************************)
EXTENDS Printk

CONSTANTS Writers,      \* threads that print
          Masked,       \* those that print with interrupts masked
          Panicking,    \* those that print on the way to halt()
          Requests,     \* what each writer may pass to printk(); it prints something
          MaxCalls,     \* bound: the calls of each writer
          HaltText,     \* "System halted"
          Width, Height, BufferHeight, Tab,
          NONE          \* no writer

ASSUME ConsoleAssumption ==
    /\ Masked \subseteq Writers /\ Panicking \subseteq Writers \ Masked
    /\ NONE \notin Writers
    /\ Width \in Nat \ {0} /\ Height \in Nat \ {0} /\ BufferHeight \in Nat
    /\ Height <= BufferHeight
    /\ Tab \in 1 .. (Width - 1) \* the test of tty_set_tab_size()

ASSUME RequestsAssumption ==
    /\ \A w \in Writers : \A items \in Requests[w] : Proper(items)
    /\ Proper(<<Lit(HaltText)>>)

VARIABLES row, col, buffer_row, \* of the structure tty
          buffer,               \* tty.buffer, the ring of lines
          screen,               \* video memory
          pc, reg,              \* each writer's place in tty_putchar() and its registers
          text,                 \* each writer's characters still to print
          calls,                \* calls each writer has left
          irq_off,              \* the writer that has masked interrupts, or NONE
          request,              \* ghost: what each writer's call was given and has printed
          sound,                \* ghost: so far characters were printed one at a time
          log                   \* while sound: what went to the debug port

tty  == <<row, col, buffer_row, buffer, screen>>
job  == <<text, calls, irq_off, request>>
seen == <<sound, log>>
vars == <<tty, pc, reg, job, seen>>

Blank == " "
Wide  == "wide" \* any character above 0xff, as is every byte above 0x7f: it is sign-extended
Control == "control" \* any character below 0x20 but the three that special_char() knows

Registers == [ch |-> Blank, row |-> 0, col |-> 0, line |-> 0]

NoRequest == [items |-> <<>>, printed |-> <<>>]

\* tty_initialize(), the tty_clear() at its end included.
Init ==
    /\ row = 0 /\ col = 0 /\ buffer_row = 1 % BufferHeight
    /\ buffer = [i \in 0 .. (BufferHeight * Width - 1) |-> Blank]
    /\ screen = [i \in 0 .. (Height * Width - 1) |-> Blank]
    /\ pc = [w \in Writers |-> "idle"]
    /\ reg = [w \in Writers |-> Registers]
    /\ text = [w \in Writers |-> <<>>]
    /\ calls = [w \in Writers |-> MaxCalls[w]]
    /\ irq_off = NONE
    /\ request = [w \in Writers |-> NoRequest]
    /\ sound = TRUE
    /\ log = <<>>
-----------------------------------------------------------------------------
Goto(w, label) == pc' = [pc EXCEPT ![w] = label]

\* The writers in the middle of a character.
Inside == {w \in Writers : pc[w] \notin {"idle", "halted"}}

Printing(w) == text[w] # <<>>

\* A call of printk().  A masked writer keeps the processor until it is done;
\* nobody runs while another one has masked interrupts.
Call(w) ==
    /\ pc[w] = "idle" /\ ~Printing(w) /\ calls[w] > 0
    /\ \E items \in Requests[w] :
          /\ request' = [request EXCEPT ![w].items = items]
          /\ text' = [text EXCEPT ![w] = printk(Format(items), Arguments(items))]
    /\ calls' = [calls EXCEPT ![w] = @ - 1]
    /\ irq_off' = IF w \in Masked THEN w ELSE NONE
    /\ UNCHANGED <<tty, pc, reg, seen>>

\* backend(): a character goes to the debug port, then to tty_putchar().
Backend(w) ==
    /\ pc[w] = "idle" /\ Printing(w)
    /\ Goto(w, "putchar")
    /\ reg' = [reg EXCEPT ![w].ch = Head(text[w])]
    /\ sound' = (sound /\ Inside = {})
    /\ log' = IF sound' THEN Append(log, Head(text[w])) ELSE <<>>
    /\ UNCHANGED <<tty, job>>

\* tty_putchar() returns; after the last character printk() does, and halt()
\* follows the message of a panic.
Return(w) ==
    LET rest == Tail(text[w])
        halting == w \in Panicking /\ irq_off = w
    IN  /\ reg' = [reg EXCEPT ![w] = Registers]
        /\ UNCHANGED <<calls, seen>>
        /\ \/ /\ rest # <<>>
              /\ text' = [text EXCEPT ![w] = rest]
              /\ request' = [request EXCEPT ![w].printed = Append(@, Head(text[w]))]
              /\ Goto(w, "idle")
              /\ UNCHANGED irq_off
           \/ /\ rest = <<>> /\ w \notin Panicking
              /\ text' = [text EXCEPT ![w] = <<>>]
              /\ request' = [request EXCEPT ![w] = NoRequest]
              /\ Goto(w, "idle")
              /\ irq_off' = NONE
           \/ /\ rest = <<>> /\ w \in Panicking /\ ~halting
              /\ text' = [text EXCEPT ![w] = HaltText]
              /\ request' = [request EXCEPT ![w] = [items |-> <<Lit(HaltText)>>, printed |-> <<>>]]
              /\ Goto(w, "idle")
              /\ irq_off' = w
           \/ /\ rest = <<>> /\ halting
              /\ text' = [text EXCEPT ![w] = <<>>]
              /\ request' = [request EXCEPT ![w] = NoRequest]
              /\ Goto(w, "halted")
              /\ UNCHANGED irq_off

\* Mutant of Ignored: multibyte and control characters are printed.
IgnoredNone == {}

Ignored == {Wide, Control}

tty_putchar(w) ==
    /\ pc[w] = "putchar"
    /\ LET c == reg[w].ch IN
       \/ c \in Ignored /\ Return(w) /\ UNCHANGED tty
       \/ /\ c \notin Ignored
          /\ Goto(w, CASE c = "\n" -> "line_up" [] c = "\r" -> "return"
                       [] c = "\t" -> "tab" [] OTHER -> "put_char")
          /\ UNCHANGED <<tty, reg, job, seen>>
-----------------------------------------------------------------------------
(* put_char() *)

\* The line is full exactly when tty.col equals the width.
put_char(w) ==
    /\ pc[w] = "put_char"
    /\ Goto(w, IF col = Width THEN "line_up" ELSE "row")
    /\ UNCHANGED <<tty, reg, job, seen>>

ReadRow(w) ==
    /\ pc[w] = "row"
    /\ reg' = [reg EXCEPT ![w].row = row]
    /\ Goto(w, "video")
    /\ UNCHANGED <<tty, job, seen>>

Overwritten(array, index, c) ==
    IF index \in DOMAIN array THEN [array EXCEPT ![index] = c] ELSE array

WriteVideo(w) ==
    /\ pc[w] = "video"
    /\ screen' = Overwritten(screen, reg[w].row * Width + col, reg[w].ch)
    /\ Goto(w, "col")
    /\ UNCHANGED <<row, col, buffer_row, buffer, reg, job, seen>>

ReadCol(w) ==
    /\ pc[w] = "col"
    /\ reg' = [reg EXCEPT ![w].col = col]
    /\ Goto(w, "ring")
    /\ UNCHANGED <<tty, job, seen>>

WriteRing(w) ==
    /\ pc[w] = "ring"
    /\ buffer' = Overwritten(buffer, buffer_row * Width + reg[w].col, reg[w].ch)
    /\ Goto(w, "advance")
    /\ UNCHANGED <<row, col, buffer_row, screen, reg, job, seen>>

Advance(w) ==
    /\ pc[w] = "advance"
    /\ col' = reg[w].col + 1
    /\ Return(w)
    /\ UNCHANGED <<row, buffer_row, buffer, screen>>
-----------------------------------------------------------------------------
(* special_char() *)

\* '\r', and the end of '\n'.
CarriageReturn(w) ==
    /\ pc[w] = "return"
    /\ col' = 0
    /\ Return(w)
    /\ UNCHANGED <<row, buffer_row, buffer, screen>>

ReadTab(w) ==
    /\ pc[w] = "tab"
    /\ reg' = [reg EXCEPT ![w].col = col + Tab - (col % Tab)]
    /\ Goto(w, "stop")
    /\ UNCHANGED <<tty, job, seen>>

TabStop(w) ==
    /\ pc[w] = "stop"
    /\ col' = reg[w].col
    /\ \/ reg[w].col < Width /\ Return(w)
       \/ /\ reg[w].col >= Width
          /\ Goto(w, "fold")
          /\ UNCHANGED <<reg, job, seen>>
    /\ UNCHANGED <<row, buffer_row, buffer, screen>>

TabFold(w) ==
    /\ pc[w] = "fold"
    /\ col' = reg[w].col % Width
    /\ Goto(w, "line_up")
    /\ UNCHANGED <<row, buffer_row, buffer, screen, reg, job, seen>>
-----------------------------------------------------------------------------
(* line_up() *)

\* buffer_row_up(): the next line of the ring becomes the current one ...
ReadLine(w) ==
    /\ pc[w] = "line_up"
    /\ reg' = [reg EXCEPT ![w].line = (buffer_row + 1) % BufferHeight]
    /\ Goto(w, "line")
    /\ UNCHANGED <<tty, job, seen>>

WriteLine(w) ==
    /\ pc[w] = "line"
    /\ buffer_row' = reg[w].line
    /\ Goto(w, "clear")
    /\ UNCHANGED <<row, col, buffer, screen, reg, job, seen>>

\* A line of a flat array.
Cells(line) == (line * Width) .. (line * Width + Width - 1)

Cleared(array, line) == [i \in DOMAIN array |-> IF i \in Cells(line) THEN Blank ELSE array[i]]

\* ... and is cleared.
ClearLine(w) ==
    /\ pc[w] = "clear"
    /\ buffer' = Cleared(buffer, reg[w].line)
    /\ Goto(w, "height")
    /\ UNCHANGED <<row, col, buffer_row, screen, reg, job, seen>>

\* The row is read once, for the test and for the increment.
TestHeight(w) ==
    /\ pc[w] = "height"
    /\ reg' = [reg EXCEPT ![w].row = row]
    /\ Goto(w, IF row < Height - 1 THEN "down" ELSE "scroll")
    /\ UNCHANGED <<tty, job, seen>>

\* line_up() returns to put_char() or special_char().
LineDone(w) ==
    CASE reg[w].ch = "\n" -> Goto(w, "return") /\ UNCHANGED <<reg, job, seen>>
      [] reg[w].ch = "\t" -> Return(w)
      [] OTHER            -> Goto(w, "wrap") /\ UNCHANGED <<reg, job, seen>>

\* Mutant of Lower: the row is read again.
LowerShared(w) == row + 1

Lower(w) == reg[w].row + 1

RowDown(w) ==
    /\ pc[w] = "down"
    /\ row' = Lower(w)
    /\ LineDone(w)
    /\ UNCHANGED <<col, buffer_row, buffer, screen>>

\* Mutant of StartLine: one line too early.
StartLineEarly == (buffer_row - Height) % BufferHeight

\* The oldest line that stays on the screen; C's remainder may be negative and
\* is corrected.
StartLine == (buffer_row - Height + 1) % BufferHeight

StartScroll(w) ==
    /\ pc[w] = "scroll"
    /\ reg' = [reg EXCEPT ![w].line = StartLine, ![w].row = 0]
    /\ Goto(w, "copy")
    /\ UNCHANGED <<tty, job, seen>>

\* A line of the ring is copied to the screen, until the current line is met.
CopyLine(w) ==
    /\ pc[w] = "copy"
    /\ reg[w].line # buffer_row
    /\ screen' = [i \in DOMAIN screen |->
                     IF i \in Cells(reg[w].row)
                     THEN buffer[reg[w].line * Width + (i % Width)] ELSE screen[i]]
    /\ reg' = [reg EXCEPT ![w].line = (@ + 1) % BufferHeight, ![w].row = @ + 1]
    /\ UNCHANGED <<row, col, buffer_row, buffer, pc, job, seen>>

EndCopy(w) ==
    /\ pc[w] = "copy"
    /\ reg[w].line = buffer_row
    /\ Goto(w, "last")
    /\ UNCHANGED <<tty, reg, job, seen>>

ClearLast(w) ==
    /\ pc[w] = "last"
    /\ screen' = Cleared(screen, reg[w].row)
    /\ LineDone(w)
    /\ UNCHANGED <<row, col, buffer_row, buffer>>

\* put_char() continues on the new line.
Wrap(w) ==
    /\ pc[w] = "wrap"
    /\ col' = 0
    /\ Goto(w, "row")
    /\ UNCHANGED <<row, buffer_row, buffer, screen, reg, job, seen>>
-----------------------------------------------------------------------------
Step(w) ==
    \/ Call(w) \/ Backend(w) \/ tty_putchar(w)
    \/ put_char(w) \/ ReadRow(w) \/ WriteVideo(w) \/ ReadCol(w) \/ WriteRing(w) \/ Advance(w)
    \/ CarriageReturn(w) \/ ReadTab(w) \/ TabStop(w) \/ TabFold(w)
    \/ ReadLine(w) \/ WriteLine(w) \/ ClearLine(w) \/ TestHeight(w) \/ RowDown(w)
    \/ StartScroll(w) \/ CopyLine(w) \/ EndCopy(w) \/ ClearLast(w) \/ Wrap(w)

Next == \E w \in Writers : irq_off \in {NONE, w} /\ Step(w)

Spec == Init /\ [][Next]_vars
-----------------------------------------------------------------------------
Labels == {"idle", "halted", "putchar", "put_char", "row", "video", "col", "ring", "advance",
           "return", "tab", "stop", "fold", "line_up", "line", "clear", "height", "down",
           "scroll", "copy", "last", "wrap"}

\* What is printed: what a caller passes and what conversions make, and of these
\* what can be on the screen.
Literal(items) == UNION {ToSet(items[i].chars) : i \in 1 .. Len(items)}
Given == UNION {Literal(items) : items \in UNION {Requests[w] : w \in Writers}}
Printed == {Blank, "-", "x", "%"} \cup {Digit[i] : i \in 1 .. 16} \cup ToSet(HaltText) \cup Given
Visible == Printed \ {Wide, Control, "\n", "\r", "\t"}

TypeOK ==
    /\ row \in Nat /\ col \in Nat /\ buffer_row \in Nat
    /\ buffer \in [0 .. (BufferHeight * Width - 1) -> Visible]
    /\ screen \in [0 .. (Height * Width - 1) -> Visible]
    /\ pc \in [Writers -> Labels]
    /\ reg \in [Writers -> [ch : Printed, row : Nat, col : Nat, line : Nat]]
    /\ text \in [Writers -> Seq(Printed)]
    /\ irq_off \in Writers \cup {NONE}
    /\ sound \in BOOLEAN /\ log \in Seq(Printed)

\* However the writers interleave inside line_up() and put_char(), the row
\* stays on the screen and the current line inside the ring.
RowOnScreen == row \in 0 .. (Height - 1) /\ buffer_row \in 0 .. (BufferHeight - 1)

\* What a call has printed and still has to print is what its format and
\* arguments mean: numbers of every width and sign, hexadecimals, strings,
\* percent signs.
Formatted ==
    \A w \in Writers : request[w].printed \o text[w] = Meaning(request[w].items)

Quiet == sound /\ Inside = {}

\* The reference: a sheet of lines that grows at its end, as the characters of
\* the log type it.
EmptyLine == [k \in 0 .. (Width - 1) |-> Blank]

NewLine(sheet, at) == [lines |-> Append(sheet.lines, EmptyLine), col |-> at]

Type(sheet, c) ==
    LET page == IF sheet.col = Width THEN NewLine(sheet, 0) ELSE sheet
        stop == (sheet.col \div Tab + 1) * Tab
    IN  CASE c = "\n" -> NewLine(sheet, 0)
          [] c = "\r" -> [sheet EXCEPT !.col = 0]
          [] c = "\t" -> IF stop < Width THEN [sheet EXCEPT !.col = stop]
                                         ELSE NewLine(sheet, stop % Width)
          [] c \in {Wide, Control} -> sheet
          [] OTHER    -> [lines |-> [page.lines EXCEPT ![Len(page.lines)][page.col] = c],
                          col |-> page.col + 1]

EmptySheet == [lines |-> <<EmptyLine>>, col |-> 0]

Typed(chars) ==
    LET sheet[n \in 0 .. Len(chars)] ==
            IF n = 0 THEN EmptySheet ELSE Type(sheet[n - 1], chars[n])
    IN  sheet[Len(chars)]

\* The screen shows the last lines of everything that was printed, as long as
\* one character was finished before the next began, whatever writers the
\* characters came from; below the current row it is blank.  It is copied from
\* the ring again and again, so the ring holds the same lines.
ScreenShowsLog ==
    Quiet =>
        LET sheet == Typed(log)
            first == IF Len(sheet.lines) > Height THEN Len(sheet.lines) - Height ELSE 0
        IN  /\ col = sheet.col
            /\ row = Len(sheet.lines) - first - 1
            /\ \A r \in 0 .. (Height - 1), k \in 0 .. (Width - 1) :
                screen[r * Width + k] = IF r <= row THEN sheet.lines[first + r + 1][k]
                                                    ELSE Blank
=============================================================================

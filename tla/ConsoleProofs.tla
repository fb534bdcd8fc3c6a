---------------------------- MODULE ConsoleProofs ----------------------------
(***************************************************************************)
(* The console under interleaved writers, for every number of them, every  *)
(* text and every size of the screen and of the ring of lines: the row     *)
(* stays on the screen and the current line inside the ring; while         *)
(* characters come one at a time, the screen shows the last lines of what  *)
(* was printed; every call prints what its format and arguments mean; and  *)
(* only visible characters reach the ring and the screen.                  *)
(***************************************************************************)
EXTENDS Console, PrintkProofs

\* reg holds one record for each writer.  Nothing is said of the characters.
RegistersShape ==
    /\ reg = [w \in Writers |-> reg[w]] /\ pc = [w \in Writers |-> pc[w]]
    /\ \A w \in Writers : reg[w] = [ch |-> reg[w].ch, row |-> reg[w].row,
                                    col |-> reg[w].col, line |-> reg[w].line]

\* Between the test of the row and its increment, and between the computation
\* of the next line and its assignment, the value a writer carries stays fit to
\* be stored, whatever the other writers have stored in the meantime.
Carried ==
    \A w \in Writers :
        /\ pc[w] = "down" => reg[w].row \in 0 .. (Height - 2)
        /\ pc[w] = "line" => reg[w].line \in 0 .. (BufferHeight - 1)

IInv == RegistersShape /\ RowOnScreen /\ Carried
-----------------------------------------------------------------------------
Shaped(r) == r = [ch |-> r.ch, row |-> r.row, col |-> r.col, line |-> r.line]

\* A step of writer w moves it to a label and gives its registers new values;
\* those of the others stay.
Moves(w, label, r) ==
    /\ pc' = [pc EXCEPT ![w] = label]
    /\ reg' = [reg EXCEPT ![w] = r]
    /\ Shaped(r)

LEMMA MovesKeep ==
    ASSUME IInv, NEW w \in Writers, NEW label, NEW r, Moves(w, label, r), RowOnScreen',
           label = "down" => r.row \in 0 .. (Height - 2),
           label = "line" => r.line \in 0 .. (BufferHeight - 1)
    PROVE  IInv'
<1>1. /\ pc' = [v \in Writers |-> IF v = w THEN label ELSE pc[v]]
      /\ reg' = [v \in Writers |-> IF v = w THEN r ELSE reg[v]]
  BY DEF Moves, IInv, RegistersShape
<1>2. \A v \in Writers \ {w} : reg'[v] = reg[v] /\ pc'[v] = pc[v]
  BY <1>1
<1>3. reg'[w] = r /\ pc'[w] = label
  BY <1>1
<1>4. /\ pc' = [v \in Writers |-> pc'[v]] /\ reg' = [v \in Writers |-> reg'[v]]
  BY <1>1
<1>5. \A v \in Writers : Shaped(reg'[v])
  <2>1. \A v \in Writers : Shaped(reg[v])
    BY DEF IInv, RegistersShape, Shaped
  <2> QED  BY <1>2, <1>3, <2>1 DEF Moves
<1>6. RegistersShape'
  BY <1>4, <1>5 DEF RegistersShape, Shaped
<1>7. Carried'
  BY <1>2, <1>3 DEF IInv, Carried
<1> QED  BY <1>6, <1>7 DEF IInv

LEMMA RegShaped ==
    ASSUME IInv, NEW w \in Writers
    PROVE  /\ Shaped(reg[w]) /\ Shaped(Registers)
           /\ \A x : /\ Shaped([reg[w] EXCEPT !.ch = x])
                     /\ Shaped([reg[w] EXCEPT !.row = x]) /\ [reg[w] EXCEPT !.row = x].row = x
                     /\ Shaped([reg[w] EXCEPT !.col = x])
                     /\ Shaped([reg[w] EXCEPT !.line = x]) /\ [reg[w] EXCEPT !.line = x].line = x
           /\ \A x, y : Shaped([reg[w] EXCEPT !.line = x, !.row = y])
<1>1. Shaped(reg[w])
  BY DEF IInv, RegistersShape, Shaped
<1>2. Shaped(Registers)
  BY DEF Shaped, Registers
<1> DEFINE r == reg[w]
<1>3. r = [ch |-> r.ch, row |-> r.row, col |-> r.col, line |-> r.line]
  BY <1>1 DEF Shaped
<1> HIDE DEF r
<1>4. \A x : /\ [r EXCEPT !.ch = x] = [ch |-> x, row |-> r.row, col |-> r.col, line |-> r.line]
             /\ [r EXCEPT !.row = x] = [ch |-> r.ch, row |-> x, col |-> r.col, line |-> r.line]
             /\ [r EXCEPT !.col = x] = [ch |-> r.ch, row |-> r.row, col |-> x, line |-> r.line]
             /\ [r EXCEPT !.line = x] = [ch |-> r.ch, row |-> r.row, col |-> r.col, line |-> x]
  BY <1>3
<1>5. \A x, y : Shaped([r EXCEPT !.line = x, !.row = y])
  <2> TAKE x, y
  <2> DEFINE S == {r.ch, r.row, r.col, r.line, x, y}
             q == [r EXCEPT !.line = x, !.row = y]
  <2>1. x \in S /\ y \in S /\ r.ch \in S /\ r.row \in S /\ r.col \in S /\ r.line \in S
    OBVIOUS
  <2> HIDE DEF S
  <2>2. r \in [ch : S, row : S, col : S, line : S]
    BY <1>3, <2>1
  <2>3. q \in [ch : S, row : S, col : S, line : S]
    BY <2>1, <2>2
  <2> HIDE DEF q
  <2>4. Shaped(q)
    BY <2>3 DEF Shaped
  <2> QED  BY <2>4 DEF q
<1> QED  BY <1>1, <1>2, <1>4, <1>5 DEF Shaped, r

\* The steps that neither test the row nor compute the next line: whoever takes
\* them carries nothing afterwards.
Other == Labels \ {"down", "line"}

LEMMA OthersKeep ==
    ASSUME IInv, NEW w \in Writers, NEW label \in Other, NEW r, Moves(w, label, r),
           UNCHANGED <<row, buffer_row>>
    PROVE  IInv'
<1>1. RowOnScreen'
  BY DEF IInv, RowOnScreen
<1>2. label # "down" /\ label # "line"
  BY DEF Other
<1> QED  BY <1>1, <1>2, MovesKeep

\* Going on without a change of registers.
LEMMA Goes ==
    ASSUME IInv, NEW w \in Writers, NEW label, Goto(w, label), UNCHANGED reg
    PROVE  Moves(w, label, reg[w])
<1>1. reg' = [reg EXCEPT ![w] = reg[w]]
  BY DEF IInv, RegistersShape
<1> QED  BY <1>1, RegShaped DEF Moves, Goto

LEMMA Returns ==
    ASSUME IInv, NEW w \in Writers, Return(w)
    PROVE  \E label \in Other : Moves(w, label, Registers)
<1>1. reg' = [reg EXCEPT ![w] = Registers] /\ (Goto(w, "idle") \/ Goto(w, "halted"))
  BY DEF Return
<1> QED  BY <1>1, RegShaped DEF Goto, Moves, Other, Labels

LEMMA LineEnds ==
    ASSUME IInv, NEW w \in Writers, LineDone(w)
    PROVE  \E label \in Other : \E r : Moves(w, label, r)
<1>1. CASE Return(w)
  BY <1>1, Returns
<1>2. CASE Goto(w, "return") /\ UNCHANGED reg
  BY <1>2, Goes DEF Other, Labels
<1>3. CASE Goto(w, "wrap") /\ UNCHANGED reg
  BY <1>3, Goes DEF Other, Labels
<1> QED  BY <1>1, <1>2, <1>3 DEF LineDone

\* put_char(), special_char() and the callers of tty_putchar() leave the row
\* and the current line alone.
LEMMA PutKeeps ==
    ASSUME IInv, NEW w \in Writers,
           \/ Call(w) \/ Backend(w) \/ tty_putchar(w)
           \/ put_char(w) \/ ReadRow(w) \/ WriteVideo(w) \/ ReadCol(w) \/ WriteRing(w)
           \/ Advance(w) \/ CarriageReturn(w) \/ ReadTab(w) \/ TabStop(w) \/ TabFold(w)
           \/ Wrap(w)
    PROVE  IInv'
<1>1. CASE Call(w)
  <2>1. UNCHANGED <<pc, reg, row, buffer_row>>
    BY <1>1 DEF Call, tty
  <2> QED  BY <2>1 DEF IInv, RegistersShape, RowOnScreen, Carried
<1>2. CASE Backend(w)
  <2>1. Moves(w, "putchar", [reg[w] EXCEPT !.ch = Head(text[w])])
    BY <1>2, RegShaped DEF Backend, Moves, Goto, IInv, RegistersShape
  <2>2. "putchar" \in Other /\ UNCHANGED <<row, buffer_row>>
    BY <1>2 DEF Backend, tty, Other, Labels
  <2> QED  BY <2>1, <2>2, OthersKeep
<1>3. CASE tty_putchar(w)
  <2>1. CASE Return(w) /\ UNCHANGED tty
    BY <2>1, Returns, OthersKeep DEF tty
  <2>2. CASE UNCHANGED <<tty, reg>> /\ \E label \in {"line_up", "return", "tab", "put_char"} : Goto(w, label)
    BY <2>2, Goes, OthersKeep DEF tty, Other, Labels
  <2> QED  BY <1>3, <2>1, <2>2 DEF tty_putchar
<1>4. CASE put_char(w)
  <2>1. UNCHANGED <<tty, reg>> /\ (Goto(w, "line_up") \/ Goto(w, "row"))
    BY <1>4 DEF put_char
  <2> QED  BY <2>1, Goes, OthersKeep DEF tty, Other, Labels
<1>5. CASE ReadRow(w)
  <2>1. Moves(w, "video", [reg[w] EXCEPT !.row = row])
    BY <1>5, RegShaped DEF ReadRow, Moves, Goto, IInv, RegistersShape
  <2> QED  BY <1>5, <2>1, OthersKeep DEF ReadRow, tty, Other, Labels
<1>6. CASE WriteVideo(w)
  <2>1. UNCHANGED <<row, buffer_row, reg>> /\ Goto(w, "col")
    BY <1>6 DEF WriteVideo
  <2> QED  BY <2>1, Goes, OthersKeep DEF Other, Labels
<1>7. CASE ReadCol(w)
  <2>1. Moves(w, "ring", [reg[w] EXCEPT !.col = col])
    BY <1>7, RegShaped DEF ReadCol, Moves, Goto, IInv, RegistersShape
  <2> QED  BY <1>7, <2>1, OthersKeep DEF ReadCol, tty, Other, Labels
<1>8. CASE WriteRing(w)
  <2>1. UNCHANGED <<row, buffer_row, reg>> /\ Goto(w, "advance")
    BY <1>8 DEF WriteRing
  <2> QED  BY <2>1, Goes, OthersKeep DEF Other, Labels
<1>9. CASE Advance(w) \/ CarriageReturn(w)
  <2>1. UNCHANGED <<row, buffer_row>> /\ Return(w)
    BY <1>9 DEF Advance, CarriageReturn
  <2> QED  BY <2>1, Returns, OthersKeep
<1>10. CASE ReadTab(w)
  <2>1. Moves(w, "stop", [reg[w] EXCEPT !.col = col + Tab - (col % Tab)])
    BY <1>10, RegShaped DEF ReadTab, Moves, Goto, IInv, RegistersShape
  <2> QED  BY <1>10, <2>1, OthersKeep DEF ReadTab, tty, Other, Labels
<1>11. CASE TabStop(w)
  <2>1. UNCHANGED <<row, buffer_row>> /\ (Return(w) \/ (Goto(w, "fold") /\ UNCHANGED reg))
    BY <1>11 DEF TabStop
  <2>2. CASE Return(w)
    BY <2>1, <2>2, Returns, OthersKeep
  <2>3. CASE Goto(w, "fold") /\ UNCHANGED reg
    BY <2>1, <2>3, Goes, OthersKeep DEF Other, Labels
  <2> QED  BY <2>1, <2>2, <2>3
<1>12. CASE TabFold(w)
  <2>1. UNCHANGED <<row, buffer_row, reg>> /\ Goto(w, "line_up")
    BY <1>12 DEF TabFold
  <2> QED  BY <2>1, Goes, OthersKeep DEF Other, Labels
<1>13. CASE Wrap(w)
  <2>1. UNCHANGED <<row, buffer_row, reg>> /\ Goto(w, "row")
    BY <1>13 DEF Wrap
  <2> QED  BY <2>1, Goes, OthersKeep DEF Other, Labels
<1> QED  BY <1>1, <1>2, <1>3, <1>4, <1>5, <1>6, <1>7, <1>8, <1>9, <1>10, <1>11, <1>12, <1>13

\* line_up(): the steps that decide where the row and the current line go, and
\* those that store what was decided.
LEMMA LineKeeps ==
    ASSUME IInv, NEW w \in Writers,
           \/ ReadLine(w) \/ WriteLine(w) \/ ClearLine(w) \/ TestHeight(w) \/ RowDown(w)
           \/ StartScroll(w) \/ CopyLine(w) \/ EndCopy(w) \/ ClearLast(w)
    PROVE  IInv'
<1>0. Height \in Nat \ {0} /\ BufferHeight \in Nat \ {0}
  BY ConsoleAssumption
<1>1. CASE ReadLine(w)
  <2> DEFINE line == (buffer_row + 1) % BufferHeight
  <2>1. line \in 0 .. (BufferHeight - 1)
    BY <1>0 DEF IInv, RowOnScreen
  <2> HIDE DEF line
  <2>2. Moves(w, "line", [reg[w] EXCEPT !.line = line])
    BY <1>1, RegShaped DEF ReadLine, Moves, Goto, IInv, RegistersShape, line
  <2>3. [reg[w] EXCEPT !.line = line].line = line
    BY RegShaped
  <2>4. RowOnScreen'
    BY <1>1 DEF ReadLine, tty, IInv, RowOnScreen
  <2> QED  BY <2>1, <2>2, <2>3, <2>4, MovesKeep
<1>2. CASE WriteLine(w)
  <2>1. UNCHANGED <<row, reg>> /\ Goto(w, "clear") /\ buffer_row' = reg[w].line
    BY <1>2 DEF WriteLine
  <2>2. RowOnScreen'
    BY <1>2, <2>1 DEF WriteLine, IInv, RowOnScreen, Carried
  <2>3. Moves(w, "clear", reg[w])
    BY <2>1, Goes
  <2> QED  BY <2>2, <2>3, MovesKeep
<1>3. CASE ClearLine(w)
  <2>1. UNCHANGED <<row, buffer_row, reg>> /\ Goto(w, "height")
    BY <1>3 DEF ClearLine
  <2> QED  BY <2>1, Goes, OthersKeep DEF Other, Labels
<1>4. CASE TestHeight(w)
  <2> DEFINE label == IF row < Height - 1 THEN "down" ELSE "scroll"
  <2>1. Moves(w, label, [reg[w] EXCEPT !.row = row])
    BY <1>4, RegShaped DEF TestHeight, Moves, Goto, IInv, RegistersShape
  <2>2. RowOnScreen'
    BY <1>4 DEF TestHeight, tty, IInv, RowOnScreen
  <2>3. label = "down" => row \in 0 .. (Height - 2)
    BY <1>0 DEF IInv, RowOnScreen
  <2>4. label # "line" /\ [reg[w] EXCEPT !.row = row].row = row
    BY RegShaped
  <2> HIDE DEF label
  <2> QED  BY <2>1, <2>2, <2>3, <2>4, MovesKeep
<1>5. CASE RowDown(w)
  <2>1. row' = reg[w].row + 1 /\ UNCHANGED buffer_row /\ LineDone(w)
    BY <1>5 DEF RowDown, Lower
  <2>2. reg[w].row \in 0 .. (Height - 2)
    BY <1>5 DEF RowDown, IInv, Carried
  <2>3. RowOnScreen'
    BY <1>0, <2>1, <2>2 DEF IInv, RowOnScreen
  <2>4. PICK label \in Other : \E r : Moves(w, label, r)
    BY <2>1, LineEnds
  <2>5. label # "down" /\ label # "line"
    BY DEF Other
  <2> QED  BY <2>3, <2>4, <2>5, MovesKeep
<1>6. CASE StartScroll(w)
  <2>1. Moves(w, "copy", [reg[w] EXCEPT !.line = StartLine, !.row = 0])
    BY <1>6, RegShaped DEF StartScroll, Moves, Goto
  <2> QED  BY <1>6, <2>1, OthersKeep DEF StartScroll, tty, Other, Labels
<1>7. CASE CopyLine(w)
  <2> DEFINE next == (reg[w].line + 1) % BufferHeight
             down == reg[w].row + 1
  <2>1. /\ reg' = [reg EXCEPT ![w] = [reg[w] EXCEPT !.line = next, !.row = down]]
        /\ pc[w] = "copy" /\ UNCHANGED <<row, buffer_row, pc>>
    BY <1>7 DEF CopyLine, IInv, RegistersShape
  <2> HIDE DEF next, down
  <2>2. pc' = [pc EXCEPT ![w] = "copy"]
    BY <2>1 DEF IInv, RegistersShape
  <2>3. Moves(w, "copy", [reg[w] EXCEPT !.line = next, !.row = down])
    BY <2>1, <2>2, RegShaped DEF Moves
  <2> QED  BY <2>1, <2>3, OthersKeep DEF Other, Labels
<1>8. CASE EndCopy(w)
  <2>1. UNCHANGED <<row, buffer_row, reg>> /\ Goto(w, "last")
    BY <1>8 DEF EndCopy, tty
  <2> QED  BY <2>1, Goes, OthersKeep DEF Other, Labels
<1>9. CASE ClearLast(w)
  <2>1. UNCHANGED <<row, buffer_row>> /\ LineDone(w)
    BY <1>9 DEF ClearLast
  <2> QED  BY <2>1, LineEnds, OthersKeep
<1> QED  BY <1>1, <1>2, <1>3, <1>4, <1>5, <1>6, <1>7, <1>8, <1>9
-----------------------------------------------------------------------------
\* The invariant of the writers' registers, for every number of writers.
THEOREM Invariance == Spec => []IInv
<1>1. Init => IInv
  <2> SUFFICES ASSUME Init PROVE IInv
    OBVIOUS
  <2>0. Height \in Nat \ {0} /\ BufferHeight \in Nat \ {0}
    BY ConsoleAssumption
  <2>1. /\ pc = [w \in Writers |-> "idle"] /\ reg = [w \in Writers |-> Registers]
        /\ row = 0 /\ buffer_row = 1 % BufferHeight
    BY DEF Init
  <2>2. RegistersShape /\ Carried
    BY <2>1 DEF RegistersShape, Registers, Carried
  <2>3. RowOnScreen
    BY <2>0, <2>1 DEF RowOnScreen
  <2> QED  BY <2>2, <2>3 DEF IInv
<1>2. IInv /\ [Next]_vars => IInv'
  <2> SUFFICES ASSUME IInv, [Next]_vars PROVE IInv'
    OBVIOUS
  <2>1. CASE Next
    BY <2>1, PutKeeps, LineKeeps DEF Next, Step
  <2>2. CASE UNCHANGED vars
    <3>1. UNCHANGED <<pc, reg, row, buffer_row>>
      BY <2>2 DEF vars, tty
    <3> QED  BY <3>1 DEF IInv, RegistersShape, RowOnScreen, Carried
  <2> QED  BY <2>1, <2>2
<1> QED  BY <1>1, <1>2, PTL DEF Spec

\* However many threads are inside line_up() at once, each storing a row it
\* read and tested earlier, the row stays on the screen and the current line
\* inside the ring.
THEOREM RowCorrect == Spec => []RowOnScreen
<1>1. IInv => RowOnScreen
  BY DEF IInv
<1> QED  BY <1>1, Invariance, PTL
-----------------------------------------------------------------------------
(***************************************************************************)
(* What the screen shows.  As long as characters were printed one at a     *)
(* time, at most one writer is inside tty_putchar(), and its place says    *)
(* how much of its character has reached the ring of lines and the screen. *)
(***************************************************************************)
Columns == 0 .. (Width - 1)
Rows    == 0 .. (Height - 1)
Ring    == 0 .. (BufferHeight - 1)

\* Lines of characters of S, a sheet of them, and the arrays that hold them.
Lines(S)    == Seq([Columns -> S]) \ {<<>>}
Sheets(S)   == [lines : Lines(S), col : 0 .. Width]
Buffers(S)  == [0 .. (BufferHeight * Width - 1) -> S]
Screens(S)  == [0 .. (Height * Width - 1) -> S]

\* A cell of a flat array, and a line some way up the ring.
Cell(array, r, k) == array[r * Width + k]
Above(line, j)    == (line - j) % BufferHeight

\* How many of the lines are on the screen, and the row of the last one.
Shown(lines)  == IF Len(lines) > Height THEN Height ELSE Len(lines)
Bottom(lines) == Shown(lines) - 1

Below(lines) == Append(lines, EmptyLine)

\* The ring holds the last lines, those below the last one excepted.
OnRing(lines, line, array, least) ==
    \A j \in least .. Bottom(lines), k \in Columns :
        Cell(array, Above(line, j), k) = lines[Len(lines) - j][k]

\* The screen shows the last lines and is blank below them.
OnScreen(lines, array) ==
    \A q \in Rows, k \in Columns :
        Cell(array, q, k) = IF q <= Bottom(lines) THEN lines[Len(lines) - Bottom(lines) + q][k]
                                                  ELSE Blank

\* The first n lines have been copied to a screen that is full.
Copied(lines, array, n) ==
    \A q \in 0 .. (n - 1), k \in Columns :
        Cell(array, q, k) = lines[Len(lines) - Height + 1 + q][k]

Shows(lines) ==
    /\ row = Bottom(lines)
    /\ OnRing(lines, buffer_row, buffer, 0)
    /\ OnScreen(lines, screen)

\* Between the new line of the ring and the new line of the screen.
Between(lines, least) ==
    /\ row = Bottom(lines)
    /\ OnRing(Below(lines), buffer_row, buffer, least)

Ordinary(c) == c \notin {"\n", "\r", "\t", Wide, Control}

\* The sheet on which an ordinary character is put, and the character put.
Page(s)   == IF s.col = Width THEN [lines |-> Below(s.lines), col |-> 0] ELSE s
Put(p, c) == [lines |-> [p.lines EXCEPT ![Len(p.lines)][p.col] = c], col |-> p.col + 1]
Stop(s)   == (s.col \div Tab + 1) * Tab

Lifting == {"line_up", "line", "clear", "height", "down", "scroll", "copy", "last"}

\* The character that writer w prints on the sheet s belongs where w is.
Kind(w, s) ==
    LET c == reg[w].ch IN
    /\ pc[w] \in {"put_char", "row", "video", "col", "ring", "advance", "wrap"} => Ordinary(c)
    /\ pc[w] \in {"tab", "stop", "fold"} => c = "\t"
    /\ pc[w] = "return" => c \in {"\n", "\r"}
    /\ pc[w] = "fold" => Stop(s) >= Width
    /\ pc[w] \in Lifting => \/ c = "\n"
                            \/ c = "\t" /\ Stop(s) >= Width /\ col = Stop(s) % Width
                            \/ Ordinary(c) /\ s.col = Width

\* What the ring, the screen and the registers of w hold of s and of the
\* character.
Begun(w, s) ==
    /\ pc[w] \in {"putchar", "put_char", "tab"} => Shows(s.lines) /\ col = s.col
    /\ pc[w] \in {"stop", "fold"} => Shows(s.lines) /\ reg[w].col = Stop(s)

Putting(w, s) ==
    LET p == Page(s)
        q == Put(p, reg[w].ch)
    IN  /\ pc[w] = "wrap" => Shows(Below(s.lines)) /\ s.col = Width
        /\ pc[w] \in {"row", "video"} => Shows(p.lines)
        /\ pc[w] \in {"row", "video", "col", "ring"} => col = p.col /\ p.col < Width
        /\ pc[w] = "video" => reg[w].row = row
        /\ pc[w] \in {"col", "ring"} => /\ row = Bottom(p.lines)
                                        /\ OnRing(p.lines, buffer_row, buffer, 0)
                                        /\ OnScreen(q.lines, screen)
        /\ pc[w] = "ring" => reg[w].col = col
        /\ pc[w] = "advance" => Shows(q.lines) /\ reg[w].col + 1 = q.col

Lifted(w, s) ==
    LET lines == s.lines IN
    /\ pc[w] \in {"line_up", "line"} => Shows(lines)
    /\ pc[w] = "line" => reg[w].line = (buffer_row + 1) % BufferHeight
    /\ pc[w] = "clear" => Between(lines, 1) /\ OnScreen(lines, screen) /\ reg[w].line = buffer_row
    /\ pc[w] \in {"height", "down", "scroll"} => Between(lines, 0) /\ OnScreen(lines, screen)
    /\ pc[w] = "down" => row < Height - 1 /\ reg[w].row = row
    /\ pc[w] \in {"scroll", "copy", "last"} => row = Height - 1
    /\ pc[w] \in {"copy", "last"} => Between(lines, 0) /\ Copied(Below(lines), screen, reg[w].row)
    /\ pc[w] = "copy" => /\ reg[w].row \in Rows
                         /\ reg[w].line = Above(buffer_row, Height - 1 - reg[w].row)
    /\ pc[w] = "last" => reg[w].row = Height - 1

Returning(w, s) ==
    pc[w] = "return" => Shows(IF reg[w].ch = "\n" THEN Below(s.lines) ELSE s.lines)

At(w, s) == Kind(w, s) /\ Begun(w, s) /\ Putting(w, s) /\ Lifted(w, s) /\ Returning(w, s)

\* The characters so far are of S.
Held(S) ==
    /\ Blank \in S /\ log \in Seq(S) /\ Typed(log) \in Sheets(S)
    /\ buffer \in Buffers(S) /\ screen \in Screens(S)

\* Nobody is inside tty_putchar(), or writer w alone with the last character,
\* which it prints on the sheet s.
Idle == Inside = {} /\ Shows(Typed(log).lines) /\ col = Typed(log).col

Writing(w, S, s) ==
    /\ Inside = {w} /\ s \in Sheets(S)
    /\ reg[w].ch \in S /\ Typed(log) = Type(s, reg[w].ch)
    /\ At(w, s)

SheetInv ==
    sound => \E S : Held(S) /\ (Idle \/ \E w \in Writers : \E s : Writing(w, S, s))
-----------------------------------------------------------------------------
(***************************************************************************)
(* Arithmetic: the cells of a flat array and the lines of the ring         *)
(***************************************************************************)
LEMMA Sizes ==
    /\ Width \in Nat /\ Width >= 1 /\ Height \in Nat /\ Height >= 1
    /\ BufferHeight \in Nat /\ Height <= BufferHeight /\ BufferHeight >= 1
    /\ Tab \in Nat /\ Tab >= 1 /\ Tab < Width
<1>1. Width \in Nat \ {0} /\ Height \in Nat \ {0} /\ BufferHeight \in Nat /\ Height <= BufferHeight
      /\ Tab \in 1 .. (Width - 1)
  BY ConsoleAssumption
<1> QED  BY <1>1

\* One product at a time.
LEMMA Multiples ==
    ASSUME NEW w \in Nat, w >= 1, NEW a \in Nat, NEW b \in Nat
    PROVE  a * w \in Nat /\ b * w \in Nat /\ (a < b => a * w + w <= b * w)
OBVIOUS

LEMMA Remainder ==
    ASSUME NEW w \in Nat, w >= 1, NEW a \in Nat, NEW k \in 0 .. (w - 1)
    PROVE  (a * w + k) % w = k
OBVIOUS

\* A cell of an array of n lines belongs to one line and one column.
LEMMA CellIndex ==
    ASSUME NEW r \in Nat, NEW q \in Nat, NEW k \in Columns, NEW m \in Columns
    PROVE  /\ (q * Width + m) % Width = m
           /\ q * Width + m \in Cells(r) <=> q = r
           /\ q * Width + m = r * Width + k <=> (q = r /\ m = k)
<1> DEFINE a == r * Width
           b == q * Width
<1>1. /\ Width \in Nat /\ Width >= 1 /\ k \in 0 .. (Width - 1) /\ m \in 0 .. (Width - 1)
  BY Sizes DEF Columns
<1>2. a \in Nat /\ b \in Nat /\ (r < q => a + Width <= b) /\ (q < r => b + Width <= a)
  BY <1>1, Multiples
<1>3. (b + m) % Width = m
  BY <1>1, Remainder
<1>4. q = r => a = b
  OBVIOUS
<1> HIDE DEF a, b
<1>5. b + m \in a .. (a + Width - 1) <=> q = r
  BY <1>1, <1>2, <1>4
<1>6. b + m = a + k <=> (q = r /\ m = k)
  BY <1>1, <1>2, <1>4
<1> QED  BY <1>3, <1>5, <1>6 DEF a, b, Cells

LEMMA CellWithin ==
    ASSUME NEW n \in Nat, NEW r \in 0 .. (n - 1), NEW k \in Columns
    PROVE  r * Width + k \in 0 .. (n * Width - 1)
<1>1. Width \in Nat /\ Width >= 1 /\ k \in 0 .. (Width - 1)
  BY Sizes DEF Columns
<1>2. r \in Nat /\ r < n
  OBVIOUS
<1>3. r * Width \in Nat /\ n * Width \in Nat /\ r * Width + Width <= n * Width
  BY <1>1, <1>2, Multiples
<1> QED  BY <1>1, <1>3

\* A remainder near the modulus.
LEMMA NearModulus ==
    ASSUME NEW b \in Nat, b >= 1, NEW x \in Int, -b <= x, x < b + b
    PROVE  x % b = IF x < 0 THEN x + b ELSE IF x < b THEN x ELSE x - b
OBVIOUS

\* The lines above a line of the ring, also of the next one.
LEMMA RingFacts ==
    ASSUME NEW line \in Ring, NEW j \in 0 .. BufferHeight
    PROVE  /\ Above(line, j) = IF j <= line THEN line - j ELSE line - j + BufferHeight
           /\ j < BufferHeight => Above(line, j) \in Ring
           /\ j < BufferHeight => (Above(line, j) = line <=> j = 0)
<1>1. /\ BufferHeight \in Nat /\ BufferHeight >= 1 /\ line \in 0 .. (BufferHeight - 1)
      /\ j \in 0 .. BufferHeight
  BY Sizes DEF Ring
<1>2. (line - j) % BufferHeight = IF j <= line THEN line - j ELSE line - j + BufferHeight
  <2>1. line - j \in Int /\ -BufferHeight <= line - j /\ line - j < BufferHeight + BufferHeight
        /\ (line - j < 0 <=> ~ (j <= line)) /\ line - j < BufferHeight
    BY <1>1
  <2> QED  BY <1>1, <2>1, NearModulus
<1>3. Above(line, j) = IF j <= line THEN line - j ELSE line - j + BufferHeight
  BY <1>2 DEF Above
<1> QED  BY <1>1, <1>2, <1>3 DEF Ring, Above

LEMMA NextLine ==
    ASSUME NEW line \in Ring
    PROVE  /\ (line + 1) % BufferHeight = IF line + 1 = BufferHeight THEN 0 ELSE line + 1
           /\ (line + 1) % BufferHeight \in Ring
<1>1. BufferHeight \in Nat /\ BufferHeight >= 1 /\ line \in 0 .. (BufferHeight - 1)
  BY Sizes DEF Ring
<1>2. line + 1 \in Int /\ -BufferHeight <= line + 1 /\ line + 1 < BufferHeight + BufferHeight
  BY <1>1
<1>3. (line + 1) % BufferHeight = IF line + 1 = BufferHeight THEN 0 ELSE line + 1
  <2> DEFINE x == line + 1
             b == BufferHeight
  <2>1. x \in Int /\ b \in Nat /\ b >= 1 /\ -b <= x /\ x < b + b
    BY <1>1, <1>2
  <2>2. 0 <= x /\ x <= b
    BY <1>1
  <2> HIDE DEF x, b
  <2>3. x % b = IF x < 0 THEN x + b ELSE IF x < b THEN x ELSE x - b
    BY <2>1, NearModulus
  <2>4. x % b = IF x = b THEN 0 ELSE x
    BY <2>1, <2>2, <2>3
  <2> QED  BY <2>4 DEF x, b
<1> QED  BY <1>1, <1>3 DEF Ring

LEMMA AboveNext ==
    ASSUME NEW line \in Ring, NEW j \in 1 .. BufferHeight
    PROVE  Above((line + 1) % BufferHeight, j) = Above(line, j - 1)
<1>1. BufferHeight \in Nat /\ BufferHeight >= 1 /\ line \in 0 .. (BufferHeight - 1)
  BY Sizes DEF Ring
<1> DEFINE next == (line + 1) % BufferHeight
<1>2. next \in Ring /\ next = IF line + 1 = BufferHeight THEN 0 ELSE line + 1
  BY NextLine
<1> HIDE DEF next
<1>3. j \in 0 .. BufferHeight /\ j - 1 \in 0 .. BufferHeight
  BY <1>1
<1>4. Above(next, j) = IF j <= next THEN next - j ELSE next - j + BufferHeight
  BY <1>2, <1>3, RingFacts
<1>5. Above(line, j - 1) = IF j - 1 <= line THEN line - (j - 1) ELSE line - (j - 1) + BufferHeight
  BY <1>3, RingFacts
<1>6. Above(next, j) = Above(line, j - 1)
  BY <1>1, <1>2, <1>4, <1>5
<1> QED  BY <1>6 DEF next
-----------------------------------------------------------------------------
(***************************************************************************)
(* What the steps do to a flat array, cell by cell                         *)
(***************************************************************************)
Arrays(n, S) == [0 .. (n * Width - 1) -> S]

LEMMA ArrayCell ==
    ASSUME NEW S, NEW n \in Nat, NEW array \in Arrays(n, S), NEW r \in 0 .. (n - 1), NEW k \in Columns
    PROVE  Cell(array, r, k) \in S
BY CellWithin DEF Arrays, Cell

LEMMA OverwrittenFacts ==
    ASSUME NEW S, NEW n \in Nat, NEW array \in Arrays(n, S), NEW c \in S,
           NEW r \in 0 .. (n - 1), NEW k \in Columns
    PROVE  LET new == Overwritten(array, r * Width + k, c)
           IN  /\ new \in Arrays(n, S)
               /\ \A q \in 0 .. (n - 1), m \in Columns :
                    Cell(new, q, m) = IF q = r /\ m = k THEN c ELSE Cell(array, q, m)
<1> DEFINE i == r * Width + k
           I == 0 .. (n * Width - 1)
           new == [array EXCEPT ![i] = c]
<1>1. i \in I
  BY CellWithin
<1>2. array \in [I -> S]
  BY DEF Arrays
<1>3. Overwritten(array, i, c) = new
  <2> HIDE DEF I, i, new
  <2> QED  BY <1>1, <1>2 DEF Overwritten, new
<1>4. new \in [I -> S] /\ \A j \in I : new[j] = IF j = i THEN c ELSE array[j]
  <2> HIDE DEF I, i
  <2> QED  BY <1>1, <1>2
<1> HIDE DEF new
<1>5. ASSUME NEW q \in 0 .. (n - 1), NEW m \in Columns
      PROVE  Cell(new, q, m) = IF q = r /\ m = k THEN c ELSE Cell(array, q, m)
  <2> DEFINE j == q * Width + m
  <2>1. j \in I
    BY CellWithin
  <2>2. q \in Nat /\ r \in Nat
    OBVIOUS
  <2>3. j = i <=> (q = r /\ m = k)
    BY <2>2, CellIndex
  <2> HIDE DEF I, i, j
  <2>4. new[j] = IF q = r /\ m = k THEN c ELSE array[j]
    BY <1>4, <2>1, <2>3
  <2> QED  BY <2>4 DEF Cell, j
<1> QED  BY <1>3, <1>4, <1>5 DEF Arrays

\* A line is replaced by a function of the column: by blanks, or by a line of
\* another array.
LEMMA LineFacts ==
    ASSUME NEW S, NEW n \in Nat, NEW array \in Arrays(n, S), NEW r \in 0 .. (n - 1),
           NEW line \in [Columns -> S], NEW new,
           new = [i \in DOMAIN array |-> IF i \in Cells(r) THEN line[i % Width] ELSE array[i]]
    PROVE  /\ new \in Arrays(n, S)
           /\ \A q \in 0 .. (n - 1), m \in Columns :
                Cell(new, q, m) = IF q = r THEN line[m] ELSE Cell(array, q, m)
<1> DEFINE I == 0 .. (n * Width - 1)
<1>1. array \in [I -> S] /\ DOMAIN array = I
  BY DEF Arrays
<1>2. \A i \in I : i % Width \in Columns
  <2>1. Width \in Nat /\ Width >= 1
    BY Sizes
  <2>2. \A i \in I : i \in Nat
    OBVIOUS
  <2>3. \A i \in Nat : i % Width \in 0 .. (Width - 1)
    BY <2>1
  <2> QED  BY <2>2, <2>3 DEF Columns
<1>3. new = [i \in I |-> IF i \in Cells(r) THEN line[i % Width] ELSE array[i]]
  BY <1>1
<1>4. new \in [I -> S]
  <2> HIDE DEF I
  <2> QED  BY <1>1, <1>2, <1>3
<1>5. ASSUME NEW q \in 0 .. (n - 1), NEW m \in Columns
      PROVE  Cell(new, q, m) = IF q = r THEN line[m] ELSE Cell(array, q, m)
  <2> DEFINE j == q * Width + m
  <2>1. j \in I
    BY CellWithin
  <2>2. q \in Nat /\ r \in Nat
    OBVIOUS
  <2>3. (j \in Cells(r) <=> q = r) /\ j % Width = m
    BY <2>2, CellIndex
  <2> HIDE DEF I, j
  <2>4. new[j] = IF j \in Cells(r) THEN line[j % Width] ELSE array[j]
    BY <1>3, <2>1
  <2>5. new[j] = IF q = r THEN line[m] ELSE array[j]
    BY <2>3, <2>4
  <2> QED  BY <2>5 DEF Cell, j
<1> QED  BY <1>4, <1>5 DEF Arrays

LEMMA EmptyLineFacts ==
    ASSUME NEW S, Blank \in S
    PROVE  EmptyLine \in [Columns -> S] /\ \A k \in Columns : EmptyLine[k] = Blank
BY DEF EmptyLine, Columns

LEMMA ClearedFacts ==
    ASSUME NEW S, Blank \in S, NEW n \in Nat, NEW array \in Arrays(n, S), NEW r \in 0 .. (n - 1)
    PROVE  /\ Cleared(array, r) \in Arrays(n, S)
           /\ \A q \in 0 .. (n - 1), m \in Columns :
                Cell(Cleared(array, r), q, m) = IF q = r THEN Blank ELSE Cell(array, q, m)
<1>1. EmptyLine \in [Columns -> S] /\ \A k \in Columns : EmptyLine[k] = Blank
  BY EmptyLineFacts
<1>2. \A i \in DOMAIN array : i \in Nat
  BY DEF Arrays
<1>3. \A i \in Nat : i % Width \in Columns
  BY Sizes DEF Columns
<1>4. \A i \in DOMAIN array : EmptyLine[i % Width] = Blank
  BY <1>1, <1>2, <1>3
<1>5. Cleared(array, r)
        = [i \in DOMAIN array |-> IF i \in Cells(r) THEN EmptyLine[i % Width] ELSE array[i]]
  BY <1>4 DEF Cleared
<1> QED  BY <1>1, <1>5, LineFacts
-----------------------------------------------------------------------------
(***************************************************************************)
(* The lines of a sheet                                                    *)
(***************************************************************************)
LEMMA LinesFacts ==
    ASSUME NEW S, NEW lines \in Lines(S)
    PROVE  /\ lines \in Seq([Columns -> S])
           /\ Len(lines) \in Nat /\ Len(lines) >= 1
           /\ \A i \in 1 .. Len(lines) : lines[i] \in [Columns -> S]
           /\ Shown(lines) \in 1 .. Height /\ Shown(lines) <= Len(lines)
           /\ Bottom(lines) \in 0 .. (Height - 1) /\ Bottom(lines) = Shown(lines) - 1
           /\ Bottom(lines) <= BufferHeight - 1
<1>1. lines \in Seq([Columns -> S]) /\ lines # <<>>
  BY DEF Lines
<1>2. Len(lines) \in Nat /\ Len(lines) >= 1
  BY <1>1
<1>3. Height \in Nat /\ Height >= 1 /\ Height <= BufferHeight /\ BufferHeight \in Nat
  BY Sizes
<1>4. \A i \in 1 .. Len(lines) : lines[i] \in [Columns -> S]
  BY <1>1
<1> QED  BY <1>1, <1>2, <1>3, <1>4 DEF Shown, Bottom

LEMMA BelowFacts ==
    ASSUME NEW S, Blank \in S, NEW lines \in Lines(S)
    PROVE  LET new == Below(lines)
           IN  /\ new \in Lines(S) /\ Len(new) = Len(lines) + 1
               /\ \A i \in 1 .. Len(lines) : new[i] = lines[i]
               /\ new[Len(new)] = EmptyLine
               /\ Bottom(new) = IF Len(lines) < Height THEN Bottom(lines) + 1 ELSE Height - 1
               /\ Len(lines) < Height <=> Bottom(lines) < Height - 1
<1> DEFINE L == [Columns -> S]
           new == Below(lines)
           n == Len(lines)
<1>1. lines \in Seq(L) /\ n \in Nat /\ n >= 1
  BY LinesFacts
<1>2. EmptyLine \in L
  BY EmptyLineFacts
<1> HIDE DEF L
<1>3. new \in Seq(L) /\ Len(new) = n + 1 /\ (\A i \in 1 .. n : new[i] = lines[i]) /\ new[n + 1] = EmptyLine
  BY <1>1, <1>2 DEF Below
<1>4. new # <<>>
  BY <1>1, <1>3
<1>5. new \in Lines(S)
  BY <1>3, <1>4 DEF Lines, L
<1>6. Height \in Nat /\ Height >= 1
  BY Sizes
<1>7. /\ Bottom(new) = IF n < Height THEN Bottom(lines) + 1 ELSE Height - 1
      /\ n < Height <=> Bottom(lines) < Height - 1
  <2>1. Bottom(new) = (IF n + 1 > Height THEN Height ELSE n + 1) - 1
    BY <1>3 DEF Bottom, Shown
  <2>2. Bottom(lines) = (IF n > Height THEN Height ELSE n) - 1
    BY DEF Bottom, Shown
  <2> HIDE DEF new, n
  <2> QED  BY <1>1, <1>6, <2>1, <2>2
<1> QED  BY <1>3, <1>5, <1>7

LEMMA PutFacts ==
    ASSUME NEW S, NEW p \in Sheets(S), NEW c \in S, p.col < Width
    PROVE  LET new == Put(p, c).lines
               n == Len(p.lines)
           IN  /\ new \in Lines(S) /\ Len(new) = n /\ Bottom(new) = Bottom(p.lines)
               /\ Put(p, c).col = p.col + 1 /\ Put(p, c) \in Sheets(S)
               /\ \A i \in 1 .. n, k \in Columns :
                    new[i][k] = IF i = n /\ k = p.col THEN c ELSE p.lines[i][k]
<1> DEFINE L == [Columns -> S]
           lines == p.lines
           n == Len(lines)
           line == [lines[n] EXCEPT ![p.col] = c]
           new == Put(p, c).lines
<1>1. lines \in Lines(S) /\ p.col \in 0 .. Width /\ p.col \in Columns
  <2>1. p.lines \in Lines(S) /\ p.col \in 0 .. Width
    BY DEF Sheets
  <2> QED  BY <2>1, Sizes DEF Columns
<1>2. lines \in Seq(L) /\ n \in Nat /\ n >= 1 /\ (\A i \in 1 .. n : lines[i] \in L) /\ n \in 1 .. n
  <2> HIDE DEF lines
  <2>1. lines \in Seq(L) /\ n \in Nat /\ n >= 1 /\ \A i \in 1 .. n : lines[i] \in L
    BY <1>1, LinesFacts
  <2>2. n \in 1 .. n
    <3> HIDE DEF n
    <3> QED  BY <2>1
  <2> QED  BY <2>1, <2>2
<1>3. line \in L /\ \A k \in Columns : line[k] = IF k = p.col THEN c ELSE lines[n][k]
  <2>1. lines[n] \in L
    BY <1>2
  <2> QED  BY <1>1, <2>1
<1>4. new = [lines EXCEPT ![n] = line]
  BY DEF Put
<1> HIDE DEF L, line, lines
<1>5. new \in Seq(L) /\ Len(new) = n /\ \A i \in 1 .. n : new[i] = IF i = n THEN line ELSE lines[i]
  BY <1>2, <1>3, <1>4
<1> HIDE DEF new, n
<1>6. new # <<>>
  BY <1>2, <1>5
<1>7. new \in Lines(S)
  BY <1>5, <1>6 DEF Lines, L
<1>8. Bottom(new) = Bottom(lines)
  BY <1>5 DEF Bottom, Shown, n
<1>9. \A i \in 1 .. n, k \in Columns : new[i][k] = IF i = n /\ k = p.col THEN c ELSE lines[i][k]
  BY <1>3, <1>5
<1>10. Put(p, c) = [lines |-> new, col |-> p.col + 1]
  BY DEF Put, new
<1>11. p.col + 1 \in 0 .. Width
  BY <1>1, Sizes
<1>12. Put(p, c).col = p.col + 1 /\ Put(p, c) \in Sheets(S)
  BY <1>7, <1>10, <1>11 DEF Sheets
<1> QED  BY <1>5, <1>7, <1>8, <1>9, <1>12 DEF new, lines, n
-----------------------------------------------------------------------------
(***************************************************************************)
(* What each step of put_char() and line_up() does to the ring and to the  *)
(* screen                                                                  *)
(***************************************************************************)
\* WriteVideo: the character appears at the end of the last line on the screen.
LEMMA ScreenPut ==
    ASSUME NEW S, NEW p \in Sheets(S), NEW c \in S, p.col < Width, NEW array \in Screens(S),
           OnScreen(p.lines, array)
    PROVE  LET new == Overwritten(array, Bottom(p.lines) * Width + p.col, c)
           IN  new \in Screens(S) /\ OnScreen(Put(p, c).lines, new)
<1> DEFINE r == Bottom(p.lines)
           new == Overwritten(array, r * Width + p.col, c)
           put == Put(p, c).lines
           n == Len(p.lines)
<1>1. p.lines \in Lines(S) /\ p.col \in Columns
  <2>1. p.lines \in Lines(S) /\ p.col \in 0 .. Width
    BY DEF Sheets
  <2> QED  BY <2>1, Sizes DEF Columns
<1>2. Height \in Nat /\ r \in 0 .. (Height - 1) /\ n \in Nat /\ n >= 1 /\ r <= n - 1
  <2>1. Height \in Nat
    BY Sizes
  <2>2. /\ n \in Nat /\ n >= 1 /\ Shown(p.lines) <= n /\ Shown(p.lines) \in 1 .. Height
        /\ r \in 0 .. (Height - 1) /\ r = Shown(p.lines) - 1
    BY <1>1, LinesFacts
  <2> HIDE DEF r, n
  <2> QED  BY <2>1, <2>2
<1>3. /\ Len(put) = n /\ Bottom(put) = r
      /\ \A i \in 1 .. n, k \in Columns : put[i][k] = IF i = n /\ k = p.col THEN c ELSE p.lines[i][k]
  BY PutFacts
<1> HIDE DEF r, n
<1>4. /\ new \in Screens(S)
      /\ \A q \in Rows, m \in Columns :
            Cell(new, q, m) = IF q = r /\ m = p.col THEN c ELSE Cell(array, q, m)
  <2>1. array \in Arrays(Height, S)
    BY DEF Screens, Arrays
  <2>2. /\ new \in Arrays(Height, S)
        /\ \A q \in 0 .. (Height - 1), m \in Columns :
              Cell(new, q, m) = IF q = r /\ m = p.col THEN c ELSE Cell(array, q, m)
    BY <1>1, <1>2, <2>1, OverwrittenFacts
  <2> QED  BY <2>2 DEF Screens, Arrays, Rows
<1> HIDE DEF new, put
<1>5. ASSUME NEW q \in Rows, NEW k \in Columns
      PROVE  Cell(new, q, k) = IF q <= Bottom(put) THEN put[Len(put) - Bottom(put) + q][k] ELSE Blank
  <2>1. q \in 0 .. (Height - 1)
    BY DEF Rows
  <2>2. Cell(array, q, k) = IF q <= r THEN p.lines[n - r + q][k] ELSE Blank
    BY DEF OnScreen, r, n
  <2>3. CASE q <= r
    <3>1. n - r + q \in 1 .. n /\ (n - r + q = n <=> q = r)
      BY <1>2, <2>1, <2>3
    <3>2. put[n - r + q][k] = IF q = r /\ k = p.col THEN c ELSE p.lines[n - r + q][k]
      BY <1>3, <3>1
    <3> QED  BY <1>3, <1>4, <2>2, <2>3, <3>2
  <2>4. CASE ~ (q <= r)
    <3>1. q # r
      BY <1>2, <2>1, <2>4
    <3> QED  BY <1>3, <1>4, <2>2, <2>4, <3>1
  <2> QED  BY <2>3, <2>4
<1>6. OnScreen(put, new)
  BY <1>5 DEF OnScreen
<1> QED  BY <1>4, <1>6 DEF new, put, r

\* WriteRing: and at the end of the current line of the ring.
LEMMA RingPut ==
    ASSUME NEW S, NEW p \in Sheets(S), NEW c \in S, p.col < Width, NEW array \in Buffers(S),
           NEW line \in Ring, OnRing(p.lines, line, array, 0)
    PROVE  LET new == Overwritten(array, line * Width + p.col, c)
           IN  new \in Buffers(S) /\ OnRing(Put(p, c).lines, line, new, 0)
<1> DEFINE r == Bottom(p.lines)
           new == Overwritten(array, line * Width + p.col, c)
           put == Put(p, c).lines
           n == Len(p.lines)
<1>1. p.lines \in Lines(S) /\ p.col \in Columns
  <2>1. p.lines \in Lines(S) /\ p.col \in 0 .. Width
    BY DEF Sheets
  <2> QED  BY <2>1, Sizes DEF Columns
<1>2. /\ BufferHeight \in Nat /\ line \in 0 .. (BufferHeight - 1)
      /\ r \in Nat /\ n \in Nat /\ n >= 1 /\ r <= n - 1 /\ r <= BufferHeight - 1
  <2>1. Height \in Nat /\ BufferHeight \in Nat /\ line \in 0 .. (BufferHeight - 1)
    BY Sizes DEF Ring
  <2>2. /\ n \in Nat /\ n >= 1 /\ Shown(p.lines) <= n /\ Shown(p.lines) \in 1 .. Height
        /\ r \in 0 .. (Height - 1) /\ r = Shown(p.lines) - 1 /\ r <= BufferHeight - 1
    BY <1>1, LinesFacts
  <2> HIDE DEF r, n
  <2> QED  BY <2>1, <2>2
<1>3. /\ Len(put) = n /\ Bottom(put) = r
      /\ \A i \in 1 .. n, k \in Columns : put[i][k] = IF i = n /\ k = p.col THEN c ELSE p.lines[i][k]
  BY PutFacts
<1> HIDE DEF r, n
<1>4. /\ new \in Buffers(S)
      /\ \A q \in Ring, m \in Columns :
            Cell(new, q, m) = IF q = line /\ m = p.col THEN c ELSE Cell(array, q, m)
  <2>1. array \in Arrays(BufferHeight, S)
    BY DEF Buffers, Arrays
  <2>2. /\ new \in Arrays(BufferHeight, S)
        /\ \A q \in 0 .. (BufferHeight - 1), m \in Columns :
              Cell(new, q, m) = IF q = line /\ m = p.col THEN c ELSE Cell(array, q, m)
    BY <1>1, <1>2, <2>1, OverwrittenFacts
  <2> QED  BY <2>2 DEF Buffers, Arrays, Ring
<1> HIDE DEF new, put
<1>5. ASSUME NEW j \in 0 .. Bottom(put), NEW k \in Columns
      PROVE  Cell(new, Above(line, j), k) = put[Len(put) - j][k]
  <2>1. j \in 0 .. r /\ j \in Nat
    BY <1>2, <1>3
  <2>2. j \in 0 .. BufferHeight /\ j < BufferHeight
    BY <1>2, <2>1
  <2>3. Above(line, j) \in Ring /\ (Above(line, j) = line <=> j = 0)
    BY <2>2, RingFacts
  <2>4. Cell(array, Above(line, j), k) = p.lines[n - j][k]
    BY <2>1 DEF OnRing, r, n
  <2>5. n - j \in 1 .. n /\ (n - j = n <=> j = 0)
    BY <1>2, <2>1
  <2>6. put[n - j][k] = IF j = 0 /\ k = p.col THEN c ELSE p.lines[n - j][k]
    BY <1>3, <2>5
  <2>7. Cell(new, Above(line, j), k) = IF j = 0 /\ k = p.col THEN c ELSE Cell(array, Above(line, j), k)
    BY <1>4, <2>3
  <2> QED  BY <1>3, <2>4, <2>6, <2>7
<1>6. OnRing(put, line, new, 0)
  BY <1>5 DEF OnRing
<1> QED  BY <1>4, <1>6 DEF new, put

\* WriteLine: one line further on the ring, all lines but the new one are there.
LEMMA RingNext ==
    ASSUME NEW S, Blank \in S, NEW lines \in Lines(S), NEW line \in Ring, NEW array,
           OnRing(lines, line, array, 0)
    PROVE  OnRing(Below(lines), (line + 1) % BufferHeight, array, 1)
<1> DEFINE new == Below(lines)
           next == (line + 1) % BufferHeight
           n == Len(lines)
           r == Bottom(lines)
<1>1. /\ Len(new) = n + 1 /\ \A i \in 1 .. n : new[i] = lines[i]
      /\ Bottom(new) = (IF n < Height THEN r + 1 ELSE Height - 1)
      /\ (n < Height <=> r < Height - 1)
  BY BelowFacts
<1>2. /\ n \in Nat /\ r \in 0 .. (Height - 1) /\ r <= n - 1 /\ r <= BufferHeight - 1
      /\ Height \in Nat /\ BufferHeight \in Nat
  <2>1. Height \in Nat /\ BufferHeight \in Nat
    BY Sizes
  <2>2. /\ n \in Nat /\ Shown(lines) <= n /\ Shown(lines) \in 1 .. Height
        /\ r \in 0 .. (Height - 1) /\ r = Shown(lines) - 1 /\ r <= BufferHeight - 1
    BY LinesFacts
  <2> HIDE DEF r, n
  <2> QED  BY <2>1, <2>2
<1> HIDE DEF new, n, r, next
<1>3. Bottom(new) <= r + 1
  BY <1>1, <1>2
<1>4. ASSUME NEW j \in 1 .. Bottom(new), NEW k \in Columns
      PROVE  Cell(array, Above(next, j), k) = new[Len(new) - j][k]
  <2>1. j - 1 \in 0 .. r /\ j \in 1 .. BufferHeight
    BY <1>1, <1>2, <1>3
  <2>2. Above(next, j) = Above(line, j - 1)
    BY <2>1, AboveNext DEF next
  <2>3. Cell(array, Above(line, j - 1), k) = lines[n - (j - 1)][k]
    BY <2>1 DEF OnRing, r, n
  <2>4. n - (j - 1) \in 1 .. n /\ Len(new) - j = n - (j - 1)
    BY <1>1, <1>2, <2>1
  <2>5. new[n - (j - 1)] = lines[n - (j - 1)]
    BY <1>1, <2>4
  <2> QED  BY <2>2, <2>3, <2>4, <2>5
<1>5. OnRing(new, next, array, 1)
  BY <1>4 DEF OnRing
<1> QED  BY <1>5 DEF new, next

\* ClearLine: and the new one is blank.
LEMMA RingCleared ==
    ASSUME NEW S, Blank \in S, NEW lines \in Lines(S), NEW line \in Ring, NEW array \in Buffers(S),
           OnRing(Below(lines), line, array, 1)
    PROVE  /\ Cleared(array, line) \in Buffers(S)
           /\ OnRing(Below(lines), line, Cleared(array, line), 0)
<1> DEFINE below == Below(lines)
           new == Cleared(array, line)
<1>1. below \in Lines(S) /\ below[Len(below)] = EmptyLine
  BY BelowFacts
<1>2. BufferHeight \in Nat /\ line \in 0 .. (BufferHeight - 1)
  BY Sizes DEF Ring
<1>3. /\ new \in Buffers(S)
      /\ \A q \in Ring, m \in Columns : Cell(new, q, m) = IF q = line THEN Blank ELSE Cell(array, q, m)
  <2>1. array \in Arrays(BufferHeight, S)
    BY DEF Buffers, Arrays
  <2>2. /\ new \in Arrays(BufferHeight, S)
        /\ \A q \in 0 .. (BufferHeight - 1), m \in Columns :
              Cell(new, q, m) = IF q = line THEN Blank ELSE Cell(array, q, m)
    BY <1>2, <2>1, ClearedFacts
  <2> QED  BY <2>2 DEF Buffers, Arrays, Ring
<1>4. Bottom(below) \in Nat /\ Bottom(below) <= BufferHeight - 1 /\ Len(below) \in Nat
  <2>1. Height \in Nat
    BY Sizes
  <2>2. Bottom(below) \in 0 .. (Height - 1) /\ Bottom(below) <= BufferHeight - 1 /\ Len(below) \in Nat
    BY <1>1, LinesFacts
  <2> HIDE DEF below
  <2> QED  BY <2>1, <2>2
<1> HIDE DEF below, new
<1>5. ASSUME NEW j \in 0 .. Bottom(below), NEW k \in Columns
      PROVE  Cell(new, Above(line, j), k) = below[Len(below) - j][k]
  <2>1. j \in 0 .. BufferHeight /\ j < BufferHeight
    BY <1>2, <1>4
  <2>2. Above(line, j) \in Ring /\ (Above(line, j) = line <=> j = 0)
    BY <2>1, RingFacts
  <2>3. CASE j = 0
    <3>1. Len(below) - j = Len(below)
      BY <1>4, <2>3
    <3>2. EmptyLine[k] = Blank
      BY EmptyLineFacts
    <3> QED  BY <1>1, <1>3, <2>2, <2>3, <3>1, <3>2
  <2>4. CASE j # 0
    <3>1. j \in 1 .. Bottom(below)
      BY <1>4, <2>4
    <3>2. Cell(array, Above(line, j), k) = below[Len(below) - j][k]
      BY <3>1 DEF OnRing, below
    <3> QED  BY <1>3, <2>2, <2>4, <3>2
  <2> QED  BY <2>3, <2>4
<1>6. OnRing(below, line, new, 0)
  BY <1>5 DEF OnRing
<1> QED  BY <1>3, <1>6 DEF below, new

\* RowDown: a screen that is not full shows the new line already.
LEMMA ScreenDown ==
    ASSUME NEW S, Blank \in S, NEW lines \in Lines(S), NEW array, OnScreen(lines, array),
           Bottom(lines) < Height - 1
    PROVE  OnScreen(Below(lines), array) /\ Bottom(Below(lines)) = Bottom(lines) + 1
<1> DEFINE new == Below(lines)
           n == Len(lines)
           r == Bottom(lines)
<1>1. /\ Len(new) = n + 1 /\ (\A i \in 1 .. n : new[i] = lines[i]) /\ new[Len(new)] = EmptyLine
      /\ Bottom(new) = r + 1
  BY BelowFacts
<1>2. n \in Nat /\ r = n - 1 /\ Height \in Nat /\ n >= 1
  <2>1. Height \in Nat
    BY Sizes
  <2>2. n \in Nat /\ n >= 1
    BY LinesFacts
  <2>3. r = (IF n > Height THEN Height ELSE n) - 1 /\ r < Height - 1
    BY DEF Bottom, Shown
  <2> HIDE DEF n, r
  <2> QED  BY <2>1, <2>2, <2>3
<1> HIDE DEF new, n, r
<1>3. ASSUME NEW q \in Rows, NEW k \in Columns
      PROVE  Cell(array, q, k) = IF q <= Bottom(new) THEN new[Len(new) - Bottom(new) + q][k] ELSE Blank
  <2>1. q \in 0 .. (Height - 1)
    BY DEF Rows
  <2>2. Cell(array, q, k) = IF q <= r THEN lines[n - r + q][k] ELSE Blank
    BY DEF OnScreen, r, n
  <2>3. Len(new) - Bottom(new) + q = q + 1 /\ n - r + q = q + 1
    BY <1>1, <1>2, <2>1
  <2>4. CASE q <= r
    <3>1. q + 1 \in 1 .. n /\ q <= Bottom(new)
      BY <1>1, <1>2, <2>1, <2>4
    <3> QED  BY <1>1, <2>2, <2>3, <2>4, <3>1
  <2>5. CASE q = r + 1
    <3>1. q + 1 = Len(new) /\ q <= Bottom(new) /\ ~ (q <= r)
      BY <1>1, <1>2, <2>1, <2>5
    <3>2. EmptyLine[k] = Blank
      BY EmptyLineFacts
    <3> QED  BY <1>1, <2>2, <2>3, <3>1, <3>2
  <2>6. CASE q > r + 1
    <3>1. ~ (q <= Bottom(new)) /\ ~ (q <= r)
      BY <1>1, <1>2, <2>1, <2>6
    <3> QED  BY <2>2, <3>1
  <2> QED  BY <1>2, <2>1, <2>4, <2>5, <2>6
<1>4. OnScreen(new, array)
  BY <1>3 DEF OnScreen
<1> QED  BY <1>1, <1>4 DEF new, r

\* CopyLine: one more line of the full screen is right.
LEMMA CopyOne ==
    ASSUME NEW S, Blank \in S, NEW lines \in Lines(S), NEW line \in Ring,
           NEW array \in Buffers(S), NEW scr \in Screens(S), NEW i \in 0 .. (Height - 2),
           OnRing(lines, line, array, 0), Copied(lines, scr, i), Bottom(lines) = Height - 1
    PROVE  LET from == Above(line, Height - 1 - i)
               new == [x \in DOMAIN scr |->
                          IF x \in Cells(i) THEN array[from * Width + (x % Width)] ELSE scr[x]]
           IN  new \in Screens(S) /\ Copied(lines, new, i + 1)
<1> DEFINE j == Height - 1 - i
           from == Above(line, j)
           new == [x \in DOMAIN scr |->
                      IF x \in Cells(i) THEN array[from * Width + (x % Width)] ELSE scr[x]]
           copy == [k \in Columns |-> Cell(array, from, k)]
<1>1. Height \in Nat /\ BufferHeight \in Nat /\ Height <= BufferHeight
  BY Sizes
<1>2. /\ j \in 0 .. BufferHeight /\ j < BufferHeight /\ j \in 0 .. Bottom(lines)
      /\ i \in 0 .. (Height - 1) /\ i \in Nat
  BY <1>1
<1>3. from \in Ring
  <2> HIDE DEF j
  <2> QED  BY <1>2, RingFacts
<1> HIDE DEF j, from
<1>4. array \in Arrays(BufferHeight, S) /\ from \in 0 .. (BufferHeight - 1) /\ scr \in Arrays(Height, S)
  BY <1>3 DEF Buffers, Screens, Arrays, Ring
<1>5. copy \in [Columns -> S] /\ \A k \in Columns : copy[k] = Cell(array, from, k)
  <2>1. \A k \in Columns : Cell(array, from, k) \in S
    BY <1>1, <1>4, ArrayCell
  <2> QED  BY <2>1
<1>6. \A x \in DOMAIN scr : x % Width \in Columns
  <2>1. \A x \in DOMAIN scr : x \in Nat
    BY DEF Screens
  <2>2. \A x \in Nat : x % Width \in Columns
    BY Sizes DEF Columns
  <2> QED  BY <2>1, <2>2
<1>7. new = [x \in DOMAIN scr |-> IF x \in Cells(i) THEN copy[x % Width] ELSE scr[x]]
  BY <1>6 DEF Cell
<1> HIDE DEF new
<1>8. /\ new \in Arrays(Height, S)
      /\ \A q \in 0 .. (Height - 1), k \in Columns :
            Cell(new, q, k) = IF q = i THEN copy[k] ELSE Cell(scr, q, k)
  <2> HIDE DEF copy
  <2> QED  BY <1>1, <1>2, <1>4, <1>5, <1>7, LineFacts
<1>9. Len(lines) \in Nat
  BY LinesFacts
<1> HIDE DEF copy
<1>10. ASSUME NEW q \in 0 .. ((i + 1) - 1), NEW k \in Columns
       PROVE  Cell(new, q, k) = lines[Len(lines) - Height + 1 + q][k]
  <2>1. q \in 0 .. (Height - 1) /\ (q # i => q \in 0 .. (i - 1))
    BY <1>1, <1>2
  <2>2. CASE q = i
    <3>1. Cell(array, from, k) = lines[Len(lines) - j][k]
      BY <1>2 DEF OnRing, from
    <3>2. Len(lines) - j = Len(lines) - Height + 1 + q
      BY <1>1, <1>2, <1>9, <2>2 DEF j
    <3> QED  BY <1>5, <1>8, <2>1, <2>2, <3>1, <3>2
  <2>3. CASE q # i
    <3>1. Cell(scr, q, k) = lines[Len(lines) - Height + 1 + q][k]
      BY <2>1, <2>3 DEF Copied
    <3> QED  BY <1>8, <2>1, <2>3, <3>1
  <2> QED  BY <2>2, <2>3
<1>11. Copied(lines, new, i + 1)
  BY <1>10 DEF Copied
<1>12. new \in Screens(S)
  BY <1>8 DEF Screens, Arrays
<1> QED  BY <1>11, <1>12 DEF new, from, j

\* ClearLast: the last line of the full screen is the new, blank one.
LEMMA ScreenLast ==
    ASSUME NEW S, Blank \in S, NEW lines \in Lines(S), NEW scr \in Screens(S),
           Copied(Below(lines), scr, Height - 1), Bottom(Below(lines)) = Height - 1
    PROVE  /\ Cleared(scr, Height - 1) \in Screens(S)
           /\ OnScreen(Below(lines), Cleared(scr, Height - 1))
<1> DEFINE below == Below(lines)
           new == Cleared(scr, Height - 1)
           n == Len(below)
<1>1. below \in Lines(S) /\ below[n] = EmptyLine
  BY BelowFacts
<1>2. n \in Nat /\ Height \in Nat /\ Height >= 1
  BY <1>1, LinesFacts, Sizes
<1>3. /\ new \in Arrays(Height, S)
      /\ \A q \in 0 .. (Height - 1), m \in Columns :
            Cell(new, q, m) = IF q = Height - 1 THEN Blank ELSE Cell(scr, q, m)
  <2>1. scr \in Arrays(Height, S)
    BY DEF Screens, Arrays
  <2>2. Height - 1 \in 0 .. (Height - 1)
    BY <1>2
  <2> QED  BY <1>2, <2>1, <2>2, ClearedFacts
<1> HIDE DEF below, new, n
<1>4. ASSUME NEW q \in Rows, NEW k \in Columns
      PROVE  Cell(new, q, k) = IF q <= Bottom(below) THEN below[Len(below) - Bottom(below) + q][k]
                                                     ELSE Blank
  <2>1. q \in 0 .. (Height - 1) /\ Bottom(below) = Height - 1 /\ Len(below) = n
    BY DEF Rows, below, n
  <2>2. q <= Bottom(below) /\ n - Bottom(below) + q = n - Height + 1 + q
    BY <1>2, <2>1
  <2>3. Cell(new, q, k) = below[n - Height + 1 + q][k]
    <3>1. CASE q = Height - 1
      <4>1. n - Height + 1 + q = n
        BY <1>2, <3>1
      <4>2. EmptyLine[k] = Blank
        BY EmptyLineFacts
      <4> QED  BY <1>1, <1>3, <2>1, <3>1, <4>1, <4>2
    <3>2. CASE q # Height - 1
      <4>1. q \in 0 .. ((Height - 1) - 1)
        BY <1>2, <2>1, <3>2
      <4>2. Cell(scr, q, k) = below[n - Height + 1 + q][k]
        BY <4>1 DEF Copied, below, n
      <4> QED  BY <1>3, <2>1, <3>2, <4>2
    <3> QED  BY <3>1, <3>2
  <2> QED  BY <2>1, <2>2, <2>3
<1>5. OnScreen(below, new)
  BY <1>4 DEF OnScreen
<1> QED  BY <1>3, <1>5 DEF below, new, Screens, Arrays
-----------------------------------------------------------------------------
(***************************************************************************)
(* The sheet that a text makes                                             *)
(***************************************************************************)
\* f takes down the sheet after each character of a text, up to the n-th.
IsTyped(f, chars, n) ==
    f = [k \in 0 .. n |-> IF k = 0 THEN EmptySheet ELSE Type(f[k - 1], chars[k])]

\* There is such a function for every length, because there is up to any length.
LEMMA TypedExists ==
    ASSUME NEW chars, NEW n \in Nat
    PROVE  \E f : IsTyped(f, chars, n)
<1> DEFINE T == {m \in Nat : \E f : IsTyped(f, chars, m)}
<1>1. 0 \in T
  <2> DEFINE f == [k \in 0 .. 0 |-> EmptySheet]
  <2>1. \A k \in 0 .. 0 : k = 0
    OBVIOUS
  <2>2. IsTyped(f, chars, 0)
    BY <2>1 DEF IsTyped
  <2> QED  BY <2>2
<1>2. ASSUME NEW m \in Nat, m \in T PROVE m + 1 \in T
  <2>1. PICK f : IsTyped(f, chars, m)
    BY <1>2
  <2> DEFINE g == [k \in 0 .. (m + 1) |-> IF k = m + 1 THEN Type(f[m], chars[m + 1]) ELSE f[k]]
  <2>2. \A k \in 0 .. (m + 1) : k # 0 => k - 1 \in 0 .. m
    OBVIOUS
  <2>3. \A k \in 0 .. (m + 1) : k # 0 => g[k - 1] = f[k - 1]
    BY <2>2
  <2>4. \A k \in 0 .. m : f[k] = IF k = 0 THEN EmptySheet ELSE Type(f[k - 1], chars[k])
    BY <2>1 DEF IsTyped
  <2>5. \A k \in 0 .. (m + 1) : g[k] = IF k = 0 THEN EmptySheet ELSE Type(g[k - 1], chars[k])
    <3> TAKE k \in 0 .. (m + 1)
    <3>1. CASE k = m + 1
      <4>1. k # 0 /\ k - 1 = m
        BY <3>1
      <4>2. g[k - 1] = f[m] /\ g[k] = Type(f[m], chars[k])
        BY <2>3, <3>1, <4>1
      <4> QED  BY <4>1, <4>2
    <3>2. CASE k # m + 1
      <4>1. k \in 0 .. m /\ g[k] = f[k]
        BY <3>2
      <4> QED  BY <2>3, <2>4, <4>1
    <3> QED  BY <3>1, <3>2
  <2>6. g = [k \in 0 .. (m + 1) |-> g[k]]
    OBVIOUS
  <2>7. IsTyped(g, chars, m + 1)
    <3> HIDE DEF g
    <3> QED  BY <2>5, <2>6 DEF IsTyped
  <2>8. m + 1 \in Nat
    OBVIOUS
  <2> HIDE DEF g
  <2> QED  BY <2>7, <2>8
<1>3. n \in T
  <2> HIDE DEF T
  <2> QED  BY <1>1, <1>2, SetInduction
<1> QED  BY <1>3

LEMMA TypedIs ==
    ASSUME NEW chars, Len(chars) \in Nat
    PROVE  \E f : IsTyped(f, chars, Len(chars)) /\ Typed(chars) = f[Len(chars)]
<1> DEFINE n == Len(chars)
           f == CHOOSE x : IsTyped(x, chars, n)
<1>1. IsTyped(f, chars, n)
  <2> HIDE DEF n
  <2> QED  BY TypedExists DEF n
<1>2. Typed(chars) = f[n]
  BY DEF Typed, IsTyped
<1> QED  BY <1>1, <1>2

\* Texts that agree make the same sheet.
LEMMA TypedAgree ==
    ASSUME NEW f, NEW g, NEW chars, NEW others, NEW n \in Nat, NEW m \in Nat, n <= m,
           IsTyped(f, chars, n), IsTyped(g, others, m), \A k \in 1 .. n : chars[k] = others[k]
    PROVE  f[n] = g[n]
<1> DEFINE T == {k \in Nat : k <= n => f[k] = g[k]}
<1>1. \A k \in 0 .. n : f[k] = IF k = 0 THEN EmptySheet ELSE Type(f[k - 1], chars[k])
  BY DEF IsTyped
<1>2. \A k \in 0 .. m : g[k] = IF k = 0 THEN EmptySheet ELSE Type(g[k - 1], others[k])
  BY DEF IsTyped
<1>3. 0 \in T
  <2>1. 0 \in 0 .. n /\ 0 \in 0 .. m
    OBVIOUS
  <2> QED  BY <1>1, <1>2, <2>1
<1>4. ASSUME NEW k \in Nat, k \in T PROVE k + 1 \in T
  <2>1. SUFFICES ASSUME k + 1 <= n PROVE f[k + 1] = g[k + 1]
    OBVIOUS
  <2>2. f[k] = g[k]
    BY <1>4, <2>1
  <2>3. k + 1 \in 0 .. n /\ k + 1 \in 0 .. m /\ k + 1 # 0 /\ (k + 1) - 1 = k /\ k + 1 \in 1 .. n
    BY <2>1
  <2>4. f[k + 1] = Type(f[k], chars[k + 1]) /\ g[k + 1] = Type(g[k], others[k + 1])
    BY <1>1, <1>2, <2>3
  <2> QED  BY <2>2, <2>3, <2>4
<1>5. n \in T
  <2> HIDE DEF T
  <2> QED  BY <1>3, <1>4, SetInduction
<1> QED  BY <1>5

\* One character more.
LEMMA TypedAppend ==
    ASSUME NEW S, NEW chars \in Seq(S), NEW c \in S
    PROVE  Typed(Append(chars, c)) = Type(Typed(chars), c)
<1> DEFINE n == Len(chars)
           more == Append(chars, c)
<1>1. n \in Nat /\ Len(more) = n + 1 /\ more[n + 1] = c /\ \A k \in 1 .. n : chars[k] = more[k]
  OBVIOUS
<1> HIDE DEF more, n
<1>2. PICK f : IsTyped(f, chars, n) /\ Typed(chars) = f[n]
  BY <1>1, TypedIs DEF n
<1>3. n + 1 \in Nat /\ n <= n + 1
  BY <1>1
<1>4. PICK g : IsTyped(g, more, n + 1) /\ Typed(more) = g[n + 1]
  BY <1>1, <1>3, TypedIs
<1>5. f[n] = g[n]
  BY <1>1, <1>2, <1>3, <1>4, TypedAgree
<1>6. n + 1 \in 0 .. (n + 1) /\ n + 1 # 0 /\ (n + 1) - 1 = n
  BY <1>1
<1>7. \A k \in 0 .. (n + 1) : g[k] = IF k = 0 THEN EmptySheet ELSE Type(g[k - 1], more[k])
  BY <1>4 DEF IsTyped
<1>8. g[n + 1] = Type(g[n], more[n + 1])
  BY <1>6, <1>7
<1> QED  BY <1>1, <1>2, <1>4, <1>5, <1>8 DEF more

LEMMA TypedNone == Typed(<<>>) = EmptySheet
<1> DEFINE e == <<>>
<1>1. Len(e) = 0
  OBVIOUS
<1> HIDE DEF e
<1>2. PICK f : IsTyped(f, e, 0) /\ Typed(e) = f[0]
  BY <1>1, TypedIs
<1>3. 0 \in 0 .. 0
  OBVIOUS
<1>4. f[0] = EmptySheet
  BY <1>2, <1>3 DEF IsTyped
<1> QED  BY <1>2, <1>4 DEF e

LEMMA EmptySheetFacts ==
    ASSUME NEW S, Blank \in S
    PROVE  /\ EmptySheet \in Sheets(S) /\ EmptySheet.col = 0
           /\ Len(EmptySheet.lines) = 1 /\ EmptySheet.lines[1] = EmptyLine
<1> DEFINE L == [Columns -> S]
           lines == <<EmptyLine>>
<1>1. EmptyLine \in L
  BY EmptyLineFacts
<1> HIDE DEF L
<1>2. lines \in Seq(L) /\ Len(lines) = 1 /\ lines[1] = EmptyLine /\ lines # <<>>
  BY <1>1
<1> HIDE DEF lines
<1>3. lines \in Lines(S)
  BY <1>2 DEF Lines, L
<1>4. EmptySheet = [lines |-> lines, col |-> 0] /\ 0 \in 0 .. Width
  BY Sizes DEF EmptySheet, lines
<1> QED  BY <1>2, <1>3, <1>4 DEF Sheets

LEMMA SheetFacts ==
    ASSUME NEW S, NEW s \in Sheets(S)
    PROVE  s.lines \in Lines(S) /\ s.col \in 0 .. Width /\ s = [lines |-> s.lines, col |-> s.col]
BY DEF Sheets

LEMMA StopFacts ==
    ASSUME NEW S, NEW s \in Sheets(S)
    PROVE  /\ Stop(s) \in Nat /\ Stop(s) = s.col + Tab - (s.col % Tab)
           /\ Stop(s) % Width \in 0 .. Width
<1>1. s.col \in Nat
  BY SheetFacts, Sizes
<1>2. Tab \in Nat /\ Tab >= 1 /\ Width \in Nat /\ Width >= 1
  BY Sizes
<1> DEFINE q == s.col \div Tab
           m == s.col % Tab
<1>3. q \in Nat /\ m \in Nat /\ s.col = Tab * q + m
  BY <1>1, <1>2
<1> HIDE DEF q, m
<1>4. Tab * q \in Nat /\ (q + 1) * Tab = Tab * q + Tab
  BY <1>2, <1>3
<1>5. Stop(s) = Tab * q + Tab
  BY <1>4 DEF Stop, q
<1>6. Stop(s) \in Nat /\ Stop(s) = s.col + Tab - m
  BY <1>2, <1>3, <1>4, <1>5
<1>7. Stop(s) % Width \in 0 .. Width
  BY <1>2, <1>6
<1> QED  BY <1>6, <1>7 DEF m

LEMMA PageFacts ==
    ASSUME NEW S, Blank \in S, NEW s \in Sheets(S)
    PROVE  /\ Page(s) \in Sheets(S) /\ Page(s).col < Width
           /\ Page(s).lines = IF s.col = Width THEN Below(s.lines) ELSE s.lines
           /\ Page(s).col = IF s.col = Width THEN 0 ELSE s.col
<1>1. s.lines \in Lines(S) /\ s.col \in 0 .. Width
  BY SheetFacts
<1>2. Below(s.lines) \in Lines(S)
  BY <1>1, BelowFacts
<1>3. Width \in Nat /\ Width >= 1
  BY Sizes
<1>4. CASE s.col = Width
  <2>1. Page(s) = [lines |-> Below(s.lines), col |-> 0] /\ 0 \in 0 .. Width
    BY <1>3, <1>4 DEF Page
  <2> QED  BY <1>2, <1>3, <1>4, <2>1 DEF Sheets
<1>5. CASE s.col # Width
  <2>1. Page(s) = s /\ s.col < Width
    BY <1>1, <1>3, <1>5 DEF Page
  <2> QED  BY <1>5, <2>1
<1> QED  BY <1>4, <1>5

\* What each kind of character does to a sheet.
LEMMA TypeIs ==
    ASSUME NEW S, Blank \in S, NEW s \in Sheets(S), NEW c \in S
    PROVE  /\ c = "\n" => Type(s, c) = [lines |-> Below(s.lines), col |-> 0]
           /\ c = "\r" => Type(s, c) = [lines |-> s.lines, col |-> 0]
           /\ c = "\t" /\ Stop(s) < Width => Type(s, c) = [lines |-> s.lines, col |-> Stop(s)]
           /\ c = "\t" /\ ~ (Stop(s) < Width) =>
                 Type(s, c) = [lines |-> Below(s.lines), col |-> Stop(s) % Width]
           /\ c \in {Wide, Control} => Type(s, c) = s
           /\ Ordinary(c) => Type(s, c) = Put(Page(s), c)
<1>1. \A at : NewLine(s, at) = [lines |-> Below(s.lines), col |-> at]
  BY DEF NewLine, Below
<1>2. \A x : [s EXCEPT !.col = x] = [lines |-> s.lines, col |-> x]
  BY SheetFacts
<1>3. Page(s) = IF s.col = Width THEN NewLine(s, 0) ELSE s
  BY <1>1 DEF Page
<1>4. CASE c = "\n"
  BY <1>1, <1>4 DEF Type, Wide, Control, Ordinary
<1>5. CASE c = "\r"
  BY <1>2, <1>5 DEF Type, Wide, Control, Ordinary
<1>6. CASE c = "\t"
  BY <1>1, <1>2, <1>6 DEF Type, Wide, Control, Ordinary, Stop
<1>7. CASE c \in {Wide, Control}
  BY <1>7 DEF Type, Wide, Control, Ordinary
<1>8. CASE Ordinary(c)
  BY <1>3, <1>8 DEF Type, Ordinary, Wide, Control, Put
<1> QED  BY <1>4, <1>5, <1>6, <1>7, <1>8 DEF Ordinary, Wide, Control

LEMMA TypeSheet ==
    ASSUME NEW S, Blank \in S, NEW s \in Sheets(S), NEW c \in S
    PROVE  Type(s, c) \in Sheets(S)
<1>1. s.lines \in Lines(S) /\ Below(s.lines) \in Lines(S)
  BY SheetFacts, BelowFacts
<1>2. \A lines \in Lines(S), x \in 0 .. Width : [lines |-> lines, col |-> x] \in Sheets(S)
  BY DEF Sheets
<1>3. 0 \in 0 .. Width /\ (Stop(s) < Width => Stop(s) \in 0 .. Width) /\ Stop(s) % Width \in 0 .. Width
  BY StopFacts, Sizes
<1>4. CASE c = "\n" \/ c = "\r"
  BY <1>1, <1>2, <1>3, <1>4, TypeIs
<1>5. CASE c = "\t"
  BY <1>1, <1>2, <1>3, <1>5, TypeIs
<1>6. CASE c \in {Wide, Control}
  BY <1>6, TypeIs
<1>7. CASE Ordinary(c)
  BY <1>7, TypeIs, PageFacts, PutFacts
<1> QED  BY <1>4, <1>5, <1>6, <1>7 DEF Ordinary
-----------------------------------------------------------------------------
(***************************************************************************)
(* The steps of the writers                                                *)
(***************************************************************************)
\* A step that gives one register of w a new value.
LEMMA SetRegister ==
    ASSUME IInv, NEW w \in Writers, NEW label, Goto(w, label), NEW x,
           \/ reg' = [reg EXCEPT ![w].ch = x]
           \/ reg' = [reg EXCEPT ![w].row = x]
           \/ reg' = [reg EXCEPT ![w].col = x]
           \/ reg' = [reg EXCEPT ![w].line = x]
    PROVE  /\ Moves(w, label, reg'[w])
           /\ reg' = [reg EXCEPT ![w].ch = x]   => reg'[w] = [reg[w] EXCEPT !.ch = x]
           /\ reg' = [reg EXCEPT ![w].row = x]  => reg'[w] = [reg[w] EXCEPT !.row = x]
           /\ reg' = [reg EXCEPT ![w].col = x]  => reg'[w] = [reg[w] EXCEPT !.col = x]
           /\ reg' = [reg EXCEPT ![w].line = x] => reg'[w] = [reg[w] EXCEPT !.line = x]
<1>1. reg = [v \in Writers |-> reg[v]]
  BY DEF IInv, RegistersShape
<1>2. reg' = [reg EXCEPT ![w] = reg'[w]]
  BY <1>1
<1>3. /\ reg' = [reg EXCEPT ![w].ch = x]   => reg'[w] = [reg[w] EXCEPT !.ch = x]
      /\ reg' = [reg EXCEPT ![w].row = x]  => reg'[w] = [reg[w] EXCEPT !.row = x]
      /\ reg' = [reg EXCEPT ![w].col = x]  => reg'[w] = [reg[w] EXCEPT !.col = x]
      /\ reg' = [reg EXCEPT ![w].line = x] => reg'[w] = [reg[w] EXCEPT !.line = x]
  BY <1>1
<1>4. Shaped(reg'[w])
  <2> DEFINE r == reg[w]
  <2>1. /\ Shaped([r EXCEPT !.ch = x]) /\ Shaped([r EXCEPT !.row = x])
        /\ Shaped([r EXCEPT !.col = x]) /\ Shaped([r EXCEPT !.line = x])
    BY RegShaped
  <2>2. \/ reg'[w] = [r EXCEPT !.ch = x] \/ reg'[w] = [r EXCEPT !.row = x]
        \/ reg'[w] = [r EXCEPT !.col = x] \/ reg'[w] = [r EXCEPT !.line = x]
    BY <1>3
  <2> HIDE DEF r
  <2> QED  BY <2>1, <2>2
<1> QED  BY <1>2, <1>3, <1>4 DEF Moves, Goto

\* The fields of a register set with one new value, and with two.
LEMMA Fields ==
    ASSUME NEW r, Shaped(r), NEW x
    PROVE  /\ LET q == [r EXCEPT !.row = x]
              IN  q.ch = r.ch /\ q.row = x /\ q.col = r.col /\ q.line = r.line
           /\ LET q == [r EXCEPT !.col = x]
              IN  q.ch = r.ch /\ q.row = r.row /\ q.col = x /\ q.line = r.line
           /\ LET q == [r EXCEPT !.line = x]
              IN  q.ch = r.ch /\ q.row = r.row /\ q.col = r.col /\ q.line = x
           /\ [r EXCEPT !.ch = x].ch = x
<1>1. r = [ch |-> r.ch, row |-> r.row, col |-> r.col, line |-> r.line]
  BY DEF Shaped
<1> QED  BY <1>1

LEMMA SetRow ==
    ASSUME IInv, NEW w \in Writers, NEW label, Goto(w, label), NEW x,
           reg' = [reg EXCEPT ![w].row = x]
    PROVE  /\ Moves(w, label, reg'[w]) /\ reg'[w].ch = reg[w].ch
           /\ reg'[w].row = x /\ reg'[w].col = reg[w].col /\ reg'[w].line = reg[w].line
<1> DEFINE r == reg[w]
           q == [r EXCEPT !.row = x]
<1>1. Moves(w, label, reg'[w]) /\ reg'[w] = q
  BY SetRegister
<1>2. Shaped(r)
  BY RegShaped
<1> HIDE DEF r
<1>3. q.ch = r.ch /\ q.row = x /\ q.col = r.col /\ q.line = r.line
  BY <1>2, Fields
<1> HIDE DEF q
<1> QED  BY <1>1, <1>3 DEF r

LEMMA SetCol ==
    ASSUME IInv, NEW w \in Writers, NEW label, Goto(w, label), NEW x,
           reg' = [reg EXCEPT ![w].col = x]
    PROVE  /\ Moves(w, label, reg'[w]) /\ reg'[w].ch = reg[w].ch
           /\ reg'[w].row = reg[w].row /\ reg'[w].col = x /\ reg'[w].line = reg[w].line
<1> DEFINE r == reg[w]
           q == [r EXCEPT !.col = x]
<1>1. Moves(w, label, reg'[w]) /\ reg'[w] = q
  BY SetRegister
<1>2. Shaped(r)
  BY RegShaped
<1> HIDE DEF r
<1>3. q.ch = r.ch /\ q.row = r.row /\ q.col = x /\ q.line = r.line
  BY <1>2, Fields
<1> HIDE DEF q
<1> QED  BY <1>1, <1>3 DEF r

LEMMA SetLine ==
    ASSUME IInv, NEW w \in Writers, NEW label, Goto(w, label), NEW x,
           reg' = [reg EXCEPT ![w].line = x]
    PROVE  /\ Moves(w, label, reg'[w]) /\ reg'[w].ch = reg[w].ch
           /\ reg'[w].row = reg[w].row /\ reg'[w].col = reg[w].col /\ reg'[w].line = x
<1> DEFINE r == reg[w]
           q == [r EXCEPT !.line = x]
<1>1. Moves(w, label, reg'[w]) /\ reg'[w] = q
  BY SetRegister
<1>2. Shaped(r)
  BY RegShaped
<1> HIDE DEF r
<1>3. q.ch = r.ch /\ q.row = r.row /\ q.col = r.col /\ q.line = x
  BY <1>2, Fields
<1> HIDE DEF q
<1> QED  BY <1>1, <1>3 DEF r

LEMMA SetCh ==
    ASSUME IInv, NEW w \in Writers, NEW label, Goto(w, label), NEW x,
           reg' = [reg EXCEPT ![w].ch = x]
    PROVE  Moves(w, label, reg'[w]) /\ reg'[w].ch = x
<1> DEFINE r == reg[w]
           q == [r EXCEPT !.ch = x]
<1>1. Moves(w, label, reg'[w]) /\ reg'[w] = q
  BY SetRegister
<1>2. Shaped(r)
  BY RegShaped
<1> HIDE DEF r
<1>3. q.ch = x
  BY <1>2, Fields
<1> HIDE DEF q
<1> QED  BY <1>1, <1>3 DEF r

LineRow(r, x, y) == [r EXCEPT !.line = x, !.row = y]

LEMMA LineRowFields ==
    ASSUME IInv, NEW w \in Writers, NEW x, NEW y, NEW q, q = LineRow(reg[w], x, y)
    PROVE  /\ Shaped(q) /\ q.ch = reg[w].ch /\ q.row = y /\ q.line = x
           /\ q.col = reg[w].col
<1> DEFINE r == reg[w]
<1>1. Shaped(r) /\ Shaped([r EXCEPT !.line = x, !.row = y])
  BY RegShaped
<1>2. q = [r EXCEPT !.line = x, !.row = y]
  BY DEF LineRow
<1> HIDE DEF r
<1>3. q.ch = r.ch /\ q.row = y /\ q.line = x /\ q.col = r.col /\ Shaped(q)
  BY <1>1, <1>2 DEF Shaped
<1> QED  BY <1>3 DEF r

LEMMA SetAll ==
    ASSUME IInv, NEW w \in Writers, NEW label, Goto(w, label), NEW q, Shaped(q),
           reg' = [reg EXCEPT ![w] = q]
    PROVE  Moves(w, label, reg'[w]) /\ reg'[w] = q
<1>1. reg = [v \in Writers |-> reg[v]]
  BY DEF IInv, RegistersShape
<1>2. reg'[w] = q /\ reg' = [reg EXCEPT ![w] = reg'[w]]
  BY <1>1
<1> QED  BY <1>2 DEF Moves, Goto

LEMMA SetNone ==
    ASSUME IInv, NEW w \in Writers, NEW label, Goto(w, label), UNCHANGED reg
    PROVE  Moves(w, label, reg'[w]) /\ reg'[w] = reg[w]
BY Goes

LEMMA Moved ==
    ASSUME IInv, NEW w \in Writers, NEW label, Moves(w, label, reg'[w])
    PROVE  /\ pc'[w] = label
           /\ \A v \in Writers : v # w => pc'[v] = pc[v] /\ reg'[v] = reg[v]
           /\ label \notin {"idle", "halted"} => Inside' = (Inside \cup {w})
           /\ label \in {"idle", "halted"} => Inside' = (Inside \ {w})
<1>1. pc = [v \in Writers |-> pc[v]] /\ reg = [v \in Writers |-> reg[v]]
  BY DEF IInv, RegistersShape
<1>2. pc' = [pc EXCEPT ![w] = label] /\ reg' = [reg EXCEPT ![w] = reg'[w]]
  BY DEF Moves
<1>3. pc'[w] = label /\ \A v \in Writers : v # w => pc'[v] = pc[v] /\ reg'[v] = reg[v]
  BY <1>1, <1>2
<1>4. \A v : v \in Inside' <=> v \in Writers /\ pc'[v] \notin {"idle", "halted"}
  BY DEF Inside
<1>5. \A v : v \in Inside <=> v \in Writers /\ pc[v] \notin {"idle", "halted"}
  BY DEF Inside
<1>6. label \notin {"idle", "halted"} => \A v : v \in Inside' <=> v \in Inside \cup {w}
  BY <1>3, <1>4, <1>5
<1>7. label \in {"idle", "halted"} => \A v : v \in Inside' <=> v \in Inside \ {w}
  BY <1>3, <1>4, <1>5
<1> QED  BY <1>3, <1>6, <1>7

\* The log stays and so does the sheet that it makes.
LEMMA LogStays ==
    ASSUME UNCHANGED log
    PROVE  Typed(log)' = Typed(log)
BY DEF Typed

\* Writer w goes on inside tty_putchar().
LEMMA Stays ==
    ASSUME IInv, NEW w \in Writers, NEW S, NEW s, Held(S), Writing(w, S, s),
           NEW label, label \notin {"idle", "halted"}, Moves(w, label, reg'[w]),
           reg'[w].ch = reg[w].ch, UNCHANGED seen,
           buffer' \in Buffers(S), screen' \in Screens(S), At(w, s)'
    PROVE  SheetInv'
<1>1. UNCHANGED log /\ Typed(log)' = Typed(log)
  BY LogStays DEF seen
<1>2. Held(S)'
  BY <1>1 DEF Held
<1>3. Inside' = {w}
  BY Moved DEF Writing
<1>4. Writing(w, S, s)'
  BY <1>1, <1>3 DEF Writing
<1> QED  BY <1>2, <1>4 DEF SheetInv

\* Writer w returns from tty_putchar().
LEMMA Ends ==
    ASSUME IInv, NEW w \in Writers, NEW S, NEW s, Held(S), Writing(w, S, s), Return(w),
           buffer' \in Buffers(S), screen' \in Screens(S),
           NEW sheet, sheet = Type(s, reg[w].ch), Shows(sheet.lines)', col' = sheet.col
    PROVE  SheetInv'
<1>1. UNCHANGED log /\ Typed(log)' = Typed(log)
  BY LogStays DEF Return, seen
<1>2. Held(S)'
  BY <1>1 DEF Held
<1>3. reg' = [reg EXCEPT ![w] = Registers] /\ (Goto(w, "idle") \/ Goto(w, "halted"))
  BY DEF Return
<1>4. reg'[w] = Registers
  BY <1>3 DEF IInv, RegistersShape
<1>5. \E label \in {"idle", "halted"} : Moves(w, label, reg'[w])
  BY <1>3, <1>4, RegShaped DEF Goto, Moves
<1>6. Inside' = {}
  BY <1>5, Moved DEF Writing
<1>7. Typed(log)' = sheet
  BY <1>1 DEF Writing
<1>8. Idle'
  BY <1>6, <1>7 DEF Idle, Shows
<1> QED  BY <1>2, <1>8 DEF SheetInv

LEMMA AboveStep ==
    ASSUME NEW line \in Ring, NEW j \in 1 .. (BufferHeight - 1)
    PROVE  (Above(line, j) + 1) % BufferHeight = Above(line, j - 1)
<1>1. BufferHeight \in Nat /\ BufferHeight >= 1 /\ line \in 0 .. (BufferHeight - 1)
  BY Sizes DEF Ring
<1> DEFINE a == Above(line, j)
<1>2. /\ j \in 0 .. BufferHeight /\ j - 1 \in 0 .. BufferHeight /\ j < BufferHeight
  BY <1>1
<1>3. a \in Ring /\ a = IF j <= line THEN line - j ELSE line - j + BufferHeight
  BY <1>2, RingFacts
<1>4. Above(line, j - 1) = IF j - 1 <= line THEN line - (j - 1) ELSE line - (j - 1) + BufferHeight
  BY <1>2, RingFacts
<1> HIDE DEF a
<1>5. (a + 1) % BufferHeight = IF a + 1 = BufferHeight THEN 0 ELSE a + 1
  BY <1>3, NextLine
<1>6. (a + 1) % BufferHeight = Above(line, j - 1)
  BY <1>1, <1>2, <1>3, <1>4, <1>5
<1> QED  BY <1>6 DEF a

\* What a writer inside finds.
LEMMA WritingFacts ==
    ASSUME IInv, NEW w \in Writers, NEW S, NEW s, Held(S), Writing(w, S, s)
    PROVE  /\ Blank \in S /\ s \in Sheets(S) /\ s.lines \in Lines(S) /\ s.col \in 0 .. Width
           /\ reg[w].ch \in S /\ buffer \in Buffers(S) /\ screen \in Screens(S)
           /\ buffer_row \in Ring /\ row \in 0 .. (Height - 1)
           /\ Kind(w, s) /\ Begun(w, s) /\ Putting(w, s) /\ Lifted(w, s) /\ Returning(w, s)
BY SheetFacts DEF Held, Writing, IInv, RowOnScreen, Ring, At

\* tty_putchar() finds out what kind of character it has.
LEMMA StartKeeps ==
    ASSUME IInv, NEW w \in Writers, NEW S, NEW s, Held(S), Writing(w, S, s), tty_putchar(w)
    PROVE  SheetInv'
<1> DEFINE c == reg[w].ch
<1>1. /\ Blank \in S /\ s \in Sheets(S) /\ c \in S
      /\ buffer \in Buffers(S) /\ screen \in Screens(S) /\ Begun(w, s)
  BY WritingFacts
<1>2. pc[w] = "putchar" /\ Shows(s.lines) /\ col = s.col
  BY <1>1 DEF tty_putchar, Begun
<1>3. CASE c \in Ignored /\ Return(w) /\ UNCHANGED tty
  <2>1. s = Type(s, c)
    BY <1>1, <1>3, TypeIs DEF Ignored
  <2>2. Shows(s.lines)' /\ col' = s.col /\ buffer' = buffer /\ screen' = screen
    BY <1>2, <1>3 DEF tty, Shows
  <2> QED  BY <1>1, <1>3, <2>1, <2>2, Ends
<1>4. CASE c \notin Ignored /\ UNCHANGED <<tty, reg, job, seen>>
  <2> DEFINE label == CASE c = "\n" -> "line_up" [] c = "\r" -> "return"
                        [] c = "\t" -> "tab" [] OTHER -> "put_char"
  <2>1. Goto(w, label)
    BY <1>2, <1>4 DEF tty_putchar, Ignored, Goto, Return
  <2>2. \/ c = "\n" /\ label = "line_up"
        \/ c = "\r" /\ label = "return"
        \/ c = "\t" /\ label = "tab"
        \/ Ordinary(c) /\ label = "put_char"
    BY <1>4 DEF Ordinary, Ignored
  <2> HIDE DEF label
  <2>3. label \notin {"idle", "halted"}
    BY <2>2
  <2>4. Moves(w, label, reg'[w]) /\ reg'[w] = reg[w] /\ pc'[w] = label
    BY <1>4, <2>1, SetNone, Moved
  <2>5. UNCHANGED <<row, col, buffer_row, buffer, screen>> /\ UNCHANGED seen
    BY <1>4 DEF tty
  <2>6. At(w, s)'
    BY <1>2, <2>2, <2>4, <2>5
       DEF At, Kind, Begun, Putting, Lifted, Returning, Shows, Between, Lifting
  <2> QED  BY <1>1, <2>3, <2>4, <2>5, <2>6, Stays
<1> QED  BY <1>3, <1>4 DEF tty_putchar

\* put_char(), up to the new column.
LEMMA CharKeeps ==
    ASSUME IInv, NEW w \in Writers, NEW S, NEW s, Held(S), Writing(w, S, s),
           put_char(w) \/ ReadRow(w) \/ WriteVideo(w) \/ ReadCol(w) \/ WriteRing(w)
    PROVE  SheetInv'
<1> DEFINE c == reg[w].ch
           p == Page(s)
<1>1. /\ Blank \in S /\ s \in Sheets(S) /\ s.col \in 0 .. Width /\ c \in S
      /\ buffer \in Buffers(S) /\ screen \in Screens(S) /\ buffer_row \in Ring
      /\ Kind(w, s) /\ Begun(w, s) /\ Putting(w, s)
  BY WritingFacts
<1>2. /\ p \in Sheets(S) /\ p.col < Width
      /\ p.lines = IF s.col = Width THEN Below(s.lines) ELSE s.lines
      /\ p.col = IF s.col = Width THEN 0 ELSE s.col
  BY <1>1, PageFacts
<1>3. Put(p, c).col = p.col + 1 /\ Bottom(Put(p, c).lines) = Bottom(p.lines)
  BY <1>1, <1>2, PutFacts
<1> HIDE DEF p
<1>4. CASE put_char(w)
  <2>1. /\ pc[w] = "put_char" /\ UNCHANGED <<row, col, buffer_row, buffer, screen>> /\ UNCHANGED reg
        /\ UNCHANGED seen /\ Goto(w, IF col = Width THEN "line_up" ELSE "row")
    BY <1>4 DEF put_char, tty
  <2>2. Ordinary(c) /\ Shows(s.lines) /\ col = s.col
    BY <1>1, <2>1 DEF Kind, Begun
  <2>3. CASE s.col = Width
    <3>1. Goto(w, "line_up")
      BY <2>1, <2>2, <2>3
    <3>2. Moves(w, "line_up", reg'[w]) /\ reg'[w] = reg[w] /\ pc'[w] = "line_up"
      BY <2>1, <3>1, SetNone, Moved
    <3>3. At(w, s)'
      BY <2>1, <2>2, <2>3, <3>2
         DEF At, Kind, Begun, Putting, Lifted, Returning, Shows, Between, Lifting
    <3> QED  BY <1>1, <2>1, <3>2, <3>3, Stays
  <2>4. CASE s.col # Width
    <3>1. Goto(w, "row") /\ p.lines = s.lines /\ p.col = s.col
      BY <1>2, <2>1, <2>2, <2>4
    <3>2. Moves(w, "row", reg'[w]) /\ reg'[w] = reg[w] /\ pc'[w] = "row"
      BY <2>1, <3>1, SetNone, Moved
    <3>3. At(w, s)'
      BY <1>2, <2>1, <2>2, <3>1, <3>2
         DEF At, Kind, Begun, Putting, Lifted, Returning, Shows, Between, Lifting, p
    <3> QED  BY <1>1, <2>1, <3>2, <3>3, Stays
  <2> QED  BY <2>3, <2>4
<1>5. CASE ReadRow(w)
  <2>1. /\ pc[w] = "row" /\ UNCHANGED <<row, col, buffer_row, buffer, screen>>
        /\ reg' = [reg EXCEPT ![w].row = row] /\ UNCHANGED seen /\ Goto(w, "video")
    BY <1>5 DEF ReadRow, tty
  <2>2. Ordinary(c) /\ Shows(p.lines) /\ col = p.col
    BY <1>1, <2>1 DEF Kind, Putting, p
  <2>3. /\ Moves(w, "video", reg'[w]) /\ reg'[w].ch = c /\ reg'[w].row = row
        /\ pc'[w] = "video"
    <3>1. Moves(w, "video", reg'[w]) /\ reg'[w].ch = c /\ reg'[w].row = row
      BY <2>1, SetRow
    <3> QED  BY <3>1, Moved
  <2>4. At(w, s)'
    BY <1>2, <2>1, <2>2, <2>3
       DEF At, Kind, Begun, Putting, Lifted, Returning, Shows, Between, Lifting, p
  <2> QED  BY <1>1, <2>1, <2>3, <2>4, Stays
<1>6. CASE WriteVideo(w)
  <2>1. /\ pc[w] = "video" /\ UNCHANGED <<row, col, buffer_row, buffer>> /\ UNCHANGED reg
        /\ screen' = Overwritten(screen, reg[w].row * Width + col, c)
        /\ UNCHANGED seen /\ Goto(w, "col")
    BY <1>6 DEF WriteVideo
  <2>2. Ordinary(c) /\ Shows(p.lines) /\ col = p.col /\ reg[w].row = row
    BY <1>1, <2>1 DEF Kind, Putting, p
  <2>3. Moves(w, "col", reg'[w]) /\ reg'[w] = reg[w] /\ pc'[w] = "col"
    BY <2>1, SetNone, Moved
  <2>4. /\ screen' = Overwritten(screen, Bottom(p.lines) * Width + p.col, c)
        /\ OnScreen(p.lines, screen)
    BY <2>1, <2>2 DEF Shows
  <2>5. screen' \in Screens(S) /\ OnScreen(Put(p, c).lines, screen')
    BY <1>1, <1>2, <2>4, ScreenPut
  <2>6. At(w, s)'
    BY <1>2, <2>1, <2>2, <2>3, <2>5
       DEF At, Kind, Begun, Putting, Lifted, Returning, Shows, Between, Lifting, p
  <2> QED  BY <1>1, <2>1, <2>3, <2>5, <2>6, Stays
<1>7. CASE ReadCol(w)
  <2>1. /\ pc[w] = "col" /\ UNCHANGED <<row, col, buffer_row, buffer, screen>>
        /\ reg' = [reg EXCEPT ![w].col = col] /\ UNCHANGED seen /\ Goto(w, "ring")
    BY <1>7 DEF ReadCol, tty
  <2>2. Ordinary(c) /\ col = p.col /\ row = Bottom(p.lines)
        /\ OnRing(p.lines, buffer_row, buffer, 0) /\ OnScreen(Put(p, c).lines, screen)
    BY <1>1, <2>1 DEF Kind, Putting, p
  <2>3. /\ Moves(w, "ring", reg'[w]) /\ reg'[w].ch = c /\ reg'[w].col = col
        /\ pc'[w] = "ring"
    <3>1. Moves(w, "ring", reg'[w]) /\ reg'[w].ch = c /\ reg'[w].col = col
      BY <2>1, SetCol
    <3> QED  BY <3>1, Moved
  <2>4. At(w, s)'
    BY <1>2, <2>1, <2>2, <2>3
       DEF At, Kind, Begun, Putting, Lifted, Returning, Shows, Between, Lifting, p
  <2> QED  BY <1>1, <2>1, <2>3, <2>4, Stays
<1>8. CASE WriteRing(w)
  <2>1. /\ pc[w] = "ring" /\ UNCHANGED <<row, col, buffer_row, screen>> /\ UNCHANGED reg
        /\ buffer' = Overwritten(buffer, buffer_row * Width + reg[w].col, c)
        /\ UNCHANGED seen /\ Goto(w, "advance")
    BY <1>8 DEF WriteRing
  <2>2. Ordinary(c) /\ col = p.col /\ reg[w].col = col /\ row = Bottom(p.lines)
        /\ OnRing(p.lines, buffer_row, buffer, 0) /\ OnScreen(Put(p, c).lines, screen)
    BY <1>1, <2>1 DEF Kind, Putting, p
  <2>3. Moves(w, "advance", reg'[w]) /\ reg'[w] = reg[w] /\ pc'[w] = "advance"
    BY <2>1, SetNone, Moved
  <2>4. buffer' = Overwritten(buffer, buffer_row * Width + p.col, c)
    BY <2>1, <2>2
  <2>5. buffer' \in Buffers(S) /\ OnRing(Put(p, c).lines, buffer_row, buffer', 0)
    BY <1>1, <1>2, <2>2, <2>4, RingPut
  <2>6. reg[w].col + 1 = Put(p, c).col /\ row = Bottom(Put(p, c).lines)
    BY <1>3, <2>2
  <2>7. At(w, s)'
    BY <2>1, <2>2, <2>3, <2>5, <2>6
       DEF At, Kind, Begun, Putting, Lifted, Returning, Shows, Between, Lifting, p
  <2> QED  BY <1>1, <2>1, <2>3, <2>5, <2>7, Stays
<1> QED  BY <1>4, <1>5, <1>6, <1>7, <1>8

\* The column is stored: after put_char(), '\r', the end of '\n' and a tab, or
\* on the way to the new line after a long line or a tab.
LEMMA ColumnKeeps ==
    ASSUME IInv, NEW w \in Writers, NEW S, NEW s, Held(S), Writing(w, S, s),
           \/ Advance(w) \/ CarriageReturn(w) \/ ReadTab(w) \/ TabStop(w) \/ TabFold(w) \/ Wrap(w)
    PROVE  SheetInv'
<1> DEFINE c == reg[w].ch
<1>1. /\ Blank \in S /\ s \in Sheets(S) /\ c \in S /\ s.col \in 0 .. Width
      /\ buffer \in Buffers(S) /\ screen \in Screens(S)
      /\ Kind(w, s) /\ Begun(w, s) /\ Putting(w, s) /\ Lifted(w, s) /\ Returning(w, s)
  BY WritingFacts
<1>2. Stop(s) \in Nat /\ Stop(s) = s.col + Tab - (s.col % Tab)
  BY <1>1, StopFacts
<1>3. CASE Advance(w)
  <2>0. PICK q : q = Put(Page(s), c)
    OBVIOUS
  <2>1. /\ pc[w] = "advance" /\ UNCHANGED <<row, buffer_row, buffer, screen>>
        /\ col' = reg[w].col + 1 /\ Return(w)
    BY <1>3 DEF Advance
  <2>2. Ordinary(c) /\ Shows(q.lines) /\ reg[w].col + 1 = q.col
    BY <1>1, <2>0, <2>1 DEF Kind, Putting
  <2>3. q = Type(s, c)
    BY <1>1, <2>0, <2>2, TypeIs
  <2>4. Shows(q.lines)' /\ col' = q.col
    BY <2>1, <2>2 DEF Shows
  <2> QED  BY <1>1, <2>1, <2>3, <2>4, Ends
<1>4. CASE CarriageReturn(w)
  <2>0. PICK lines : lines = IF c = "\n" THEN Below(s.lines) ELSE s.lines
    OBVIOUS
  <2> DEFINE q == [lines |-> lines, col |-> 0]
  <2>1. /\ pc[w] = "return" /\ UNCHANGED <<row, buffer_row, buffer, screen>>
        /\ col' = 0 /\ Return(w)
    BY <1>4 DEF CarriageReturn
  <2>2. c \in {"\n", "\r"} /\ Shows(lines)
    BY <1>1, <2>0, <2>1 DEF Kind, Returning
  <2>3. q = Type(s, c)
    BY <1>1, <2>0, <2>2, TypeIs
  <2>4. q.lines = lines /\ q.col = 0
    OBVIOUS
  <2> HIDE DEF q
  <2>5. Shows(q.lines)' /\ col' = q.col
    BY <2>1, <2>2, <2>4 DEF Shows
  <2> QED  BY <1>1, <2>1, <2>3, <2>5, Ends
<1>5. CASE ReadTab(w)
  <2>1. /\ pc[w] = "tab" /\ UNCHANGED <<row, col, buffer_row, buffer, screen>>
        /\ reg' = [reg EXCEPT ![w].col = col + Tab - (col % Tab)] /\ UNCHANGED seen /\ Goto(w, "stop")
    BY <1>5 DEF ReadTab, tty
  <2>2. c = "\t" /\ Shows(s.lines) /\ col = s.col
    BY <1>1, <2>1 DEF Kind, Begun
  <2>3. reg' = [reg EXCEPT ![w].col = Stop(s)]
    BY <1>2, <2>1, <2>2
  <2>4. Moves(w, "stop", reg'[w]) /\ reg'[w].ch = c /\ reg'[w].col = Stop(s) /\ pc'[w] = "stop"
    <3> DEFINE x == Stop(s)
    <3>1. Goto(w, "stop") /\ reg' = [reg EXCEPT ![w].col = x]
      BY <2>1, <2>3
    <3> HIDE DEF x
    <3>2. Moves(w, "stop", reg'[w]) /\ reg'[w].ch = c /\ reg'[w].col = x
      BY <3>1, SetCol
    <3>3. pc'[w] = "stop"
      BY <3>2, Moved
    <3> QED  BY <3>2, <3>3 DEF x
  <2>5. At(w, s)'
    BY <2>1, <2>2, <2>4 DEF At, Kind, Begun, Putting, Lifted, Returning, Shows, Between, Lifting
  <2> QED  BY <1>1, <2>1, <2>4, <2>5, Stays
<1>6. CASE TabStop(w)
  <2>1. /\ pc[w] = "stop" /\ UNCHANGED <<row, buffer_row, buffer, screen>> /\ col' = reg[w].col
        /\ \/ reg[w].col < Width /\ Return(w)
           \/ reg[w].col >= Width /\ Goto(w, "fold") /\ UNCHANGED reg /\ UNCHANGED seen
    BY <1>6 DEF TabStop
  <2>2. c = "\t" /\ Shows(s.lines) /\ reg[w].col = Stop(s)
    BY <1>1, <2>1 DEF Kind, Begun
  <2>3. CASE Stop(s) < Width /\ Return(w)
    <3> DEFINE q == [lines |-> s.lines, col |-> Stop(s)]
    <3>1. q = Type(s, c)
      BY <1>1, <2>2, <2>3, TypeIs
    <3>2. Shows(q.lines)' /\ col' = q.col
      BY <2>1, <2>2 DEF Shows
    <3> HIDE DEF q
    <3> QED  BY <1>1, <2>1, <2>3, <3>1, <3>2, Ends
  <2>4. CASE Stop(s) >= Width /\ Goto(w, "fold") /\ UNCHANGED reg /\ UNCHANGED seen
    <3>1. Moves(w, "fold", reg'[w]) /\ reg'[w] = reg[w] /\ pc'[w] = "fold"
      BY <2>4, SetNone, Moved
    <3>2. At(w, s)'
      BY <2>1, <2>2, <2>4, <3>1
         DEF At, Kind, Begun, Putting, Lifted, Returning, Shows, Between, Lifting
    <3> QED  BY <1>1, <2>1, <2>4, <3>1, <3>2, Stays
  <2> QED  BY <2>1, <2>2, <2>3, <2>4
<1>7. CASE TabFold(w)
  <2>1. /\ pc[w] = "fold" /\ UNCHANGED <<row, buffer_row, buffer, screen>> /\ UNCHANGED reg
        /\ col' = reg[w].col % Width /\ UNCHANGED seen /\ Goto(w, "line_up")
    BY <1>7 DEF TabFold
  <2>2. c = "\t" /\ Stop(s) >= Width /\ Shows(s.lines) /\ reg[w].col = Stop(s)
    BY <1>1, <2>1 DEF Kind, Begun
  <2>3. Moves(w, "line_up", reg'[w]) /\ reg'[w] = reg[w] /\ pc'[w] = "line_up"
    BY <2>1, SetNone, Moved
  <2>4. At(w, s)'
    BY <2>1, <2>2, <2>3 DEF At, Kind, Begun, Putting, Lifted, Returning, Shows, Between, Lifting
  <2> QED  BY <1>1, <2>1, <2>3, <2>4, Stays
<1>8. CASE Wrap(w)
  <2>1. /\ pc[w] = "wrap" /\ UNCHANGED <<row, buffer_row, buffer, screen>> /\ UNCHANGED reg
        /\ col' = 0 /\ UNCHANGED seen /\ Goto(w, "row")
    BY <1>8 DEF Wrap
  <2>2. Ordinary(c) /\ Shows(Below(s.lines)) /\ s.col = Width
    BY <1>1, <2>1 DEF Kind, Putting
  <2>3. Page(s).lines = Below(s.lines) /\ Page(s).col = 0 /\ Page(s).col < Width
    BY <1>1, <2>2, PageFacts
  <2>4. Moves(w, "row", reg'[w]) /\ reg'[w] = reg[w] /\ pc'[w] = "row"
    BY <2>1, SetNone, Moved
  <2>5. At(w, s)'
    BY <2>1, <2>2, <2>3, <2>4
       DEF At, Kind, Begun, Putting, Lifted, Returning, Shows, Between, Lifting
  <2> QED  BY <1>1, <2>1, <2>4, <2>5, Stays
<1> QED  BY <1>3, <1>4, <1>5, <1>6, <1>7, <1>8

\* line_up() returns.
LEMMA LineEndKeeps ==
    ASSUME IInv, NEW w \in Writers, NEW S, NEW s, Held(S), Writing(w, S, s),
           pc[w] \in {"down", "last"}, LineDone(w), UNCHANGED col,
           buffer' \in Buffers(S), screen' \in Screens(S), Shows(Below(s.lines))'
    PROVE  SheetInv'
<1> DEFINE c == reg[w].ch
<1>1. Blank \in S /\ s \in Sheets(S) /\ c \in S /\ Kind(w, s)
  BY WritingFacts
<1>2. \/ c = "\n"
      \/ c = "\t" /\ Stop(s) >= Width /\ col = Stop(s) % Width
      \/ Ordinary(c) /\ s.col = Width
  BY <1>1 DEF Kind, Lifting
<1>3. CASE c = "\n"
  <2>1. Goto(w, "return") /\ UNCHANGED reg /\ UNCHANGED seen
    BY <1>3 DEF LineDone
  <2>2. Moves(w, "return", reg'[w]) /\ reg'[w] = reg[w] /\ pc'[w] = "return"
    BY <2>1, SetNone, Moved
  <2>3. At(w, s)'
    BY <1>3, <2>2 DEF At, Kind, Begun, Putting, Lifted, Returning, Shows, Between, Lifting
  <2> QED  BY <2>1, <2>2, <2>3, Stays
<1>4. CASE c = "\t" /\ Stop(s) >= Width /\ col = Stop(s) % Width
  <2> DEFINE q == [lines |-> Below(s.lines), col |-> Stop(s) % Width]
  <2>1. Return(w)
    BY <1>4 DEF LineDone
  <2>2. ~ (Stop(s) < Width)
    BY <1>1, <1>4, StopFacts, Sizes
  <2>3. q = Type(s, c)
    BY <1>1, <1>4, <2>2, TypeIs
  <2>4. Shows(q.lines)' /\ col' = q.col
    BY <1>4
  <2> HIDE DEF q
  <2> QED  BY <2>1, <2>3, <2>4, Ends
<1>5. CASE Ordinary(c) /\ s.col = Width
  <2>1. Goto(w, "wrap") /\ UNCHANGED reg /\ UNCHANGED seen
    BY <1>5 DEF LineDone, Ordinary
  <2>2. Moves(w, "wrap", reg'[w]) /\ reg'[w] = reg[w] /\ pc'[w] = "wrap"
    BY <2>1, SetNone, Moved
  <2>3. At(w, s)'
    BY <1>5, <2>2 DEF At, Kind, Begun, Putting, Lifted, Returning, Shows, Between, Lifting
  <2> QED  BY <2>1, <2>2, <2>3, Stays
<1> QED  BY <1>2, <1>3, <1>4, <1>5

\* line_up(), up to the test of the row: a new line on the ring.
LEMMA RingKeeps ==
    ASSUME IInv, NEW w \in Writers, NEW S, NEW s, Held(S), Writing(w, S, s),
           ReadLine(w) \/ WriteLine(w) \/ ClearLine(w) \/ TestHeight(w)
    PROVE  SheetInv'
<1> DEFINE lines == s.lines
<1>1. /\ Blank \in S /\ lines \in Lines(S) /\ buffer \in Buffers(S) /\ screen \in Screens(S)
      /\ buffer_row \in Ring /\ row \in 0 .. (Height - 1)
      /\ Kind(w, s) /\ Lifted(w, s)
  BY WritingFacts
<1>2. CASE ReadLine(w)
  <2>1. /\ pc[w] = "line_up" /\ UNCHANGED <<row, col, buffer_row, buffer, screen>>
        /\ reg' = [reg EXCEPT ![w].line = (buffer_row + 1) % BufferHeight]
        /\ UNCHANGED seen /\ Goto(w, "line")
    BY <1>2 DEF ReadLine, tty
  <2>2. Shows(lines)
    BY <1>1, <2>1 DEF Lifted
  <2>3. /\ Moves(w, "line", reg'[w]) /\ reg'[w].ch = reg[w].ch
        /\ reg'[w].line = (buffer_row + 1) % BufferHeight /\ pc'[w] = "line"
    <3> DEFINE x == (buffer_row + 1) % BufferHeight
    <3>1. Goto(w, "line") /\ reg' = [reg EXCEPT ![w].line = x]
      BY <2>1
    <3> HIDE DEF x
    <3>2. Moves(w, "line", reg'[w]) /\ reg'[w].ch = reg[w].ch /\ reg'[w].line = x
      BY <3>1, SetLine
    <3>3. pc'[w] = "line"
      BY <3>2, Moved
    <3> QED  BY <3>2, <3>3 DEF x
  <2>4. Kind(w, s)'
    BY <1>1, <2>1, <2>3 DEF Kind, Lifting
  <2>5. At(w, s)'
    BY <2>1, <2>2, <2>3, <2>4 DEF At, Begun, Putting, Lifted, Returning, Shows, Between
  <2> QED  BY <1>1, <2>1, <2>3, <2>5, Stays
<1>3. CASE WriteLine(w)
  <2>1. /\ pc[w] = "line" /\ UNCHANGED <<row, col, buffer, screen>> /\ UNCHANGED reg
        /\ buffer_row' = reg[w].line /\ UNCHANGED seen /\ Goto(w, "clear")
    BY <1>3 DEF WriteLine
  <2>2. Shows(lines) /\ buffer_row' = (buffer_row + 1) % BufferHeight
    BY <1>1, <2>1 DEF Lifted
  <2>3. OnRing(Below(lines), buffer_row', buffer, 1)
    BY <1>1, <2>2, RingNext DEF Shows
  <2>4. Moves(w, "clear", reg'[w]) /\ reg'[w] = reg[w] /\ pc'[w] = "clear"
    BY <2>1, SetNone, Moved
  <2>5. Kind(w, s)'
    BY <1>1, <2>1, <2>4 DEF Kind, Lifting
  <2>6. At(w, s)'
    BY <2>1, <2>2, <2>3, <2>4, <2>5 DEF At, Begun, Putting, Lifted, Returning, Shows, Between
  <2> QED  BY <1>1, <2>1, <2>4, <2>6, Stays
<1>4. CASE ClearLine(w)
  <2>1. /\ pc[w] = "clear" /\ UNCHANGED <<row, col, buffer_row, screen>> /\ UNCHANGED reg
        /\ buffer' = Cleared(buffer, reg[w].line) /\ UNCHANGED seen /\ Goto(w, "height")
    BY <1>4 DEF ClearLine
  <2>2. Between(lines, 1) /\ OnScreen(lines, screen) /\ reg[w].line = buffer_row
    BY <1>1, <2>1 DEF Lifted
  <2>3. buffer' = Cleared(buffer, buffer_row)
    BY <2>1, <2>2
  <2>4. buffer' \in Buffers(S) /\ OnRing(Below(lines), buffer_row, buffer', 0)
    BY <1>1, <2>2, <2>3, RingCleared DEF Between
  <2>5. Moves(w, "height", reg'[w]) /\ reg'[w] = reg[w] /\ pc'[w] = "height"
    BY <2>1, SetNone, Moved
  <2>6. Kind(w, s)'
    BY <1>1, <2>1, <2>5 DEF Kind, Lifting
  <2>7. At(w, s)'
    BY <2>1, <2>2, <2>4, <2>5, <2>6 DEF At, Begun, Putting, Lifted, Returning, Shows, Between
  <2> QED  BY <1>1, <2>1, <2>4, <2>5, <2>7, Stays
<1>5. CASE TestHeight(w)
  <2> DEFINE label == IF row < Height - 1 THEN "down" ELSE "scroll"
  <2>1. /\ pc[w] = "height" /\ UNCHANGED <<row, col, buffer_row, buffer, screen>>
        /\ reg' = [reg EXCEPT ![w].row = row] /\ UNCHANGED seen /\ Goto(w, label)
    BY <1>5 DEF TestHeight, tty
  <2>2. Between(lines, 0) /\ OnScreen(lines, screen)
    BY <1>1, <2>1 DEF Lifted
  <2>3. \/ label = "down" /\ row < Height - 1
        \/ label = "scroll" /\ row = Height - 1
    <3>1. Height \in Nat
      BY Sizes
    <3> QED  BY <1>1, <3>1
  <2> HIDE DEF label
  <2>4. /\ Moves(w, label, reg'[w]) /\ reg'[w].ch = reg[w].ch /\ reg'[w].row = row
        /\ pc'[w] = label
    <3>1. Moves(w, label, reg'[w]) /\ reg'[w].ch = reg[w].ch /\ reg'[w].row = row
      BY <2>1, SetRow
    <3> QED  BY <3>1, Moved
  <2>5. Kind(w, s)'
    BY <1>1, <2>1, <2>3, <2>4 DEF Kind, Lifting
  <2>6. At(w, s)'
    BY <2>1, <2>2, <2>3, <2>4, <2>5 DEF At, Begun, Putting, Lifted, Returning, Shows, Between
  <2>7. label \notin {"idle", "halted"}
    BY <2>3
  <2> QED  BY <1>1, <2>1, <2>4, <2>6, <2>7, Stays
<1> QED  BY <1>2, <1>3, <1>4, <1>5

\* line_up(), after the test of the row: a new line on the screen.
LEMMA ScreenKeeps ==
    ASSUME IInv, NEW w \in Writers, NEW S, NEW s, Held(S), Writing(w, S, s),
           RowDown(w) \/ StartScroll(w) \/ CopyLine(w) \/ EndCopy(w) \/ ClearLast(w)
    PROVE  SheetInv'
<1> DEFINE lines == s.lines
           below == Below(lines)
<1>1. /\ Blank \in S /\ lines \in Lines(S) /\ buffer \in Buffers(S) /\ screen \in Screens(S)
      /\ buffer_row \in Ring /\ row \in 0 .. (Height - 1)
      /\ Kind(w, s) /\ Lifted(w, s)
  BY WritingFacts
<1>2. Height \in Nat /\ Height >= 1 /\ BufferHeight \in Nat /\ Height <= BufferHeight
  BY Sizes
<1>3. /\ below \in Lines(S)
      /\ row = Bottom(lines) /\ row = Height - 1 => Bottom(below) = Height - 1
  BY <1>1, <1>2, BelowFacts
<1> HIDE DEF below
<1>4. CASE RowDown(w)
  <2>1. /\ pc[w] = "down" /\ UNCHANGED <<col, buffer_row, buffer, screen>>
        /\ row' = reg[w].row + 1 /\ LineDone(w)
    BY <1>4 DEF RowDown, Lower
  <2>2. Between(lines, 0) /\ OnScreen(lines, screen) /\ row < Height - 1 /\ reg[w].row = row
    BY <1>1, <2>1 DEF Lifted
  <2>3. OnScreen(below, screen) /\ Bottom(below) = Bottom(lines) + 1
    BY <1>1, <2>2, ScreenDown DEF Between, below
  <2>4. Shows(below)'
    BY <2>1, <2>2, <2>3 DEF Shows, Between, below
  <2> QED  BY <1>1, <2>1, <2>4, LineEndKeeps DEF below
<1>5. CASE StartScroll(w)
  <2>1. /\ pc[w] = "scroll" /\ UNCHANGED <<row, col, buffer_row, buffer, screen>>
        /\ reg' = [reg EXCEPT ![w] = [reg[w] EXCEPT !.line = StartLine, !.row = 0]]
        /\ UNCHANGED seen /\ Goto(w, "copy")
    BY <1>5 DEF StartScroll, tty
  <2>2. Between(lines, 0) /\ row = Height - 1
    BY <1>1, <2>1 DEF Lifted
  <2>3. Copied(below, screen, 0)
    BY DEF Copied
  <2>4. StartLine = Above(buffer_row, Height - 1 - 0) /\ 0 \in Rows
    <3>1. buffer_row \in Int
      BY <1>1, <1>2 DEF Ring
    <3>2. buffer_row - Height + 1 = buffer_row - (Height - 1 - 0)
      BY <1>2, <3>1
    <3> QED  BY <1>2, <3>2 DEF StartLine, Above, Rows
  <2>5. /\ Moves(w, "copy", reg'[w]) /\ reg'[w].ch = reg[w].ch /\ reg'[w].row = 0
        /\ reg'[w].line = StartLine /\ pc'[w] = "copy"
    <3>1. Moves(w, "copy", reg'[w]) /\ reg'[w].ch = reg[w].ch /\ reg'[w].row = 0
          /\ reg'[w].line = StartLine
      <4>1. PICK x, y, q : x = StartLine /\ y = 0 /\ q = [reg[w] EXCEPT !.line = x, !.row = y]
        OBVIOUS
      <4>2. reg' = [reg EXCEPT ![w] = q] /\ Goto(w, "copy") /\ x = StartLine /\ y = 0
        BY <2>1, <4>1
      <4>3. q = LineRow(reg[w], x, y)
        BY <4>1 DEF LineRow
      <4>4. Shaped(q) /\ q.ch = reg[w].ch /\ q.row = y /\ q.line = x
        BY <4>3, LineRowFields
      <4>5. Moves(w, "copy", reg'[w]) /\ reg'[w] = q
        BY <4>2, <4>4, SetAll
      <4> QED  BY <4>2, <4>4, <4>5
    <3>2. pc'[w] = "copy"
      BY <3>1, Moved
    <3> QED  BY <3>1, <3>2
  <2>6. Kind(w, s)'
    BY <1>1, <2>1, <2>5 DEF Kind, Lifting
  <2>7. At(w, s)'
    BY <2>1, <2>2, <2>3, <2>4, <2>5, <2>6
       DEF At, Begun, Putting, Lifted, Returning, Shows, Between, below
  <2> QED  BY <1>1, <2>1, <2>5, <2>7, Stays
<1>6. CASE CopyLine(w)
  <2>0. PICK i, l : i = reg[w].row /\ l = reg[w].line
    OBVIOUS
  <2> DEFINE new == [x \in DOMAIN screen |->
                        IF x \in Cells(i) THEN buffer[l * Width + (x % Width)] ELSE screen[x]]
             next == (l + 1) % BufferHeight
  <2>1. /\ pc[w] = "copy" /\ UNCHANGED <<row, col, buffer_row, buffer, pc>>
        /\ l # buffer_row /\ screen' = new
        /\ reg' = [reg EXCEPT ![w] = [reg[w] EXCEPT !.line = next, !.row = i + 1]]
        /\ UNCHANGED seen
    BY <1>6, <2>0 DEF CopyLine, IInv, RegistersShape
  <2>2. /\ Between(lines, 0) /\ row = Height - 1 /\ Copied(below, screen, i)
        /\ i \in Rows /\ l = Above(buffer_row, Height - 1 - i)
    BY <1>1, <2>0, <2>1 DEF Lifted, below
  <2>3. i \in 0 .. (Height - 2) /\ next = Above(buffer_row, Height - 1 - (i + 1)) /\ i + 1 \in Rows
    <3> DEFINE j == Height - 1 - i
    <3>1. i \in 0 .. (Height - 1) /\ j \in 0 .. BufferHeight /\ j < BufferHeight
      BY <1>2, <2>2 DEF Rows
    <3>2. j # 0
      <4> HIDE DEF j
      <4>1. Above(buffer_row, 0) = buffer_row
        BY <1>1, <1>2, RingFacts
      <4> QED  BY <2>1, <2>2, <4>1 DEF j
    <3>3. j \in 1 .. (BufferHeight - 1) /\ j - 1 = Height - 1 - (i + 1) /\ i \in 0 .. (Height - 2)
          /\ i + 1 \in Rows
      BY <1>2, <3>1, <3>2 DEF Rows
    <3>4. l = Above(buffer_row, j)
      BY <2>2
    <3> HIDE DEF j
    <3>5. next = Above(buffer_row, j - 1)
      BY <1>1, <3>3, <3>4, AboveStep
    <3> QED  BY <3>3, <3>5
  <2>4. Bottom(below) = Height - 1 /\ OnRing(below, buffer_row, buffer, 0)
    BY <1>3, <2>2 DEF Between, below
  <2>5. new \in Screens(S) /\ Copied(below, new, i + 1)
    <3>1. i \in 0 .. (Height - 2) /\ l = Above(buffer_row, Height - 1 - i)
      BY <2>2, <2>3
    <3> QED  BY <1>1, <1>3, <2>2, <2>4, <3>1, CopyOne
  <2> HIDE DEF new, next
  <2>6. Goto(w, "copy")
    BY <2>1 DEF Goto, IInv, RegistersShape
  <2>7. /\ Moves(w, "copy", reg'[w]) /\ reg'[w].ch = reg[w].ch /\ reg'[w].row = i + 1
        /\ reg'[w].line = next /\ pc'[w] = "copy"
    <3>1. Moves(w, "copy", reg'[w]) /\ reg'[w].ch = reg[w].ch /\ reg'[w].row = i + 1
          /\ reg'[w].line = next
      <4>1. PICK x, y, q : x = next /\ y = i + 1 /\ q = [reg[w] EXCEPT !.line = x, !.row = y]
        OBVIOUS
      <4>2. reg' = [reg EXCEPT ![w] = q] /\ Goto(w, "copy") /\ x = next /\ y = i + 1
        BY <2>1, <2>6, <4>1
      <4>3. q = LineRow(reg[w], x, y)
        BY <4>1 DEF LineRow
      <4>4. Shaped(q) /\ q.ch = reg[w].ch /\ q.row = y /\ q.line = x
        BY <4>3, LineRowFields
      <4>5. Moves(w, "copy", reg'[w]) /\ reg'[w] = q
        BY <4>2, <4>4, SetAll
      <4> QED  BY <4>2, <4>4, <4>5
    <3>2. pc'[w] = "copy"
      BY <3>1, Moved
    <3> QED  BY <3>1, <3>2
  <2>8. Kind(w, s)'
    BY <1>1, <2>1, <2>7 DEF Kind, Lifting
  <2>9. At(w, s)'
    BY <2>1, <2>2, <2>3, <2>5, <2>7, <2>8
       DEF At, Begun, Putting, Lifted, Returning, Shows, Between, below
  <2> QED  BY <1>1, <2>1, <2>5, <2>7, <2>9, Stays
<1>7. CASE EndCopy(w)
  <2>1. /\ pc[w] = "copy" /\ UNCHANGED <<row, col, buffer_row, buffer, screen>> /\ UNCHANGED reg
        /\ reg[w].line = buffer_row /\ UNCHANGED seen /\ Goto(w, "last")
    BY <1>7 DEF EndCopy, tty
  <2>2. /\ Between(lines, 0) /\ row = Height - 1 /\ Copied(below, screen, reg[w].row)
        /\ reg[w].row \in Rows /\ reg[w].line = Above(buffer_row, Height - 1 - reg[w].row)
    BY <1>1, <2>1 DEF Lifted, below
  <2>3. reg[w].row = Height - 1
    <3> DEFINE i == reg[w].row
               j == Height - 1 - i
    <3>1. i \in 0 .. (Height - 1) /\ j \in 0 .. BufferHeight /\ j < BufferHeight
      BY <1>2, <2>2 DEF Rows
    <3>2. Above(buffer_row, j) = buffer_row
      BY <2>1, <2>2
    <3>3. j = 0
      <4> HIDE DEF j
      <4> QED  BY <1>1, <3>1, <3>2, RingFacts
    <3> QED  BY <1>2, <3>1, <3>3
  <2>4. Moves(w, "last", reg'[w]) /\ reg'[w] = reg[w] /\ pc'[w] = "last"
    BY <2>1, SetNone, Moved
  <2>5. Kind(w, s)'
    BY <1>1, <2>1, <2>4 DEF Kind, Lifting
  <2>6. At(w, s)'
    BY <2>1, <2>2, <2>3, <2>4, <2>5
       DEF At, Begun, Putting, Lifted, Returning, Shows, Between, below
  <2> QED  BY <1>1, <2>1, <2>4, <2>6, Stays
<1>8. CASE ClearLast(w)
  <2>1. /\ pc[w] = "last" /\ UNCHANGED <<row, col, buffer_row, buffer>>
        /\ screen' = Cleared(screen, reg[w].row) /\ LineDone(w)
    BY <1>8 DEF ClearLast
  <2>2. /\ Between(lines, 0) /\ row = Height - 1 /\ Copied(below, screen, Height - 1)
        /\ reg[w].row = Height - 1
    BY <1>1, <2>1 DEF Lifted, below
  <2>3. Bottom(below) = Height - 1
    BY <1>3, <2>2 DEF Between
  <2>4. screen' \in Screens(S) /\ OnScreen(below, screen')
    BY <1>1, <2>1, <2>2, <2>3, ScreenLast DEF below
  <2>5. Shows(below)'
    BY <2>1, <2>2, <2>3, <2>4 DEF Shows, Between, below
  <2> QED  BY <1>1, <2>1, <2>4, <2>5, LineEndKeeps DEF below
<1> QED  BY <1>4, <1>5, <1>6, <1>7, <1>8

\* A new character may add a member to the set of characters.
LEMMA Wider ==
    ASSUME NEW S, NEW T, S \subseteq T
    PROVE  /\ Seq(S) \subseteq Seq(T) /\ Sheets(S) \subseteq Sheets(T)
           /\ Buffers(S) \subseteq Buffers(T) /\ Screens(S) \subseteq Screens(T)
<1>1. \A A, B : A \subseteq B => Seq(A) \subseteq Seq(B)
  BY SeqMonotonic
<1>2. [Columns -> S] \subseteq [Columns -> T]
  OBVIOUS
<1>3. Lines(S) \subseteq Lines(T)
  BY <1>1, <1>2 DEF Lines
<1>4. Sheets(S) \subseteq Sheets(T)
  BY <1>3 DEF Sheets
<1> QED  BY <1>1, <1>4 DEF Buffers, Screens

\* A character begins.
LEMMA BackendKeeps ==
    ASSUME IInv, SheetInv, NEW w \in Writers, Backend(w)
    PROVE  SheetInv'
<1> SUFFICES ASSUME sound' PROVE SheetInv'
  BY DEF SheetInv
<1>1. /\ pc[w] = "idle" /\ Goto(w, "putchar") /\ UNCHANGED <<row, col, buffer_row, buffer, screen>>
      /\ reg' = [reg EXCEPT ![w].ch = Head(text[w])]
      /\ sound /\ Inside = {} /\ log' = Append(log, Head(text[w]))
  BY DEF Backend, tty
<1>2. PICK S : Held(S) /\ Idle
  BY <1>1 DEF SheetInv, Writing
<1>3. PICK c : c = Head(text[w])
  OBVIOUS
<1>4. PICK s : s = Typed(log)
  OBVIOUS
<1> DEFINE T == S \cup {c}
<1>5. /\ Blank \in T /\ log \in Seq(T) /\ s \in Sheets(T) /\ c \in T
      /\ buffer \in Buffers(T) /\ screen \in Screens(T)
  <2>1. S \subseteq T /\ c \in T
    OBVIOUS
  <2> HIDE DEF T
  <2> QED  BY <1>2, <1>4, <2>1, Wider DEF Held
<1> HIDE DEF T
<1>6. Typed(Append(log, c)) = Type(s, c) /\ Append(log, c) \in Seq(T)
  BY <1>4, <1>5, TypedAppend
<1>7. log' = Append(log, c)
  BY <1>1, <1>3
<1>8. Typed(log)' = Typed(Append(log, c))
  BY <1>7 DEF Typed
<1>9. Held(T)'
  <2>1. Type(s, c) \in Sheets(T)
    BY <1>5, TypeSheet
  <2> QED  BY <1>1, <1>5, <1>6, <1>7, <1>8, <2>1 DEF Held
<1>10. Moves(w, "putchar", reg'[w]) /\ reg'[w].ch = c /\ pc'[w] = "putchar"
  BY <1>1, <1>3, SetCh, Moved
<1>11. Inside' = {w}
  BY <1>1, <1>10, Moved
<1>12. Shows(s.lines) /\ col = s.col
  BY <1>2, <1>4 DEF Idle
<1>13. At(w, s)'
  BY <1>1, <1>10, <1>12 DEF At, Kind, Begun, Putting, Lifted, Returning, Shows, Between, Lifting
<1>14. Writing(w, T, s)'
  BY <1>5, <1>6, <1>8, <1>10, <1>11, <1>13 DEF Writing
<1> QED  BY <1>9, <1>14 DEF SheetInv

\* A step that changes nothing that is seen.
LEMMA UnseenKeeps ==
    ASSUME SheetInv, UNCHANGED <<tty, pc, reg, seen>>
    PROVE  SheetInv'
<1> SUFFICES ASSUME sound' PROVE SheetInv'
  BY DEF SheetInv
<1>1. UNCHANGED <<row, col, buffer_row, buffer, screen>> /\ UNCHANGED pc /\ UNCHANGED reg
      /\ UNCHANGED <<sound, log>>
  BY DEF tty, seen
<1>2. PICK S : Held(S) /\ (Idle \/ \E w \in Writers : \E s : Writing(w, S, s))
  BY <1>1 DEF SheetInv
<1>3. Typed(log)' = Typed(log) /\ Inside' = Inside
  BY <1>1, LogStays DEF Inside
<1>4. Held(S)'
  BY <1>1, <1>2, <1>3 DEF Held
<1>5. CASE Idle
  <2>1. Idle'
    BY <1>1, <1>3, <1>5 DEF Idle, Shows
  <2> QED  BY <1>4, <2>1 DEF SheetInv
<1>6. ASSUME NEW w \in Writers, NEW s, Writing(w, S, s) PROVE SheetInv'
  <2>1. Kind(w, s)' <=> Kind(w, s)
    BY <1>1 DEF Kind
  <2>2. Begun(w, s)' <=> Begun(w, s)
    BY <1>1 DEF Begun, Shows
  <2>3. Putting(w, s)' <=> Putting(w, s)
    BY <1>1 DEF Putting, Shows
  <2>4. Lifted(w, s)' <=> Lifted(w, s)
    BY <1>1 DEF Lifted, Shows, Between
  <2>5. Returning(w, s)' <=> Returning(w, s)
    BY <1>1 DEF Returning, Shows
  <2>6. Writing(w, S, s)'
    BY <1>1, <1>3, <1>6, <2>1, <2>2, <2>3, <2>4, <2>5 DEF Writing, At
  <2> QED  BY <1>4, <2>6 DEF SheetInv
<1> QED  BY <1>2, <1>5, <1>6

\* At the beginning there is one empty line.
LEMMA SheetBegins == Init => SheetInv
<1> SUFFICES ASSUME Init PROVE SheetInv
  OBVIOUS
<1> DEFINE S == {Blank}
           s == EmptySheet
<1>1. /\ row = 0 /\ col = 0 /\ buffer_row = 1 % BufferHeight
      /\ buffer = [i \in 0 .. (BufferHeight * Width - 1) |-> Blank]
      /\ screen = [i \in 0 .. (Height * Width - 1) |-> Blank]
      /\ pc = [w \in Writers |-> "idle"] /\ log = <<>>
  BY DEF Init
<1>2. Width \in Nat /\ Height \in Nat /\ BufferHeight \in Nat /\ Height >= 1 /\ BufferHeight >= 1
  BY Sizes
<1>3. Blank \in S
  OBVIOUS
<1> HIDE DEF S
<1>4. s \in Sheets(S) /\ s.col = 0 /\ Len(s.lines) = 1 /\ s.lines[1] = EmptyLine
  BY <1>3, EmptySheetFacts
<1>5. Typed(log) = s /\ Inside = {} /\ log \in Seq(S)
  BY <1>1, TypedNone DEF Inside
<1>6. buffer \in Buffers(S) /\ screen \in Screens(S)
  BY <1>1, <1>3 DEF Buffers, Screens
<1> HIDE DEF s
<1>7. Bottom(s.lines) = 0
  BY <1>2, <1>4 DEF Bottom, Shown
<1>8. \A k \in Columns : EmptyLine[k] = Blank
  BY <1>3, EmptyLineFacts
<1>9. buffer_row \in Ring
  BY <1>1, <1>2 DEF Ring
<1>10. \A r \in Ring, k \in Columns : Cell(buffer, r, k) = Blank
  <2> TAKE r \in Ring, k \in Columns
  <2>1. r * Width + k \in 0 .. (BufferHeight * Width - 1)
    BY <1>2, CellWithin DEF Ring
  <2> DEFINE i == r * Width + k
  <2> HIDE DEF i
  <2> QED  BY <1>1, <2>1 DEF Cell, i
<1>11. \A r \in Rows, k \in Columns : Cell(screen, r, k) = Blank
  <2> TAKE r \in Rows, k \in Columns
  <2>1. r * Width + k \in 0 .. (Height * Width - 1)
    BY <1>2, CellWithin DEF Rows
  <2> DEFINE i == r * Width + k
  <2> HIDE DEF i
  <2> QED  BY <1>1, <2>1 DEF Cell, i
<1>12. OnRing(s.lines, buffer_row, buffer, 0)
  <2>1. Above(buffer_row, 0) \in Ring
    BY <1>2, <1>9, RingFacts
  <2>2. ASSUME NEW j \in 0 .. 0, NEW k \in Columns
        PROVE  Cell(buffer, Above(buffer_row, j), k) = s.lines[Len(s.lines) - j][k]
    <3>1. j = 0 /\ Len(s.lines) - j = 1
      BY <1>4
    <3> QED  BY <1>4, <1>8, <1>10, <2>1, <3>1
  <2> QED  BY <1>7, <2>2 DEF OnRing
<1>13. OnScreen(s.lines, screen)
  <2>1. ASSUME NEW q \in Rows, NEW k \in Columns
        PROVE  Cell(screen, q, k) = IF q <= 0 THEN s.lines[Len(s.lines) - 0 + q][k] ELSE Blank
    <3>1. q \in Nat /\ (q <= 0 => Len(s.lines) - 0 + q = 1)
      BY <1>2, <1>4 DEF Rows
    <3> QED  BY <1>4, <1>8, <1>11, <3>1
  <2> QED  BY <1>7, <2>1 DEF OnScreen
<1>14. Idle
  BY <1>1, <1>4, <1>5, <1>7, <1>12, <1>13 DEF Idle, Shows
<1>15. Held(S)
  BY <1>3, <1>4, <1>5, <1>6 DEF Held
<1> QED  BY <1>14, <1>15 DEF SheetInv

LEMMA SheetKeeps == IInv /\ SheetInv /\ [Next]_vars => SheetInv'
<1> SUFFICES ASSUME IInv, SheetInv, [Next]_vars PROVE SheetInv'
  OBVIOUS
<1>1. CASE UNCHANGED vars
  BY <1>1, UnseenKeeps DEF vars
<1>2. ASSUME NEW w \in Writers, Step(w) PROVE SheetInv'
  <2>1. CASE Call(w)
    BY <2>1, UnseenKeeps DEF Call
  <2>2. CASE Backend(w)
    BY <2>2, BackendKeeps
  <2>3. ASSUME ~ Call(w), ~ Backend(w) PROVE SheetInv'
    <3>1. CASE ~ sound'
      BY <3>1 DEF SheetInv
    <3>2. CASE sound'
      <4>1. sound /\ w \in Inside
        <5>1. pc[w] \notin {"idle", "halted"} /\ UNCHANGED seen
          BY <1>2, <2>3
             DEF Step, tty_putchar, put_char, ReadRow, WriteVideo, ReadCol, WriteRing, Advance,
                 CarriageReturn, ReadTab, TabStop, TabFold, ReadLine, WriteLine, ClearLine,
                 TestHeight, RowDown, StartScroll, CopyLine, EndCopy, ClearLast, Wrap,
                 LineDone, Return
        <5> QED  BY <3>2, <5>1 DEF Inside, seen
      <4>2. PICK S : Held(S) /\ (Idle \/ \E v \in Writers : \E s : Writing(v, S, s))
        BY <4>1 DEF SheetInv
      <4>3. PICK s : Writing(w, S, s)
        BY <4>1, <4>2 DEF Idle, Writing
      <4> QED  BY <1>2, <2>3, <4>2, <4>3, StartKeeps, CharKeeps, ColumnKeeps, RingKeeps, ScreenKeeps
                DEF Step
    <3> QED  BY <3>1, <3>2
  <2> QED  BY <2>1, <2>2, <2>3
<1> QED  BY <1>1, <1>2 DEF Next

\* The invariant of what the screen shows: where the writer inside a character
\* stands and how much of the character has reached the ring and the screen.
THEOREM SheetInvariance == Spec => []SheetInv
BY Invariance, SheetBegins, SheetKeeps, PTL DEF Spec

\* As long as characters were printed one at a time the screen shows the last
\* lines of what went to the debug port, for every text, number of writers and
\* size of screen and ring: tty_putchar() neither loses nor shifts a line when
\* the ring or the screen is full.
THEOREM ScreenCorrect == Spec => []ScreenShowsLog
<1>1. SheetInv => ScreenShowsLog
  <2> SUFFICES ASSUME SheetInv, Quiet PROVE ScreenShowsLog
    BY DEF ScreenShowsLog
  <2>1. PICK S : Held(S) /\ Idle
    BY DEF SheetInv, Quiet, Writing
  <2> DEFINE sheet == Typed(log)
             lines == sheet.lines
             n == Len(lines)
             first == IF n > Height THEN n - Height ELSE 0
  <2>2. /\ lines \in Lines(S) /\ row = Bottom(lines) /\ col = sheet.col
        /\ OnScreen(lines, screen)
    BY <2>1, SheetFacts DEF Held, Idle, Shows
  <2>3. n \in Nat /\ Height \in Nat
    BY <2>2, LinesFacts, Sizes
  <2>4. Bottom(lines) = (IF n > Height THEN Height ELSE n) - 1
    BY DEF Bottom, Shown
  <2> HIDE DEF sheet, lines, n
  <2>5. row = n - first - 1 /\ n - Bottom(lines) = first + 1 /\ first \in Nat
    BY <2>2, <2>3, <2>4
  <2> HIDE DEF first
  <2>6. ASSUME NEW r \in 0 .. (Height - 1), NEW k \in 0 .. (Width - 1)
        PROVE  screen[r * Width + k] = IF r <= row THEN lines[first + r + 1][k] ELSE Blank
    <3>1. r \in Rows /\ k \in Columns
      BY DEF Rows, Columns
    <3>2. Cell(screen, r, k) = IF r <= Bottom(lines) THEN lines[n - Bottom(lines) + r][k] ELSE Blank
      BY <2>2, <3>1 DEF OnScreen, n
    <3>3. n - Bottom(lines) + r = first + r + 1
      BY <2>5
    <3> QED  BY <2>2, <3>2, <3>3 DEF Cell
  <2> QED  BY <2>2, <2>5, <2>6 DEF ScreenShowsLog, sheet, lines, n, first
<1> QED  BY <1>1, SheetInvariance, PTL
-----------------------------------------------------------------------------
(***************************************************************************)
(* What the writers print.  A writer inside tty_putchar() has a character  *)
(* left to print, and one that has nothing left is between two calls.      *)
(***************************************************************************)
Asked     == (UNION {Requests[w] : w \in Writers}) \cup {<<Lit(HaltText)>>, <<>>}
Requested == [items : Asked, printed : Seq(Printed)]

TextInv ==
    /\ text \in [Writers -> Seq(Printed)] /\ log \in Seq(Printed)
    /\ request \in [Writers -> Requested]
    /\ \A w \in Writers : /\ pc[w] \notin {"idle", "halted"} => text[w] # <<>>
                          /\ text[w] = <<>> => request[w].printed = <<>>
    /\ Formatted

\* What conversions make and what callers pass is printed.
LEMMA OwnCharacters ==
    ASSUME NEW S, NEW chars \in Seq(S)
    PROVE  chars \in Seq(ToSet(chars))
<1>1. PICK n, T : n = Len(chars) /\ T = ToSet(chars)
  OBVIOUS
<1>2. n \in Nat /\ chars = [i \in 1 .. n |-> chars[i]] /\ \A i \in 1 .. n : chars[i] \in T
  BY <1>1 DEF ToSet
<1>3. chars \in [1 .. n -> T]
  BY <1>2
<1>4. chars \in Seq(T)
  BY <1>2, <1>3
<1> QED  BY <1>1, <1>4

LEMMA CharactersPrinted ==
    ASSUME NEW items, Proper(items), Literal(items) \subseteq Printed, NEW i \in 1 .. Len(items)
    PROVE  items[i].chars \in Seq(Printed)
<1>1. PICK chars : chars = items[i].chars
  OBVIOUS
<1>2. chars \in Seq(STRING)
  <2>1. items[i] \in Item
    BY ProperItems
  <2> QED  BY <1>1, <2>1 DEF Item
<1>3. ToSet(chars) \subseteq Printed
  BY <1>1 DEF Literal
<1>4. chars \in Seq(ToSet(chars))
  BY <1>2, OwnCharacters
<1>5. Seq(ToSet(chars)) \subseteq Seq(Printed)
  BY <1>3, SeqMonotonic
<1> QED  BY <1>1, <1>4, <1>5

LEMMA MarksPrinted == Marks \subseteq Printed
BY DEF Marks, Printed

\* printk() of a request gives what the request means.
LEMMA RequestPrinted ==
    ASSUME NEW w \in Writers, NEW items \in Requests[w]
    PROVE  /\ items \in Asked /\ Meaning(items) \in Seq(Printed)
           /\ printk(Format(items), Arguments(items)) = Meaning(items)
<1>1. Proper(items)
  BY RequestsAssumption
<1>2. Literal(items) \subseteq Printed
  BY DEF Printed, Given
<1>3. \A i \in 1 .. Len(items) : items[i].chars \in Seq(Printed)
  BY <1>1, <1>2, CharactersPrinted
<1>4. Meaning(items) \in Seq(Printed)
  BY <1>1, <1>3, MarksPrinted, MeaningType
<1>5. items \in Asked
  BY DEF Asked
<1> QED  BY <1>1, <1>4, <1>5, FormatPrinted

LEMMA NothingMeans == <<>> \in Asked /\ Meaning(<<>>) = <<>>
<1>1. PICK p : p = [i \in 1 .. Len(<<>>) |-> Meant(<<>>[i])]
  OBVIOUS
<1>2. p \in Seq(Seq(Printed)) /\ Len(p) = 0
  <2>1. p = [i \in 1 .. 0 |-> p[i]] /\ 0 \in Nat /\ \A i \in 1 .. 0 : p[i] \in Seq(Printed)
    BY <1>1
  <2> QED  BY <2>1, PiecesType
<1>3. PICK f : Joins(f, p, Printed) /\ FlattenSeq(p) = f[Len(p)]
  BY <1>2, JoinsExists
<1>4. f[0] = <<>>
  BY <1>3 DEF Joins
<1>5. Meaning(<<>>) = <<>>
  BY <1>1, <1>2, <1>3, <1>4 DEF Meaning
<1>6. <<>> \in Asked
  BY DEF Asked
<1> QED  BY <1>5, <1>6

LEMMA HaltMeans ==
    /\ HaltText \in Seq(Printed) /\ <<Lit(HaltText)>> \in Asked
    /\ Meaning(<<Lit(HaltText)>>) = HaltText
<1>1. PICK item, items, p : /\ item = Lit(HaltText) /\ items = <<item>>
                            /\ p = [i \in 1 .. Len(items) |-> Meant(items[i])]
  OBVIOUS
<1>2. item.conv = "text" /\ item.chars = HaltText
  BY <1>1 DEF Lit
<1>3. Len(items) = 1 /\ items[1] = item /\ 1 \in 1 .. 1 /\ Proper(items)
  BY <1>1, RequestsAssumption
<1>4. Literal(items) \subseteq Printed
  <2>1. Literal(items) = ToSet(HaltText)
    <3>1. \A i \in 1 .. Len(items) : i = 1
      BY <1>3
    <3> QED  BY <1>2, <1>3, <3>1 DEF Literal
  <2> QED  BY <2>1 DEF Printed
<1>5. HaltText \in Seq(Printed)
  BY <1>2, <1>3, <1>4, CharactersPrinted
<1>6. p = [i \in 1 .. 1 |-> p[i]] /\ \A i \in 1 .. 1 : p[i] = HaltText
  <2>1. Meant(item) = HaltText
    BY <1>2 DEF Meant
  <2>2. \A i \in 1 .. 1 : i = 1
    OBVIOUS
  <2> QED  BY <1>1, <1>3, <2>1, <2>2
<1>7. p \in Seq(Seq(Printed)) /\ Len(p) = 1
  <2>1. 1 \in Nat /\ \A i \in 1 .. 1 : p[i] \in Seq(Printed)
    BY <1>5, <1>6
  <2> QED  BY <1>6, <2>1, PiecesType
<1>8. PICK f : Joins(f, p, Printed) /\ FlattenSeq(p) = f[Len(p)]
  BY <1>7, JoinsExists
<1>9. f[1] = HaltText
  <2>1. f[0] = <<>> /\ f[1] = f[1 - 1] \o p[1]
    BY <1>3, <1>7, <1>8 DEF Joins
  <2>2. 1 - 1 = 0 /\ p[1] = HaltText
    BY <1>3, <1>6
  <2>3. f[1] = <<>> \o HaltText
    BY <2>1, <2>2
  <2> QED  BY <1>5, <2>3
<1>10. Meaning(items) = HaltText
  BY <1>1, <1>7, <1>8, <1>9 DEF Meaning
<1>11. <<Lit(HaltText)>> \in Asked
  BY DEF Asked
<1> QED  BY <1>1, <1>5, <1>10, <1>11

Record(items, printed) == [items |-> items, printed |-> printed]

\* The text and the request of one writer change.
LEMMA TextMoves ==
    ASSUME TextInv, NEW w \in Writers, NEW t \in Seq(Printed), NEW i \in Asked,
           NEW p \in Seq(Printed), p \o t = Meaning(i), t = <<>> => p = <<>>,
           text' = [text EXCEPT ![w] = t], request' = [request EXCEPT ![w] = Record(i, p)],
           log' \in Seq(Printed), \A v \in Writers \ {w} : pc'[v] = pc[v],
           pc'[w] \notin {"idle", "halted"} => t # <<>>
    PROVE  TextInv'
<1>1. PICK r : r = Record(i, p)
  OBVIOUS
<1>2. r \in Requested /\ r.items = i /\ r.printed = p
  BY <1>1 DEF Record, Requested
<1>3. text \in [Writers -> Seq(Printed)] /\ request \in [Writers -> Requested]
  BY DEF TextInv
<1>4. text'[w] = t /\ request'[w] = r /\ \A v \in Writers \ {w} : text'[v] = text[v] /\ request'[v] = request[v]
  BY <1>1, <1>3
<1>5. text' \in [Writers -> Seq(Printed)] /\ request' \in [Writers -> Requested]
  BY <1>1, <1>2, <1>3
<1>6. \A v \in Writers : /\ pc'[v] \notin {"idle", "halted"} => text'[v] # <<>>
                         /\ text'[v] = <<>> => request'[v].printed = <<>>
                         /\ request'[v].printed \o text'[v] = Meaning(request'[v].items)
  <2> TAKE v \in Writers
  <2>1. CASE v = w
    BY <1>2, <1>4, <2>1
  <2>2. CASE v # w
    BY <1>4, <2>2 DEF TextInv, Formatted
  <2> QED  BY <2>1, <2>2
<1> QED  BY <1>5, <1>6 DEF TextInv, Formatted

\* No text and no request changes, and nobody begins a character.
LEMMA TextStays ==
    ASSUME TextInv, UNCHANGED <<text, request>>, log' \in Seq(Printed),
           \A v \in Writers : pc'[v] \notin {"idle", "halted"} =>
                                 pc[v] \notin {"idle", "halted"} \/ text[v] # <<>>
    PROVE  TextInv'
BY DEF TextInv, Formatted

\* The first character of a text moves to those that have been printed.
LEMMA HeadMoves ==
    ASSUME NEW S, NEW p \in Seq(S), NEW t \in Seq(S), t # <<>>
    PROVE  /\ Head(t) \in S /\ Tail(t) \in Seq(S) /\ Append(p, Head(t)) \in Seq(S)
           /\ Append(p, Head(t)) \o Tail(t) = p \o t
<1>1. PICK h, r : h = Head(t) /\ r = Tail(t)
  OBVIOUS
<1>2. h \in S /\ r \in Seq(S) /\ <<h>> \in Seq(S)
  BY <1>1
<1>3. t = <<h>> \o r
  BY <1>1, <1>2
<1>4. Append(p, h) = p \o <<h>>
  BY <1>2, AppendIsConcat
<1>5. p \o (<<h>> \o r) = (p \o <<h>>) \o r
  BY <1>2, Associative
<1>6. Append(p, h) \in Seq(S)
  BY <1>2
<1> QED  BY <1>1, <1>2, <1>3, <1>4, <1>5, <1>6

\* tty_putchar() returns to printk(), and printk() to its caller.
LEMMA ReturnText ==
    ASSUME IInv, TextInv, NEW w \in Writers, pc[w] \notin {"idle", "halted"}, Return(w)
    PROVE  TextInv'
<1>1. \A v \in Writers \ {w} : pc'[v] = pc[v]
  BY DEF Return, Goto, IInv, RegistersShape
<1>2. pc'[w] \in {"idle", "halted"}
  BY DEF Return, Goto, IInv, RegistersShape
<1>3. log' \in Seq(Printed)
  BY DEF Return, seen, TextInv
<1>4. PICK t, q : t = text[w] /\ q = request[w]
  OBVIOUS
<1>5. /\ t \in Seq(Printed) /\ t # <<>> /\ q \in Requested
      /\ q.printed \o t = Meaning(q.items) /\ request \in [Writers -> Requested]
  BY <1>4 DEF TextInv, Formatted
<1>6. PICK i, p, rest : i = q.items /\ p = q.printed /\ rest = Tail(t)
  OBVIOUS
<1>7. i \in Asked /\ p \in Seq(Printed)
  BY <1>5, <1>6 DEF Requested
<1>8. /\ Append(p, Head(t)) \in Seq(Printed) /\ rest \in Seq(Printed)
      /\ Append(p, Head(t)) \o rest = p \o t
  BY <1>5, <1>6, <1>7, HeadMoves
<1>9. CASE /\ rest # <<>> /\ text' = [text EXCEPT ![w] = rest]
           /\ request' = [request EXCEPT ![w].printed = Append(@, Head(t))]
  <2>1. PICK done : done = Append(p, Head(t))
    OBVIOUS
  <2>2. request' = [request EXCEPT ![w] = Record(i, done)]
    <3>1. request' = [request EXCEPT ![w] = [q EXCEPT !.printed = done]]
      BY <1>4, <1>5, <1>6, <1>9, <2>1
    <3>2. [q EXCEPT !.printed = done] = Record(i, done)
      BY <1>5, <1>6 DEF Requested, Record
    <3> QED  BY <3>1, <3>2
  <2>3. done \o rest = Meaning(i) /\ done \in Seq(Printed)
    BY <1>5, <1>6, <1>8, <2>1
  <2> QED  BY <1>1, <1>2, <1>3, <1>7, <1>8, <1>9, <2>2, <2>3, TextMoves
<1>10. CASE text' = [text EXCEPT ![w] = <<>>] /\ request' = [request EXCEPT ![w] = NoRequest]
  <2>1. NoRequest = Record(<<>>, <<>>)
    BY DEF NoRequest, Record
  <2>2. <<>> \in Asked /\ <<>> \in Seq(Printed) /\ <<>> \o <<>> = <<>>
    BY NothingMeans
  <2> QED  BY <1>1, <1>2, <1>3, <1>10, <2>1, <2>2, NothingMeans, TextMoves
<1>11. CASE /\ text' = [text EXCEPT ![w] = HaltText]
            /\ request' = [request EXCEPT ![w] = [items |-> <<Lit(HaltText)>>, printed |-> <<>>]]
  <2>1. PICK halt : halt = <<Lit(HaltText)>>
    OBVIOUS
  <2>2. request' = [request EXCEPT ![w] = Record(halt, <<>>)]
    BY <1>11, <2>1 DEF Record
  <2>3. HaltText \in Seq(Printed) /\ halt \in Asked /\ Meaning(halt) = HaltText
    BY <2>1, HaltMeans
  <2>4. <<>> \in Seq(Printed) /\ <<>> \o HaltText = HaltText
    BY <2>3
  <2> QED  BY <1>1, <1>2, <1>3, <1>11, <2>2, <2>3, <2>4, TextMoves
<1> QED  BY <1>4, <1>6, <1>9, <1>10, <1>11 DEF Return

\* A step inside tty_putchar(): it returns, or goes on.
Going(w) ==
    /\ pc[w] \notin {"idle", "halted"}
    /\ Return(w) \/ (UNCHANGED <<job, seen>> /\ \E label : Goto(w, label)) \/ UNCHANGED <<pc, job, seen>>

LEMMA StepsGo ==
    ASSUME NEW w \in Writers, Step(w)
    PROVE  Call(w) \/ Backend(w) \/ Going(w)
<1>1. CASE tty_putchar(w)
  BY <1>1 DEF tty_putchar, Going
<1>2. CASE put_char(w) \/ ReadRow(w) \/ WriteVideo(w) \/ ReadCol(w) \/ WriteRing(w) \/ Wrap(w)
  BY <1>2 DEF put_char, ReadRow, WriteVideo, ReadCol, WriteRing, Wrap, Going
<1>3. CASE Advance(w) \/ CarriageReturn(w) \/ ReadTab(w) \/ TabStop(w) \/ TabFold(w)
  BY <1>3 DEF Advance, CarriageReturn, ReadTab, TabStop, TabFold, Going
<1>4. CASE ReadLine(w) \/ WriteLine(w) \/ ClearLine(w) \/ TestHeight(w) \/ StartScroll(w)
  BY <1>4 DEF ReadLine, WriteLine, ClearLine, TestHeight, StartScroll, Going
<1>5. CASE CopyLine(w) \/ EndCopy(w)
  BY <1>5 DEF CopyLine, EndCopy, Going
<1>6. CASE RowDown(w) \/ ClearLast(w)
  <2>1. LineDone(w) /\ pc[w] \notin {"idle", "halted"}
    BY <1>6 DEF RowDown, ClearLast
  <2> QED  BY <2>1 DEF LineDone, Going
<1> QED  BY <1>1, <1>2, <1>3, <1>4, <1>5, <1>6 DEF Step

LEMMA TextBegins == Init => TextInv
<1> SUFFICES ASSUME Init PROVE TextInv
  OBVIOUS
<1>1. /\ text = [w \in Writers |-> <<>>] /\ log = <<>> /\ pc = [w \in Writers |-> "idle"]
      /\ request = [w \in Writers |-> NoRequest]
  BY DEF Init
<1>2. <<>> \in Asked /\ <<>> \in Seq(Printed) /\ <<>> \o <<>> = <<>>
  BY NothingMeans
<1>3. NoRequest \in Requested /\ NoRequest.items = <<>> /\ NoRequest.printed = <<>>
  BY <1>2 DEF NoRequest, Requested
<1> QED  BY <1>1, <1>2, <1>3, NothingMeans DEF TextInv, Formatted

LEMMA TextKeeps == IInv /\ TextInv /\ [Next]_vars => TextInv'
<1> SUFFICES ASSUME IInv, TextInv, [Next]_vars PROVE TextInv'
  OBVIOUS
<1>1. CASE UNCHANGED vars
  BY <1>1, TextStays DEF vars, job, seen, TextInv
<1>2. ASSUME NEW w \in Writers, Call(w) PROVE TextInv'
  <2>1. PICK items \in Requests[w] :
            /\ request' = [request EXCEPT ![w].items = items]
            /\ text' = [text EXCEPT ![w] = printk(Format(items), Arguments(items))]
    BY <1>2 DEF Call
  <2>2. PICK t : t = Meaning(items)
    OBVIOUS
  <2>3. items \in Asked /\ t \in Seq(Printed) /\ text' = [text EXCEPT ![w] = t]
    BY <2>1, <2>2, RequestPrinted
  <2>4. UNCHANGED <<pc, log>> /\ pc[w] = "idle" /\ text[w] = <<>>
    BY <1>2 DEF Call, Printing, seen
  <2>5. PICK q : q = request[w]
    OBVIOUS
  <2>6. q \in Requested /\ q.printed = <<>> /\ request \in [Writers -> Requested]
    BY <2>4, <2>5 DEF TextInv
  <2>7. request' = [request EXCEPT ![w] = Record(items, <<>>)]
    <3>1. request' = [request EXCEPT ![w] = [q EXCEPT !.items = items]]
      BY <2>1, <2>5, <2>6
    <3>2. [q EXCEPT !.items = items] = Record(items, <<>>)
      BY <2>6 DEF Requested, Record
    <3> QED  BY <3>1, <3>2
  <2>8. <<>> \in Seq(Printed) /\ <<>> \o t = t /\ log' \in Seq(Printed)
    BY <2>3, <2>4 DEF TextInv
  <2> QED  BY <2>2, <2>3, <2>4, <2>7, <2>8, TextMoves
<1>3. ASSUME NEW w \in Writers, Backend(w) PROVE TextInv'
  <2>1. UNCHANGED <<text, request>> /\ text[w] # <<>> /\ Goto(w, "putchar")
        /\ log' \in {Append(log, Head(text[w])), <<>>}
    BY <1>3 DEF Backend, job, Printing
  <2>2. PICK t : t = text[w]
    OBVIOUS
  <2>3. t \in Seq(Printed) /\ log \in Seq(Printed)
    BY <2>2 DEF TextInv
  <2>4. Append(log, Head(t)) \in Seq(Printed) /\ <<>> \in Seq(Printed)
    BY <2>1, <2>2, <2>3
  <2>5. \A v \in Writers : pc'[v] = pc[v] \/ v = w
    BY <2>1 DEF Goto, IInv, RegistersShape
  <2> QED  BY <2>1, <2>2, <2>4, <2>5, TextStays
<1>4. ASSUME NEW w \in Writers, Going(w) PROVE TextInv'
  <2>1. CASE Return(w)
    BY <1>4, <2>1, ReturnText DEF Going
  <2>2. CASE UNCHANGED <<job, seen>> /\ \E label : Goto(w, label)
    <3>1. UNCHANGED <<text, request, log>>
      BY <2>2 DEF job, seen
    <3>2. \A v \in Writers : pc'[v] = pc[v] \/ v = w
      BY <2>2 DEF Goto, IInv, RegistersShape
    <3> QED  BY <1>4, <3>1, <3>2, TextStays DEF Going, TextInv
  <2>3. CASE UNCHANGED <<pc, job, seen>>
    BY <2>3, TextStays DEF job, seen, TextInv
  <2> QED  BY <1>4, <2>1, <2>2, <2>3 DEF Going
<1> QED  BY <1>1, <1>2, <1>3, <1>4, StepsGo DEF Next

\* The invariant of the writers' texts.
THEOREM TextInvariance == Spec => []TextInv
BY Invariance, TextBegins, TextKeeps, PTL DEF Spec

\* However the writers interleave, what a call of printk() has printed and has
\* still to print is what its format and its arguments mean: numbers of every
\* width and sign, 0 and the smallest one too, hexadecimals, strings and percent
\* signs, for every request and every width of int and long.
THEOREM FormattedCorrect == Spec => []Formatted
<1>1. TextInv => Formatted
  BY DEF TextInv
<1> QED  BY <1>1, TextInvariance, PTL
-----------------------------------------------------------------------------
(***************************************************************************)
(* Types.  Only visible characters reach the ring and the screen, for      *)
(* tty_putchar() sorts out the others: a writer's place tells what its     *)
(* character can be.                                                       *)
(***************************************************************************)
Registry == [ch : Printed, row : Nat, col : Nat, line : Nat]

\* What the registers of a writer at that place hold.
Apt(label, r) ==
    /\ label \in {"put_char", "row", "video", "col", "ring", "advance", "wrap"} => r.ch \in Visible
    /\ label \in {"tab", "stop", "fold"} => r.ch = "\t"
    /\ label \in Lifting => r.ch \in Visible \cup {"\n", "\t"}
    /\ label = "copy" => r.line \in Ring

TypeInv ==
    /\ col \in Nat /\ buffer \in Buffers(Visible) /\ screen \in Screens(Visible)
    /\ pc \in [Writers -> Labels] /\ reg \in [Writers -> Registry]
    /\ \A w \in Writers : Apt(pc[w], reg[w])
    /\ irq_off \in Writers \cup {NONE} /\ sound \in BOOLEAN

LEMMA OverwrittenType ==
    ASSUME NEW I, NEW S, NEW array \in [I -> S], NEW c \in S, NEW i
    PROVE  Overwritten(array, i, c) \in [I -> S]
BY DEF Overwritten

LEMMA ClearedType ==
    ASSUME NEW I, NEW S, NEW array \in [I -> S], Blank \in S, NEW line
    PROVE  Cleared(array, line) \in [I -> S]
BY DEF Cleared

LEMMA BlankVisible == Blank \in Visible /\ Blank \in Printed /\ Visible \subseteq Printed
BY DEF Visible, Printed, Blank, Wide, Control

\* The registers of one writer change, and it moves.
LEMMA TypeMoves ==
    ASSUME TypeInv, NEW w \in Writers, NEW label \in Labels, Moves(w, label, reg'[w]),
           reg'[w] \in Registry, Apt(label, reg'[w]), col' \in Nat,
           buffer' \in Buffers(Visible), screen' \in Screens(Visible),
           irq_off' \in Writers \cup {NONE}, sound' \in BOOLEAN
    PROVE  TypeInv'
<1>1. pc \in [Writers -> Labels] /\ reg \in [Writers -> Registry]
  BY DEF TypeInv
<1>2. pc' = [pc EXCEPT ![w] = label] /\ reg' = [reg EXCEPT ![w] = reg'[w]]
  BY DEF Moves
<1>3. pc' \in [Writers -> Labels] /\ reg' \in [Writers -> Registry]
  BY <1>1, <1>2
<1>4. pc'[w] = label /\ \A v \in Writers \ {w} : pc'[v] = pc[v] /\ reg'[v] = reg[v]
  BY <1>1, <1>2
<1>5. \A v \in Writers : Apt(pc'[v], reg'[v])
  <2> TAKE v \in Writers
  <2>1. CASE v = w
    BY <1>4, <2>1
  <2>2. CASE v # w
    <3>1. Apt(pc[v], reg[v])
      BY DEF TypeInv
    <3> QED  BY <1>4, <2>2, <3>1
  <2> QED  BY <2>1, <2>2
<1>6. \A v \in Writers : Apt(pc[v], reg[v])'
  BY <1>5 DEF Apt
<1> QED  BY <1>3, <1>6 DEF TypeInv

LEMMA RegistryIs ==
    ASSUME NEW r, Shaped(r), r.ch \in Printed, r.row \in Nat, r.col \in Nat, r.line \in Nat
    PROVE  r \in Registry
<1>1. [ch |-> r.ch, row |-> r.row, col |-> r.col, line |-> r.line] \in Registry
  BY DEF Registry
<1> QED  BY <1>1 DEF Shaped

LEMMA RegistryHas ==
    ASSUME TypeInv, NEW w \in Writers
    PROVE  /\ reg[w].ch \in Printed /\ reg[w].row \in Nat /\ reg[w].col \in Nat
           /\ reg[w].line \in Nat /\ Apt(pc[w], reg[w])
BY DEF TypeInv, Registry

\* A step inside tty_putchar() that leaves the tasks of the writers alone.
LEMMA TypeGoes ==
    ASSUME TypeInv, NEW w \in Writers, NEW label \in Labels, Moves(w, label, reg'[w]),
           reg'[w].ch = reg[w].ch, reg'[w].row \in Nat, reg'[w].col \in Nat, reg'[w].line \in Nat,
           Apt(label, reg'[w]), col' \in Nat,
           buffer' \in Buffers(Visible), screen' \in Screens(Visible), UNCHANGED <<job, seen>>
    PROVE  TypeInv'
<1>1. reg'[w] \in Registry
  BY RegistryHas, RegistryIs DEF Moves
<1>2. irq_off' \in Writers \cup {NONE} /\ sound' \in BOOLEAN
  BY DEF TypeInv, job, seen
<1> QED  BY <1>1, <1>2, TypeMoves

LEMMA TypeReturns ==
    ASSUME IInv, TypeInv, NEW w \in Writers, Return(w), col' \in Nat,
           buffer' \in Buffers(Visible), screen' \in Screens(Visible)
    PROVE  TypeInv'
<1>1. reg' = [reg EXCEPT ![w] = Registers] /\ UNCHANGED seen
      /\ irq_off' \in {irq_off, NONE, w} /\ (Goto(w, "idle") \/ Goto(w, "halted"))
  BY DEF Return
<1>2. PICK label \in {"idle", "halted"} : Goto(w, label)
  BY <1>1
<1>3. Moves(w, label, reg'[w]) /\ reg'[w] = Registers
  BY <1>1, <1>2, RegShaped, SetAll
<1>4. Registers \in Registry
  BY BlankVisible DEF Registers, Registry
<1>5. Apt(label, Registers) /\ label \in Labels
  BY DEF Apt, Lifting, Labels
<1>6. irq_off' \in Writers \cup {NONE} /\ sound' \in BOOLEAN
  BY <1>1 DEF TypeInv, seen
<1> QED  BY <1>3, <1>4, <1>5, <1>6, TypeMoves

LEMMA TypeLineDone ==
    ASSUME IInv, TypeInv, NEW w \in Writers, pc[w] \in Lifting, LineDone(w), col' \in Nat,
           buffer' \in Buffers(Visible), screen' \in Screens(Visible)
    PROVE  TypeInv'
<1>1. PICK c : c = reg[w].ch
  OBVIOUS
<1>2. c \in Visible \cup {"\n", "\t"}
  BY <1>1, RegistryHas DEF Apt
<1>3. CASE Return(w)
  BY <1>3, TypeReturns
<1>4. CASE /\ UNCHANGED <<reg, job, seen>>
           /\ (c = "\n" /\ Goto(w, "return")) \/ (c \notin {"\n", "\t"} /\ Goto(w, "wrap"))
  <2>1. PICK label \in {"return", "wrap"} : Goto(w, label) /\ (label = "wrap" => c \in Visible)
    BY <1>2, <1>4
  <2>2. Moves(w, label, reg'[w]) /\ reg'[w] = reg[w]
    BY <1>4, <2>1, SetNone
  <2>3. Apt(label, reg'[w]) /\ label \in Labels
    BY <1>1, <2>1, <2>2 DEF Apt, Lifting, Labels
  <2> QED  BY <1>4, <2>2, <2>3, RegistryHas, TypeGoes
<1> QED  BY <1>1, <1>3, <1>4 DEF LineDone

\* The character of a writer at one of the places where it is put.
Putters == {"put_char", "row", "video", "col", "ring", "advance", "wrap"}

LEMMA VisibleThere ==
    ASSUME TypeInv, NEW w \in Writers, pc[w] \in Putters
    PROVE  reg[w].ch \in Visible
BY RegistryHas DEF Apt, Putters

LEMMA AptPutter ==
    ASSUME NEW label \in Putters, NEW r, r.ch \in Visible
    PROVE  Apt(label, r) /\ label \in Labels
BY DEF Apt, Putters, Lifting, Labels

LEMMA AptLifting ==
    ASSUME NEW label \in Lifting, label # "copy", NEW r, r.ch \in Visible \cup {"\n", "\t"}
    PROVE  Apt(label, r) /\ label \in Labels
BY DEF Apt, Lifting, Labels

LEMMA TypePut ==
    ASSUME IInv, TypeInv, NEW w \in Writers,
           \/ put_char(w) \/ ReadRow(w) \/ WriteVideo(w) \/ ReadCol(w) \/ WriteRing(w)
           \/ Advance(w) \/ Wrap(w)
    PROVE  TypeInv'
<1>1. pc[w] \in Putters
  BY DEF put_char, ReadRow, WriteVideo, ReadCol, WriteRing, Advance, Wrap, Putters
<1>2. reg[w].ch \in Visible
  BY <1>1, VisibleThere
<1>3. col \in Nat /\ buffer \in Buffers(Visible) /\ screen \in Screens(Visible) /\ row \in Nat
  BY DEF TypeInv, IInv, RowOnScreen
<1>4. reg[w].row \in Nat /\ reg[w].col \in Nat /\ reg[w].line \in Nat
  BY RegistryHas
<1>5. CASE put_char(w)
  <2>1. PICK label \in {"line_up", "row"} : Goto(w, label)
    BY <1>5 DEF put_char
  <2>2. Moves(w, label, reg'[w]) /\ reg'[w] = reg[w] /\ UNCHANGED <<tty, job, seen>>
    BY <1>5, <2>1, SetNone DEF put_char
  <2>3. Apt(label, reg'[w]) /\ label \in Labels
    BY <1>2, <2>1, <2>2, AptPutter, AptLifting DEF Putters, Lifting
  <2> QED  BY <1>3, <1>4, <2>2, <2>3, TypeGoes DEF tty
<1>6. CASE ReadRow(w)
  <2>1. Goto(w, "video") /\ reg' = [reg EXCEPT ![w].row = row] /\ UNCHANGED <<tty, job, seen>>
    BY <1>6 DEF ReadRow
  <2>2. /\ Moves(w, "video", reg'[w]) /\ reg'[w].ch = reg[w].ch
        /\ reg'[w].row = row /\ reg'[w].col = reg[w].col /\ reg'[w].line = reg[w].line
    BY <2>1, SetRow
  <2>3. Apt("video", reg'[w]) /\ "video" \in Labels
    BY <1>2, <2>2, AptPutter DEF Putters
  <2> QED  BY <1>3, <1>4, <2>1, <2>2, <2>3, TypeGoes DEF tty
<1>7. CASE WriteVideo(w)
  <2>1. /\ Goto(w, "col") /\ UNCHANGED <<col, buffer, reg, job, seen>>
        /\ screen' = Overwritten(screen, reg[w].row * Width + col, reg[w].ch)
    BY <1>7 DEF WriteVideo
  <2>2. Moves(w, "col", reg'[w]) /\ reg'[w] = reg[w]
    BY <2>1, SetNone
  <2>3. Apt("col", reg'[w]) /\ "col" \in Labels
    BY <1>2, <2>2, AptPutter DEF Putters
  <2>4. screen' \in Screens(Visible)
    BY <1>2, <1>3, <2>1, OverwrittenType DEF Screens
  <2> QED  BY <1>3, <1>4, <2>1, <2>2, <2>3, <2>4, TypeGoes
<1>8. CASE ReadCol(w)
  <2>1. Goto(w, "ring") /\ reg' = [reg EXCEPT ![w].col = col] /\ UNCHANGED <<tty, job, seen>>
    BY <1>8 DEF ReadCol
  <2>2. /\ Moves(w, "ring", reg'[w]) /\ reg'[w].ch = reg[w].ch
        /\ reg'[w].row = reg[w].row /\ reg'[w].col = col /\ reg'[w].line = reg[w].line
    BY <2>1, SetCol
  <2>3. Apt("ring", reg'[w]) /\ "ring" \in Labels
    BY <1>2, <2>2, AptPutter DEF Putters
  <2> QED  BY <1>3, <1>4, <2>1, <2>2, <2>3, TypeGoes DEF tty
<1>9. CASE WriteRing(w)
  <2>1. /\ Goto(w, "advance") /\ UNCHANGED <<col, screen, reg, job, seen>>
        /\ buffer' = Overwritten(buffer, buffer_row * Width + reg[w].col, reg[w].ch)
    BY <1>9 DEF WriteRing
  <2>2. Moves(w, "advance", reg'[w]) /\ reg'[w] = reg[w]
    BY <2>1, SetNone
  <2>3. Apt("advance", reg'[w]) /\ "advance" \in Labels
    BY <1>2, <2>2, AptPutter DEF Putters
  <2>4. buffer' \in Buffers(Visible)
    BY <1>2, <1>3, <2>1, OverwrittenType DEF Buffers
  <2> QED  BY <1>3, <1>4, <2>1, <2>2, <2>3, <2>4, TypeGoes
<1>10. CASE Advance(w)
  <2>1. col' \in Nat /\ Return(w) /\ UNCHANGED <<buffer, screen>>
    BY <1>4, <1>10 DEF Advance
  <2> QED  BY <1>3, <2>1, TypeReturns
<1>11. CASE Wrap(w)
  <2>1. Goto(w, "row") /\ UNCHANGED <<buffer, screen, reg, job, seen>> /\ col' = 0
    BY <1>11 DEF Wrap
  <2>2. Moves(w, "row", reg'[w]) /\ reg'[w] = reg[w]
    BY <2>1, SetNone
  <2>3. Apt("row", reg'[w]) /\ "row" \in Labels
    BY <1>2, <2>2, AptPutter DEF Putters
  <2> QED  BY <1>3, <1>4, <2>1, <2>2, <2>3, TypeGoes
<1> QED  BY <1>5, <1>6, <1>7, <1>8, <1>9, <1>10, <1>11

\* Other characters: tty_putchar() and special_char().
LEMMA TypeSpecial ==
    ASSUME IInv, TypeInv, NEW w \in Writers,
           tty_putchar(w) \/ CarriageReturn(w) \/ ReadTab(w) \/ TabStop(w) \/ TabFold(w)
    PROVE  TypeInv'
<1>1. col \in Nat /\ buffer \in Buffers(Visible) /\ screen \in Screens(Visible)
  BY DEF TypeInv
<1>2. /\ reg[w].row \in Nat /\ reg[w].col \in Nat /\ reg[w].line \in Nat /\ reg[w].ch \in Printed
      /\ Apt(pc[w], reg[w])
  BY RegistryHas
<1>3. CASE tty_putchar(w)
  <2>1. CASE Return(w) /\ UNCHANGED tty
    BY <1>1, <2>1, TypeReturns DEF tty
  <2>2. CASE ~ (Return(w) /\ UNCHANGED tty)
    <3>1. PICK c : c = reg[w].ch
      OBVIOUS
    <3>2. c # Wide /\ c # Control /\ UNCHANGED <<tty, reg, job, seen>>
      BY <1>3, <2>2, <3>1 DEF tty_putchar, Ignored
    <3>3. PICK label : /\ Goto(w, label) /\ label \in {"line_up", "return", "tab", "put_char"}
                       /\ label = "line_up" => c = "\n"
                       /\ label = "tab" => c = "\t"
                       /\ label = "put_char" => c \notin {"\n", "\r", "\t"}
      <4>1. Goto(w, CASE c = "\n" -> "line_up" [] c = "\r" -> "return"
                      [] c = "\t" -> "tab" [] OTHER -> "put_char")
        BY <1>3, <2>2, <3>1 DEF tty_putchar
      <4> QED  BY <4>1
    <3>4. Moves(w, label, reg'[w]) /\ reg'[w] = reg[w]
      BY <3>2, <3>3, SetNone
    <3>5. Apt(label, reg'[w]) /\ label \in Labels
      BY <1>2, <3>1, <3>2, <3>3, <3>4 DEF Apt, Lifting, Labels, Visible
    <3> QED  BY <1>1, <1>2, <3>2, <3>4, <3>5, TypeGoes DEF tty
  <2> QED  BY <2>1, <2>2
<1>4. CASE CarriageReturn(w)
  <2>1. col' = 0 /\ Return(w) /\ UNCHANGED <<buffer, screen>>
    BY <1>4 DEF CarriageReturn
  <2> QED  BY <1>1, <2>1, TypeReturns
<1>5. CASE ReadTab(w)
  <2>1. PICK x : x = col + Tab - (col % Tab)
    OBVIOUS
  <2>2. x \in Nat
    <3>1. Tab \in Nat /\ Tab >= 1
      BY Sizes
    <3>2. col % Tab \in Nat /\ col % Tab < Tab
      BY <1>1, <3>1
    <3> QED  BY <1>1, <2>1, <3>1, <3>2
  <2>3. /\ pc[w] = "tab" /\ Goto(w, "stop") /\ reg' = [reg EXCEPT ![w].col = x]
        /\ UNCHANGED <<tty, job, seen>>
    BY <1>5, <2>1 DEF ReadTab
  <2>4. /\ Moves(w, "stop", reg'[w]) /\ reg'[w].ch = reg[w].ch
        /\ reg'[w].row = reg[w].row /\ reg'[w].col = x /\ reg'[w].line = reg[w].line
    BY <2>3, SetCol
  <2>5. Apt("stop", reg'[w]) /\ "stop" \in Labels
    BY <1>2, <2>3, <2>4 DEF Apt, Lifting, Labels
  <2> QED  BY <1>1, <1>2, <2>2, <2>3, <2>4, <2>5, TypeGoes DEF tty
<1>6. CASE TabStop(w)
  <2>1. pc[w] = "stop" /\ col' = reg[w].col /\ UNCHANGED <<buffer, screen>>
    BY <1>6 DEF TabStop
  <2>2. CASE Return(w)
    BY <1>1, <1>2, <2>1, <2>2, TypeReturns
  <2>3. CASE Goto(w, "fold") /\ UNCHANGED <<reg, job, seen>>
    <3>1. Moves(w, "fold", reg'[w]) /\ reg'[w] = reg[w]
      BY <2>3, SetNone
    <3>2. Apt("fold", reg'[w]) /\ "fold" \in Labels
      BY <1>2, <2>1, <3>1 DEF Apt, Lifting, Labels
    <3> QED  BY <1>1, <1>2, <2>1, <2>3, <3>1, <3>2, TypeGoes
  <2> QED  BY <1>6, <2>2, <2>3 DEF TabStop
<1>7. CASE TabFold(w)
  <2>1. /\ pc[w] = "fold" /\ Goto(w, "line_up") /\ col' = reg[w].col % Width
        /\ UNCHANGED <<buffer, screen, reg, job, seen>>
    BY <1>7 DEF TabFold
  <2>2. Moves(w, "line_up", reg'[w]) /\ reg'[w] = reg[w]
    BY <2>1, SetNone
  <2>3. Apt("line_up", reg'[w]) /\ "line_up" \in Labels
    <3>1. reg'[w].ch = "\t"
      BY <1>2, <2>1, <2>2 DEF Apt
    <3> QED  BY <3>1, AptLifting DEF Lifting
  <2>4. col' \in Nat
    BY <1>2, <2>1, Sizes
  <2> QED  BY <1>1, <1>2, <2>1, <2>2, <2>3, <2>4, TypeGoes
<1> QED  BY <1>3, <1>4, <1>5, <1>6, <1>7

\* line_up(): the ring and the screen get blanks and lines of the ring.
LEMMA TypeLine ==
    ASSUME IInv, TypeInv, NEW w \in Writers,
           ReadLine(w) \/ WriteLine(w) \/ ClearLine(w) \/ TestHeight(w) \/ RowDown(w)
    PROVE  TypeInv'
<1>1. /\ col \in Nat /\ buffer \in Buffers(Visible) /\ screen \in Screens(Visible)
      /\ row \in Nat /\ buffer_row \in Nat
  BY DEF TypeInv, IInv, RowOnScreen
<1>2. reg[w].row \in Nat /\ reg[w].col \in Nat /\ reg[w].line \in Nat /\ Apt(pc[w], reg[w])
  BY RegistryHas
<1>3. pc[w] \in Lifting
  BY DEF ReadLine, WriteLine, ClearLine, TestHeight, RowDown, Lifting
<1>4. reg[w].ch \in Visible \cup {"\n", "\t"}
  BY <1>2, <1>3 DEF Apt
<1>5. CASE ReadLine(w)
  <2>1. PICK x : x = (buffer_row + 1) % BufferHeight
    OBVIOUS
  <2>2. x \in Nat
    BY <1>1, <2>1, Sizes
  <2>3. Goto(w, "line") /\ reg' = [reg EXCEPT ![w].line = x] /\ UNCHANGED <<tty, job, seen>>
    BY <1>5, <2>1 DEF ReadLine
  <2>4. /\ Moves(w, "line", reg'[w]) /\ reg'[w].ch = reg[w].ch
        /\ reg'[w].row = reg[w].row /\ reg'[w].col = reg[w].col /\ reg'[w].line = x
    BY <2>3, SetLine
  <2>5. Apt("line", reg'[w]) /\ "line" \in Labels
    BY <1>4, <2>4, AptLifting DEF Lifting
  <2> QED  BY <1>1, <1>2, <2>2, <2>3, <2>4, <2>5, TypeGoes DEF tty
<1>6. CASE WriteLine(w)
  <2>1. Goto(w, "clear") /\ UNCHANGED <<col, buffer, screen, reg, job, seen>>
    BY <1>6 DEF WriteLine
  <2>2. Moves(w, "clear", reg'[w]) /\ reg'[w] = reg[w]
    BY <2>1, SetNone
  <2>3. Apt("clear", reg'[w]) /\ "clear" \in Labels
    BY <1>4, <2>2, AptLifting DEF Lifting
  <2> QED  BY <1>1, <1>2, <2>1, <2>2, <2>3, TypeGoes
<1>7. CASE ClearLine(w)
  <2>1. /\ Goto(w, "height") /\ UNCHANGED <<col, screen, reg, job, seen>>
        /\ buffer' = Cleared(buffer, reg[w].line)
    BY <1>7 DEF ClearLine
  <2>2. Moves(w, "height", reg'[w]) /\ reg'[w] = reg[w]
    BY <2>1, SetNone
  <2>3. Apt("height", reg'[w]) /\ "height" \in Labels
    BY <1>4, <2>2, AptLifting DEF Lifting
  <2>4. buffer' \in Buffers(Visible)
    BY <1>1, <2>1, BlankVisible, ClearedType DEF Buffers
  <2> QED  BY <1>1, <1>2, <2>1, <2>2, <2>3, <2>4, TypeGoes
<1>8. CASE TestHeight(w)
  <2>1. PICK label \in {"down", "scroll"} : Goto(w, label)
    BY <1>8 DEF TestHeight
  <2>2. reg' = [reg EXCEPT ![w].row = row] /\ UNCHANGED <<tty, job, seen>>
    BY <1>8 DEF TestHeight
  <2>3. /\ Moves(w, label, reg'[w]) /\ reg'[w].ch = reg[w].ch
        /\ reg'[w].row = row /\ reg'[w].col = reg[w].col /\ reg'[w].line = reg[w].line
    BY <2>1, <2>2, SetRow
  <2>4. Apt(label, reg'[w]) /\ label \in Labels
    BY <1>4, <2>1, <2>3, AptLifting DEF Lifting
  <2> QED  BY <1>1, <1>2, <2>2, <2>3, <2>4, TypeGoes DEF tty
<1>9. CASE RowDown(w)
  <2>1. LineDone(w) /\ UNCHANGED <<col, buffer, screen>>
    BY <1>9 DEF RowDown
  <2> QED  BY <1>1, <1>3, <2>1, TypeLineDone
<1> QED  BY <1>5, <1>6, <1>7, <1>8, <1>9

LEMMA TypeScroll ==
    ASSUME IInv, TypeInv, NEW w \in Writers,
           StartScroll(w) \/ CopyLine(w) \/ EndCopy(w) \/ ClearLast(w)
    PROVE  TypeInv'
<1>1. /\ col \in Nat /\ buffer \in Buffers(Visible) /\ screen \in Screens(Visible)
      /\ buffer_row \in Ring
  BY DEF TypeInv, IInv, RowOnScreen, Ring
<1>2. reg[w].row \in Nat /\ reg[w].col \in Nat /\ reg[w].line \in Nat /\ Apt(pc[w], reg[w])
  BY RegistryHas
<1>3. pc[w] \in Lifting
  BY DEF StartScroll, CopyLine, EndCopy, ClearLast, Lifting
<1>4. reg[w].ch \in Visible \cup {"\n", "\t"}
  BY <1>2, <1>3 DEF Apt
<1>5. \A x : x \in Ring => x \in Nat /\ (x + 1) % BufferHeight \in Ring
  BY Sizes DEF Ring
<1>6. CASE StartScroll(w)
  <2>1. PICK x : x = StartLine
    OBVIOUS
  <2>2. x \in Ring
    BY <1>1, <2>1, Sizes DEF StartLine, Ring
  <2>3. /\ Goto(w, "copy") /\ UNCHANGED <<tty, job, seen>>
        /\ reg' = [reg EXCEPT ![w] = LineRow(reg[w], x, 0)]
    BY <1>6, <2>1 DEF StartScroll, IInv, RegistersShape, LineRow
  <2>4. PICK q : q = LineRow(reg[w], x, 0)
    OBVIOUS
  <2>5. Shaped(q) /\ q.ch = reg[w].ch /\ q.row = 0 /\ q.line = x /\ q.col = reg[w].col
    BY <2>4, LineRowFields
  <2>6. Moves(w, "copy", reg'[w]) /\ reg'[w] = q
    BY <2>3, <2>4, <2>5, SetAll
  <2>7. Apt("copy", reg'[w]) /\ "copy" \in Labels
    BY <1>4, <2>2, <2>5, <2>6 DEF Apt, Lifting, Labels
  <2> QED  BY <1>1, <1>2, <1>5, <2>2, <2>3, <2>5, <2>6, <2>7, TypeGoes DEF tty
<1>7. CASE CopyLine(w)
  <2>1. PICK x, y, line : x = (reg[w].line + 1) % BufferHeight /\ y = reg[w].row + 1 /\ line = reg[w].line
    OBVIOUS
  <2>2. pc[w] = "copy" /\ UNCHANGED <<col, buffer, pc, job, seen>>
    BY <1>7 DEF CopyLine
  <2>3. line \in Ring /\ x \in Ring /\ y \in Nat
    BY <1>2, <1>5, <2>1, <2>2 DEF Apt
  <2>4. PICK q : q = LineRow(reg[w], x, y)
    OBVIOUS
  <2>5. Shaped(q) /\ q.ch = reg[w].ch /\ q.row = y /\ q.line = x /\ q.col = reg[w].col
    BY <2>4, LineRowFields
  <2>6. reg' = [reg EXCEPT ![w] = LineRow(reg[w], x, y)]
    BY <1>7, <2>1 DEF CopyLine, IInv, RegistersShape, LineRow
  <2>7. Goto(w, "copy")
    BY <2>2 DEF Goto, IInv, RegistersShape
  <2>8. Moves(w, "copy", reg'[w]) /\ reg'[w] = q
    BY <2>4, <2>5, <2>6, <2>7, SetAll
  <2>9. Apt("copy", reg'[w]) /\ "copy" \in Labels
    BY <1>4, <2>3, <2>5, <2>8 DEF Apt, Lifting, Labels
  <2>10. screen' \in Screens(Visible)
    <3>1. \A i \in DOMAIN screen : buffer[line * Width + (i % Width)] \in Visible
      <4> TAKE i \in DOMAIN screen
      <4>1. i \in Nat
        BY <1>1 DEF Screens
      <4>2. i % Width \in Columns
        BY <4>1, Sizes DEF Columns
      <4>3. PICK k \in Columns : k = i % Width
        BY <4>2
      <4>4. buffer \in Arrays(BufferHeight, Visible) /\ line \in 0 .. (BufferHeight - 1)
            /\ BufferHeight \in Nat
        BY <1>1, <2>3, Sizes DEF Buffers, Arrays, Ring
      <4>5. Cell(buffer, line, k) \in Visible
        BY <4>4, ArrayCell
      <4> QED  BY <4>3, <4>5 DEF Cell
    <3>2. screen' = [i \in DOMAIN screen |-> IF i \in Cells(reg[w].row)
                                             THEN buffer[line * Width + (i % Width)] ELSE screen[i]]
      BY <1>7, <2>1 DEF CopyLine
    <3>3. PICK f : f = [i \in DOMAIN screen |-> buffer[line * Width + (i % Width)]]
      OBVIOUS
    <3>4. \A i \in DOMAIN screen : f[i] \in Visible /\ f[i] = buffer[line * Width + (i % Width)]
      BY <3>1, <3>3
    <3>5. screen' = [i \in DOMAIN screen |-> IF i \in Cells(reg[w].row) THEN f[i] ELSE screen[i]]
      BY <3>2, <3>4
    <3> QED  BY <1>1, <3>4, <3>5 DEF Screens
  <2> QED  BY <1>1, <1>2, <1>5, <2>2, <2>3, <2>5, <2>8, <2>9, <2>10, TypeGoes
<1>8. CASE EndCopy(w)
  <2>1. Goto(w, "last") /\ UNCHANGED <<tty, reg, job, seen>>
    BY <1>8 DEF EndCopy
  <2>2. Moves(w, "last", reg'[w]) /\ reg'[w] = reg[w]
    BY <2>1, SetNone
  <2>3. Apt("last", reg'[w]) /\ "last" \in Labels
    BY <1>4, <2>2, AptLifting DEF Lifting
  <2> QED  BY <1>1, <1>2, <2>1, <2>2, <2>3, TypeGoes DEF tty
<1>9. CASE ClearLast(w)
  <2>1. LineDone(w) /\ UNCHANGED <<col, buffer>> /\ screen' = Cleared(screen, reg[w].row)
    BY <1>9 DEF ClearLast
  <2>2. screen' \in Screens(Visible)
    BY <1>1, <2>1, BlankVisible, ClearedType DEF Screens
  <2> QED  BY <1>1, <1>3, <2>1, <2>2, TypeLineDone
<1> QED  BY <1>6, <1>7, <1>8, <1>9

LEMMA TypeCalls ==
    ASSUME IInv, TextInv, TypeInv, NEW w \in Writers, Call(w) \/ Backend(w)
    PROVE  TypeInv'
<1>1. CASE Call(w)
  <2>1. UNCHANGED <<tty, pc, reg, seen>> /\ irq_off' \in {w, NONE}
    BY <1>1 DEF Call
  <2> QED  BY <2>1 DEF TypeInv, tty, seen, Apt
<1>2. CASE Backend(w)
  <2>1. PICK c : c = Head(text[w])
    OBVIOUS
  <2>2. c \in Printed
    <3>1. PICK t : t = text[w]
      OBVIOUS
    <3>2. t \in Seq(Printed) /\ t # <<>>
      BY <1>2, <3>1 DEF Backend, Printing, TextInv
    <3> QED  BY <2>1, <3>1, <3>2
  <2>3. /\ Goto(w, "putchar") /\ reg' = [reg EXCEPT ![w].ch = c] /\ UNCHANGED <<tty, job>>
        /\ sound' = (sound /\ Inside = {})
    BY <1>2, <2>1 DEF Backend
  <2>4. Moves(w, "putchar", reg'[w])
    BY <2>3, SetCh
  <2>5. reg'[w] \in Registry
    <3>1. reg \in [Writers -> Registry]
      BY DEF TypeInv
    <3>2. reg' \in [Writers -> Registry]
      BY <2>2, <2>3, <3>1 DEF Registry
    <3> QED  BY <3>2
  <2>6. Apt("putchar", reg'[w]) /\ "putchar" \in Labels
    BY DEF Apt, Lifting, Labels
  <2>7. irq_off' \in Writers \cup {NONE} /\ col' \in Nat
        /\ buffer' \in Buffers(Visible) /\ screen' \in Screens(Visible)
    BY <2>3 DEF TypeInv, job, tty
  <2>8. sound' \in BOOLEAN
    BY <2>3
  <2> QED  BY <2>4, <2>5, <2>6, <2>7, <2>8, TypeMoves
<1> QED  BY <1>1, <1>2

LEMMA TypeBegins == Init => TypeInv
<1> SUFFICES ASSUME Init PROVE TypeInv
  OBVIOUS
<1>1. /\ col = 0 /\ sound = TRUE /\ irq_off = NONE
      /\ pc = [w \in Writers |-> "idle"] /\ reg = [w \in Writers |-> Registers]
      /\ buffer = [i \in 0 .. (BufferHeight * Width - 1) |-> Blank]
      /\ screen = [i \in 0 .. (Height * Width - 1) |-> Blank]
  BY DEF Init
<1>2. buffer \in Buffers(Visible) /\ screen \in Screens(Visible)
  BY <1>1, BlankVisible DEF Buffers, Screens
<1>3. pc \in [Writers -> Labels]
  BY <1>1 DEF Labels
<1>4. reg \in [Writers -> Registry]
  BY <1>1, BlankVisible DEF Registers, Registry
<1>5. \A w \in Writers : Apt(pc[w], reg[w])
  BY <1>1 DEF Apt, Lifting
<1>6. sound \in BOOLEAN
  BY <1>1
<1> QED  BY <1>1, <1>2, <1>3, <1>4, <1>5, <1>6 DEF TypeInv

LEMMA TypeKeeps == IInv /\ TextInv /\ TypeInv /\ [Next]_vars => TypeInv'
<1> SUFFICES ASSUME IInv, TextInv, TypeInv, [Next]_vars PROVE TypeInv'
  OBVIOUS
<1>1. CASE UNCHANGED vars
  BY <1>1 DEF vars, tty, job, seen, TypeInv, Apt
<1>2. CASE Next
  BY <1>2, TypePut, TypeSpecial, TypeLine, TypeScroll, TypeCalls DEF Next, Step
<1> QED  BY <1>1, <1>2

\* The invariant of the writers' registers by their places.
THEOREM TypeInvariance == Spec => []TypeInv
BY Invariance, TextInvariance, TypeBegins, TypeKeeps, PTL DEF Spec

\* Only visible characters reach the ring of lines and the screen, and every
\* other part of the console has its type, for every number of writers, every
\* request and every size of the screen and of the ring.
THEOREM TypeCorrect == Spec => []TypeOK
<1>1. IInv /\ TextInv /\ TypeInv => TypeOK
  <2> SUFFICES ASSUME IInv, TextInv, TypeInv PROVE TypeOK
    OBVIOUS
  <2>1. row \in Nat /\ buffer_row \in Nat
    BY DEF IInv, RowOnScreen
  <2>2. /\ col \in Nat /\ pc \in [Writers -> Labels]
        /\ buffer \in [0 .. (BufferHeight * Width - 1) -> Visible]
        /\ screen \in [0 .. (Height * Width - 1) -> Visible]
        /\ reg \in [Writers -> [ch : Printed, row : Nat, col : Nat, line : Nat]]
        /\ irq_off \in Writers \cup {NONE} /\ sound \in BOOLEAN
    BY DEF TypeInv, Buffers, Screens, Registry
  <2>3. text \in [Writers -> Seq(Printed)] /\ log \in Seq(Printed)
    BY DEF TextInv
  <2> QED  BY <2>1, <2>2, <2>3 DEF TypeOK
<1> QED  BY <1>1, Invariance, TextInvariance, TypeInvariance, PTL
=============================================================================

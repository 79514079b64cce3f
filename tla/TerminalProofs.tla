--------------------------- MODULE TerminalProofs ---------------------------
(***************************************************************************)
(* The cursor of the terminal, for every screen size, every text and any   *)
(* number of dots from the interrupt handler.                              *)
(***************************************************************************)
EXTENDS Terminal, TLAPS

IsTerminal(t) ==
  /\ DOMAIN t = {"at", "c", "vga", "row", "column", "gone", "outside"}
  /\ t.row \in Nat /\ t.column \in Nat

(* Where the cursor may be before each statement of the main thread.        *)
MainCursor(t) ==
  /\ t.at \in {"newline", "put", "column", "wrap", "row", "scroll", "last_row", "done"}
  /\ t.at \in {"newline", "put", "column", "row", "done"} =>
       t.row < VGA_HEIGHT /\ t.column < VGA_WIDTH
  /\ t.at = "wrap" => t.row < VGA_HEIGHT /\ t.column <= VGA_WIDTH
  /\ t.at \in {"scroll", "last_row"} => t.row <= VGA_HEIGHT /\ t.column < VGA_WIDTH

(* Where a handler finds it, and leaves it alone until its dot is out.      *)
Reachable(t) ==
  /\ t.row <= VGA_HEIGHT /\ t.column <= VGA_WIDTH
  /\ t.row = VGA_HEIGHT => t.column < VGA_WIDTH

Near(cell) == VGA_WIDTH * VGA_HEIGHT <= cell /\ cell < VGA_WIDTH * (VGA_HEIGHT + 1)
Close(t) == \A cell \in t.outside : Near(cell)

USE TerminalAssumption

(* A cell the cursor can name is on the screen or on the line behind it.    *)
LEMMA CellNear ==
  ASSUME NEW t, IsTerminal(t), Reachable(t),
         t.row * VGA_WIDTH + t.column \notin Cells
  PROVE  Near(t.row * VGA_WIDTH + t.column)
<1> DEFINE r == t.row
           k == t.column
           W == VGA_WIDTH
           H == VGA_HEIGHT
<1>1. r \in Nat /\ k \in Nat /\ W \in Nat /\ H \in Nat /\ W > 0
  BY DEF IsTerminal
<1>2. r <= H /\ k <= W /\ (r = H => k < W)
  BY DEF Reachable
<1>3. r * W + k \notin 0 .. W * H - 1
  BY DEF Cells
<1> HIDE DEF r, k, W, H
<1>4. r * W \in Nat /\ W * H \in Nat /\ W * (H + 1) = W * H + W
  BY <1>1
<1>5. r * W + k < W * H + W
  <2>1. CASE r = H
    BY <2>1, <1>1, <1>2, <1>4
  <2>2. CASE r < H
    <3>1. PICK d \in Nat : H = r + d + 1
      BY <2>2, <1>1
    <3>2. d * W \in Nat /\ W * H = r * W + d * W + W
      BY <3>1, <1>1
    <3> QED BY <3>2, <1>1, <1>2, <1>4
  <2> QED BY <2>1, <2>2, <1>1, <1>2
<1>6. W * H <= r * W + k
  BY <1>1, <1>3, <1>4
<1> QED BY <1>4, <1>5, <1>6 DEF Near, r, k, W, H

(* put_char moves nothing and writes near the screen at worst.              *)
LEMMA PutClose ==
  ASSUME NEW t, IsTerminal(t), Reachable(t), Close(t)
  PROVE  LET u == put_char(t)
         IN  /\ IsTerminal(u) /\ Close(u)
             /\ u.row = t.row /\ u.column = t.column /\ u.at = "column"
<1> DEFINE cell == t.row * VGA_WIDTH + t.column
<1>1. CASE cell \in Cells
  <2>1. put_char(t) = [t EXCEPT !.vga[cell] = t.c, !.at = "column"]
    BY <1>1 DEF put_char
  <2> QED BY <2>1 DEF IsTerminal, Close
<1>2. CASE cell \notin Cells
  <2>1. put_char(t) = [t EXCEPT !.outside = @ \cup {cell}, !.at = "column"]
    BY <1>2 DEF put_char
  <2>2. Near(cell)
    BY <1>2, CellNear
  <2> HIDE DEF cell
  <2> QED BY <2>1, <2>2 DEF IsTerminal, Close
<1> QED BY <1>1, <1>2

LEMMA ScrollKeeps ==
  ASSUME NEW t, IsTerminal(t)
  PROVE  LET u == scroll_terminal(t)
         IN  /\ IsTerminal(u) /\ u.outside = t.outside
             /\ u.row = t.row /\ u.column = t.column /\ u.at = t.at
BY DEF IsTerminal, scroll_terminal
-----------------------------------------------------------------------------
(* Every statement of the main thread keeps the cursor where it may be.     *)
LEMMA MainStep ==
  ASSUME NEW t, IsTerminal(t), MainCursor(t), Close(t)
  PROVE  LET u == Statement(t)
         IN  IsTerminal(u) /\ MainCursor(u) /\ Close(u)
<1>1. CASE t.at = "newline"
  <2>1. Statement(t) = line_start(t)
    BY <1>1 DEF Statement
  <2> QED BY <1>1, <2>1 DEF line_start, IsTerminal, MainCursor, Close
<1>2. CASE t.at = "put"
  <2>1. Statement(t) = put_char(t)
    BY <1>2 DEF Statement
  <2>2. Reachable(t)
    BY <1>2 DEF Reachable, MainCursor, IsTerminal
  <2> QED BY <1>2, <2>1, <2>2, PutClose DEF MainCursor
<1>3. CASE t.at = "column"
  <2>1. Statement(t) = next_column(t)
    BY <1>3 DEF Statement
  <2> QED BY <1>3, <2>1 DEF next_column, IsTerminal, MainCursor, Close
<1>4. CASE t.at = "wrap" /\ Wraps(t)
  <2>1. Statement(t) = line_start(t)
    BY <1>4 DEF Statement
  <2> QED BY <1>4, <2>1 DEF line_start, IsTerminal, MainCursor, Close
<1>5. CASE t.at = "wrap" /\ ~ Wraps(t)
  <2>1. Statement(t) = no_wrap(t)
    BY <1>5 DEF Statement
  <2> QED BY <1>5, <2>1 DEF no_wrap, IsTerminal, MainCursor, Close, Wraps
<1>6. CASE t.at = "row"
  <2>1. Statement(t) = next_row(t)
    BY <1>6 DEF Statement
  <2> QED BY <1>6, <2>1 DEF next_row, IsTerminal, MainCursor, Close
<1>7. CASE t.at = "scroll" /\ t.row >= VGA_HEIGHT
  <2>1. Statement(t) = scroll(t)
    BY <1>7 DEF Statement
  <2>2. /\ IsTerminal(scroll_terminal(t)) /\ scroll_terminal(t).outside = t.outside
        /\ scroll_terminal(t).row = t.row /\ scroll_terminal(t).column = t.column
    BY ScrollKeeps
  <2> QED BY <1>7, <2>1, <2>2 DEF scroll, IsTerminal, MainCursor, Close
<1>8. CASE t.at = "scroll" /\ ~ (t.row >= VGA_HEIGHT)
  <2>1. Statement(t) = no_scroll(t)
    BY <1>8 DEF Statement
  <2> QED BY <1>8, <2>1 DEF no_scroll, IsTerminal, MainCursor, Close
<1>9. CASE t.at = "last_row"
  <2>1. Statement(t) = last_row(t)
    BY <1>9 DEF Statement
  <2> QED BY <1>9, <2>1 DEF last_row, IsTerminal, MainCursor, Close
<1>10. CASE t.at = "done"
  <2>1. Statement(t) = t
    BY <1>10 DEF Statement
  <2> QED BY <2>1
<1> QED BY <1>1, <1>2, <1>3, <1>4, <1>5, <1>6, <1>7, <1>8, <1>9, <1>10 DEF MainCursor

(* A cursor on the screen names a cell of the screen.                       *)
LEMMA CellOnScreen ==
  ASSUME NEW t, IsTerminal(t), t.row < VGA_HEIGHT, t.column < VGA_WIDTH
  PROVE  t.row * VGA_WIDTH + t.column \in Cells
<1> DEFINE r == t.row
           k == t.column
           W == VGA_WIDTH
           H == VGA_HEIGHT
<1>1. r \in Nat /\ k \in Nat /\ W \in Nat /\ H \in Nat /\ r < H /\ k < W
  BY DEF IsTerminal
<1> HIDE DEF r, k, W, H
<1>2. PICK d \in Nat : H = r + d + 1
  BY <1>1
<1>3. r * W \in Nat /\ d * W \in Nat /\ W * H = r * W + d * W + W
  BY <1>1, <1>2
<1>4. r * W + k \in 0 .. W * H - 1
  BY <1>1, <1>3
<1> QED BY <1>4 DEF Cells, r, k, W, H

(* The statements of the main thread write nothing past the screen.         *)
LEMMA MainWrites ==
  ASSUME NEW t, IsTerminal(t), MainCursor(t)
  PROVE  Statement(t).outside = t.outside
<1>1. CASE t.at = "put"
  <2>1. Statement(t) = put_char(t)
    BY <1>1 DEF Statement
  <2>2. t.row < VGA_HEIGHT /\ t.column < VGA_WIDTH
    BY <1>1 DEF MainCursor
  <2>3. t.row * VGA_WIDTH + t.column \in Cells
    BY <2>2, CellOnScreen
  <2> QED BY <2>1, <2>3 DEF put_char, IsTerminal
<1>2. CASE t.at = "scroll" /\ t.row >= VGA_HEIGHT
  <2>1. Statement(t) = scroll(t)
    BY <1>2 DEF Statement
  <2>2. IsTerminal(scroll_terminal(t)) /\ scroll_terminal(t).outside = t.outside
    BY ScrollKeeps
  <2> QED BY <2>1, <2>2 DEF scroll, IsTerminal
<1>3. CASE t.at \notin {"put", "scroll"} \/ (t.at = "scroll" /\ ~ (t.row >= VGA_HEIGHT))
  <2>1. Statement(t) \in {line_start(t), next_column(t), no_wrap(t), next_row(t),
                          no_scroll(t), last_row(t), t}
    BY <1>3 DEF Statement, MainCursor
  <2> QED BY <2>1, Zenon DEF line_start, next_column, no_wrap, next_row, no_scroll, last_row, IsTerminal
<1> QED BY <1>1, <1>2, <1>3

(* A whole character takes the cursor from wherever a handler may find it   *)
(* back to the screen.                                                      *)
LEMMA WrapRecovers ==
  ASSUME NEW t, IsTerminal(t), Close(t), t.column <= VGA_WIDTH + 1
  PROVE  LET u == Wrapped(t)
         IN  IsTerminal(u) /\ Close(u) /\ u.column < VGA_WIDTH
<1>1. CASE Wraps(t)
  <2>1. Wrapped(t) = next_row(line_start(t))
    BY <1>1 DEF Wrapped
  <2>2. IsTerminal(line_start(t)) /\ Close(line_start(t)) /\ line_start(t).column = 0
    BY DEF line_start, IsTerminal, Close
  <2> QED BY <2>1, <2>2 DEF next_row, IsTerminal, Close
<1>2. CASE ~ Wraps(t)
  <2>1. Wrapped(t) = no_wrap(t)
    BY <1>2 DEF Wrapped
  <2> QED BY <1>2, <2>1 DEF no_wrap, Wraps, IsTerminal, Close
<1> QED BY <1>1, <1>2

LEMMA ScrollRecovers ==
  ASSUME NEW t, IsTerminal(t), Close(t), t.column < VGA_WIDTH
  PROVE  LET u == Scrolled(t)
         IN  /\ IsTerminal(u) /\ Close(u)
             /\ u.at = "done" /\ u.row < VGA_HEIGHT /\ u.column < VGA_WIDTH
<1>1. CASE t.row >= VGA_HEIGHT
  <2>1. Scrolled(t) = last_row(scroll(t))
    BY <1>1 DEF Scrolled
  <2>2. IsTerminal(scroll_terminal(t)) /\ scroll_terminal(t).outside = t.outside
        /\ scroll_terminal(t).column = t.column
    BY ScrollKeeps
  <2>3. IsTerminal(scroll(t)) /\ Close(scroll(t)) /\ scroll(t).column < VGA_WIDTH
    BY <2>2 DEF scroll, IsTerminal, Close
  <2> QED BY <2>1, <2>3 DEF last_row, IsTerminal, Close
<1>2. CASE ~ (t.row >= VGA_HEIGHT)
  <2>1. Scrolled(t) = no_scroll(t)
    BY <1>2 DEF Scrolled
  <2> QED BY <1>2, <2>1 DEF no_scroll, IsTerminal, Close
<1> QED BY <1>1, <1>2

LEMMA DotRecovers ==
  ASSUME NEW t, IsTerminal(t), Reachable(t), Close(t)
  PROVE  LET u == PutWhole(t)
         IN  /\ IsTerminal(u) /\ Close(u)
             /\ u.at = "done" /\ u.row < VGA_HEIGHT /\ u.column < VGA_WIDTH
<1> DEFINE p == put_char(t)
           q == next_column(p)
           w == Wrapped(q)
<1>1. IsTerminal(p) /\ Close(p) /\ p.column = t.column
  BY PutClose
<1>2. t.column <= VGA_WIDTH /\ t.column \in Nat
  BY DEF Reachable, IsTerminal
<1>3. IsTerminal(q) /\ Close(q) /\ q.column <= VGA_WIDTH + 1
  <2> HIDE DEF p
  <2> QED BY <1>1, <1>2 DEF next_column, IsTerminal, Close
<1>4. IsTerminal(w) /\ Close(w) /\ w.column < VGA_WIDTH
  <2> HIDE DEF q
  <2> QED BY <1>3, WrapRecovers
<1>5. PutWhole(t) = Scrolled(w)
  BY DEF PutWhole
<1> HIDE DEF w
<1> QED BY <1>4, <1>5, ScrollRecovers

-----------------------------------------------------------------------------
(* The inductive invariant: before every statement of the main thread the   *)
(* cursor is where that statement can cope with it.                         *)
CursorInv == IsTerminal(Terminal) /\ MainCursor(Terminal) /\ Close(Terminal)

LEMMA CursorInit == Init => CursorInv
<1> SUFFICES ASSUME Init PROVE CursorInv
  OBVIOUS
<1>1. at = "done" /\ terminal_row = 0 /\ terminal_column = 0 /\ outside = {}
  BY Zenon DEF Init
<1> QED BY <1>1 DEF CursorInv, Terminal, IsTerminal, MainCursor, Close

LEMMA CursorStep == CursorInv /\ [Next]_vars => CursorInv'
<1> SUFFICES ASSUME CursorInv, [Next]_vars PROVE CursorInv'
  OBVIOUS
<1>1. CASE terminal_put_char
  <2>1. at = "done" /\ at' \in {"newline", "put"}
    BY <1>1 DEF terminal_put_char, Start
  <2>2. UNCHANGED <<terminal_row, terminal_column, outside>>
    BY <1>1 DEF terminal_put_char
  <2> QED BY <2>1, <2>2 DEF CursorInv, Terminal, IsTerminal, MainCursor, Close
<1>2. CASE statement
  <2> DEFINE t == Statement(Terminal)
  <2>1. IsTerminal(t) /\ MainCursor(t) /\ Close(t)
    BY MainStep DEF CursorInv
  <2>2. /\ at' = t.at /\ terminal_row' = t.row /\ terminal_column' = t.column
        /\ outside' = t.outside
    BY <1>2 DEF statement, Becomes
  <2> HIDE DEF t
  <2> QED BY <2>1, <2>2 DEF CursorInv, Terminal, IsTerminal, MainCursor, Close
<1>3. CASE clear_terminal
  <2>1. /\ at = "done" /\ at' = at /\ terminal_row' = 0 /\ terminal_column' = 0
        /\ outside' = outside
    BY <1>3, Zenon DEF clear_terminal, Becomes, Terminal
  <2> QED BY <2>1 DEF CursorInv, Terminal, IsTerminal, MainCursor, Close
<1>4. CASE rtc_interrupt_handler
  <2> DEFINE t == [Terminal EXCEPT !.c = "."]
             u == PutWhole(t)
  <2>1. IsTerminal(t) /\ Close(t) /\ t.row = terminal_row /\ t.column = terminal_column
    BY DEF CursorInv, Terminal, IsTerminal, Close
  <2>2. Reachable(t)
    BY <2>1 DEF CursorInv, MainCursor, Terminal, Reachable, IsTerminal
  <2>3. IsTerminal(u) /\ Close(u) /\ u.row < VGA_HEIGHT /\ u.column < VGA_WIDTH
    <3> HIDE DEF t
    <3> QED BY <2>1, <2>2, DotRecovers
  <2>4. /\ at' = at /\ terminal_row' = u.row /\ terminal_column' = u.column
        /\ outside' = u.outside
    BY <1>4 DEF rtc_interrupt_handler, Becomes
  <2> HIDE DEF u
  <2> QED BY <2>3, <2>4 DEF CursorInv, Terminal, IsTerminal, MainCursor, Close
<1>5. CASE UNCHANGED vars
  BY <1>5 DEF vars, CursorInv, Terminal, IsTerminal, MainCursor, Close
<1> QED BY <1>1, <1>2, <1>3, <1>4, <1>5 DEF Next

(* Between two characters the cursor is on the screen, whatever the handler *)
(* did in the middle of the last one.                                       *)
THEOREM CursorSafe == Spec => []CursorRecovers
<1>1. CursorInv => CursorRecovers
  BY DEF CursorInv, Terminal, MainCursor, CursorRecovers
<1> QED BY <1>1, CursorInit, CursorStep, PTL DEF Spec

(* The characters of the main thread land on the screen, wherever dots have *)
(* moved the cursor; a dot that misses it lands on the line behind it.      *)
THEOREM MainStaysOnScreen == Spec => OnScreen
<1>1. CursorInv /\ CursorInv' => Strays
  <2> SUFFICES ASSUME CursorInv, CursorInv', NEW cell \in outside' \ outside
               PROVE  ~ statement /\ Near(cell)
    BY DEF Near, Strays
  <2>1. Near(cell)
    BY DEF CursorInv, Terminal, Close
  <2>2. ASSUME statement PROVE FALSE
    <3> DEFINE t == Statement(Terminal)
    <3>1. t.outside = Terminal.outside
      BY MainWrites DEF CursorInv
    <3>2. outside' = t.outside
      BY <2>2 DEF statement, Becomes
    <3> QED BY <3>1, <3>2 DEF Terminal
  <2> QED BY <2>1, <2>2
<1>2. CursorInv /\ CursorInv' => [Strays]_vars
  BY <1>1
<1> QED BY <1>2, CursorInit, CursorStep, PTL DEF Spec, OnScreen
-----------------------------------------------------------------------------
(* The screen as the end of a paper.  Lines and screens hold what was       *)
(* printed and what was there before.                                       *)
Glyphs == Chars \cup {"\n", ".", " ", "old"}
Lines  == [Columns -> Glyphs]

(* The paper that View sees: the lines that are gone, then the screen.      *)
PaperOf(lines, vga) == lines \o [y \in 1 .. VGA_HEIGHT |-> Row(vga, y - 1)]

(* The cell of row y, column x; no two places share one.                    *)
LEMMA CellOf ==
  ASSUME NEW y \in 0 .. VGA_HEIGHT - 1, NEW x \in Columns
  PROVE  y * VGA_WIDTH + x \in Cells
<1> DEFINE W == VGA_WIDTH
           H == VGA_HEIGHT
<1>1. y \in Nat /\ x \in Nat /\ W \in Nat /\ H \in Nat /\ y < H /\ x < W
  BY DEF Columns
<1> HIDE DEF W, H
<1>2. PICK d \in Nat : H = y + d + 1
  BY <1>1
<1>3. y * W \in Nat /\ d * W \in Nat /\ W * H = y * W + d * W + W
  BY <1>1, <1>2
<1>4. y * W + x \in 0 .. W * H - 1
  BY <1>1, <1>3
<1> QED BY <1>4 DEF Cells, W, H

LEMMA CellUnique ==
  ASSUME NEW y \in Nat, NEW z \in Nat, NEW x \in Columns, NEW k \in Columns,
         y * VGA_WIDTH + x = z * VGA_WIDTH + k
  PROVE  y = z /\ x = k
<1> DEFINE W == VGA_WIDTH
<1>1. x \in Nat /\ k \in Nat /\ W \in Nat /\ x < W /\ k < W
  BY DEF Columns
<1>2. y * W + x = z * W + k
  OBVIOUS
<1> HIDE DEF W
<1>3. ASSUME NEW a \in Nat, NEW b \in Nat, NEW m \in Nat, NEW n \in Nat,
             m < W, n < W, a < b, a * W + m = b * W + n
      PROVE  FALSE
  <2>1. PICK d \in Nat : b = a + d + 1
    BY <1>3
  <2>2. a * W \in Nat /\ d * W \in Nat /\ b * W = a * W + d * W + W
    BY <1>1, <2>1
  <2> QED BY <1>1, <1>3, <2>2
<1>4. y = z
  BY <1>1, <1>2, <1>3
<1>5. y * W \in Nat
  BY <1>1
<1> QED BY <1>1, <1>2, <1>4, <1>5

LEMMA RowIsLine ==
  ASSUME NEW vga \in [Cells -> Glyphs], NEW y \in 0 .. VGA_HEIGHT - 1
  PROVE  Row(vga, y) \in Lines
<1>1. \A x \in Columns : vga[y * VGA_WIDTH + x] \in Glyphs
  BY CellOf, Zenon
<1> QED BY <1>1 DEF Row, Lines

(* What the paper holds, line by line.                                      *)
LEMMA PaperShape ==
  ASSUME NEW lines \in Seq(Lines), NEW vga \in [Cells -> Glyphs]
  PROVE  LET p == PaperOf(lines, vga)
         IN  /\ p \in Seq(Lines) /\ Len(p) = Len(lines) + VGA_HEIGHT
             /\ \A i \in 1 .. Len(lines) : p[i] = lines[i]
             /\ \A y \in 0 .. VGA_HEIGHT - 1 : p[Len(lines) + y + 1] = Row(vga, y)
<1> DEFINE s == [y \in 1 .. VGA_HEIGHT |-> Row(vga, y - 1)]
<1>1. s \in Seq(Lines) /\ Len(s) = VGA_HEIGHT
  <2>1. \A y \in 1 .. VGA_HEIGHT : Row(vga, y - 1) \in Lines
    BY RowIsLine
  <2>2. s \in [1 .. VGA_HEIGHT -> Lines]
    BY <2>1
  <2> QED BY <2>2
<1>2. \A y \in 0 .. VGA_HEIGHT - 1 : y + 1 \in 1 .. VGA_HEIGHT /\ s[y + 1] = Row(vga, y)
  OBVIOUS
<1>3. PaperOf(lines, vga) = lines \o s
  BY DEF PaperOf
<1> HIDE DEF s
<1>4. lines \o s \in Seq(Lines) /\ Len(lines \o s) = Len(lines) + VGA_HEIGHT
  BY <1>1
<1>5. \A i \in 1 .. Len(lines) : (lines \o s)[i] = lines[i]
  BY <1>1
<1>6. ASSUME NEW y \in 0 .. VGA_HEIGHT - 1
      PROVE  (lines \o s)[Len(lines) + y + 1] = Row(vga, y)
  <2>1. (lines \o s)[Len(lines) + (y + 1)] = s[y + 1]
    BY <1>1
  <2>2. Len(lines) + (y + 1) = Len(lines) + y + 1
    OBVIOUS
  <2> QED BY <2>1, <2>2, <1>2, Zenon
<1> QED BY <1>3, <1>4, <1>5, <1>6

LEMMA SameLines ==
  ASSUME NEW D, NEW R, NEW f \in [D -> R], NEW h \in [D -> R], \A i \in D : f[i] = h[i]
  PROVE  f = h
OBVIOUS

(* One cell of the screen, one place of the paper changed.                  *)
Poked(vga, cell, g)    == [vga EXCEPT ![cell] = g]
Inked(paper, n, k, g) == [paper EXCEPT ![n][k] = g]

(* A character written to the screen is written to the paper.               *)
LEMMA PaperPut ==
  ASSUME NEW lines \in Seq(Lines), NEW vga \in [Cells -> Glyphs],
         NEW r \in 0 .. VGA_HEIGHT - 1, NEW k \in Columns, NEW g \in Glyphs
  PROVE  PaperOf(lines, Poked(vga, r * VGA_WIDTH + k, g))
           = Inked(PaperOf(lines, vga), Len(lines) + r + 1, k, g)
<1> DEFINE v == [vga EXCEPT ![r * VGA_WIDTH + k] = g]
           p == PaperOf(lines, vga)
           q == PaperOf(lines, v)
           e == [p EXCEPT ![Len(lines) + r + 1][k] = g]
           n == Len(lines)
<1>1. v \in [Cells -> Glyphs]
  BY Zenon
<1>2. /\ p \in Seq(Lines) /\ Len(p) = n + VGA_HEIGHT
      /\ \A i \in 1 .. n : p[i] = lines[i]
      /\ \A y \in 0 .. VGA_HEIGHT - 1 : p[n + y + 1] = Row(vga, y)
  BY PaperShape
<1>3. /\ q \in Seq(Lines) /\ Len(q) = n + VGA_HEIGHT
      /\ \A i \in 1 .. n : q[i] = lines[i]
      /\ \A y \in 0 .. VGA_HEIGHT - 1 : q[n + y + 1] = Row(v, y)
  BY <1>1, PaperShape, Zenon
<1>4. ASSUME NEW y \in 0 .. VGA_HEIGHT - 1
      PROVE  Row(v, y) = IF y = r THEN [Row(vga, y) EXCEPT ![k] = g] ELSE Row(vga, y)
  <2>1. ASSUME NEW x \in Columns
        PROVE  v[y * VGA_WIDTH + x] = IF y = r /\ x = k THEN g ELSE vga[y * VGA_WIDTH + x]
    <3>1. y * VGA_WIDTH + x \in Cells
      BY CellOf
    <3>2. y * VGA_WIDTH + x = r * VGA_WIDTH + k => y = r /\ x = k
      BY CellUnique
    <3> QED BY <3>1, <3>2
  <2> HIDE DEF v
  <2> QED BY <2>1, Zenon DEF Row
<1>5. n \in Nat
  OBVIOUS
<1>6. e = [i \in DOMAIN p |-> IF i = n + r + 1 THEN [p[n + r + 1] EXCEPT ![k] = g] ELSE p[i]]
  BY <1>2, Zenon
<1> HIDE DEF v, p, q, e, n
<1>7. ASSUME NEW i \in 1 .. n + VGA_HEIGHT PROVE q[i] = e[i]
  <2>1. i \in DOMAIN p
    BY <1>2
  <2>2. CASE i \in 1 .. n
    BY <2>1, <2>2, <1>2, <1>3, <1>5, <1>6
  <2>3. CASE i \notin 1 .. n
    <3>1. PICK y \in 0 .. VGA_HEIGHT - 1 : i = n + y + 1
      <4>1. i - n - 1 \in 0 .. VGA_HEIGHT - 1 /\ i = n + (i - n - 1) + 1
        BY <2>3, <1>5
      <4> QED BY <4>1
    <3>2. q[i] = Row(v, y) /\ p[i] = Row(vga, y)
      BY <3>1, <1>2, <1>3
    <3>3. i = n + r + 1 <=> y = r
      BY <3>1, <1>5
    <3> QED BY <2>1, <3>1, <3>2, <3>3, <1>4, <1>6
  <2> QED BY <2>2, <2>3
<1>8. e \in [1 .. n + VGA_HEIGHT -> Lines]
  <2>1. DOMAIN p = 1 .. n + VGA_HEIGHT
    BY <1>2, <1>5
  <2>2. \A i \in 1 .. n + VGA_HEIGHT : p[i] \in Lines
    BY <1>2, <1>5
  <2>3. n + r + 1 \in 1 .. n + VGA_HEIGHT
    BY <1>5
  <2>4. [p[n + r + 1] EXCEPT ![k] = g] \in Lines
    BY <2>2, <2>3 DEF Lines
  <2> QED BY <1>6, <2>1, <2>2, <2>4
<1>9. q \in [1 .. n + VGA_HEIGHT -> Lines]
  BY <1>3, <1>5
<1>10. q = e
  <2> DEFINE D == 1 .. n + VGA_HEIGHT
  <2>1. \A i \in D : q[i] = e[i]
    BY <1>7
  <2>2. q \in [D -> Lines] /\ e \in [D -> Lines]
    BY <1>8, <1>9
  <2> HIDE DEF D
  <2> QED BY <2>1, <2>2, SameLines
<1> QED BY <1>10 DEF q, e, p, v, n, Poked, Inked

(* The rows of vga, moved up by one in up, and a line of blanks.            *)
MovedUp(vga, up, blank) ==
  /\ \A i \in Cells : i + VGA_WIDTH \in Cells => up[i] = vga[i + VGA_WIDTH]
  /\ \A i \in Cells : i + VGA_WIDTH \notin Cells => up[i] = blank

LineOf(blank) == [x \in Columns |-> blank]

(* Scrolling feeds a blank line.                                            *)
LEMMA PaperScroll ==
  ASSUME NEW lines \in Seq(Lines), NEW vga \in [Cells -> Glyphs],
         NEW up \in [Cells -> Glyphs], NEW blank \in Glyphs, MovedUp(vga, up, blank)
  PROVE  /\ Append(lines, Row(vga, 0)) \in Seq(Lines)
         /\ PaperOf(Append(lines, Row(vga, 0)), up)
              = Append(PaperOf(lines, vga), LineOf(blank))
<1> DEFINE p == PaperOf(lines, vga)
           more == Append(lines, Row(vga, 0))
           q == PaperOf(more, up)
           n == Len(lines)
           B == LineOf(blank)
           H == VGA_HEIGHT
<1>1. up \in [Cells -> Glyphs]
  OBVIOUS
<1>2. Row(vga, 0) \in Lines
  BY RowIsLine
<1>3. more \in Seq(Lines) /\ Len(more) = n + 1 /\ n \in Nat /\ more[n + 1] = Row(vga, 0)
      /\ \A i \in 1 .. n : more[i] = lines[i]
  BY <1>2
<1>4. /\ p \in Seq(Lines) /\ Len(p) = n + H
      /\ \A i \in 1 .. n : p[i] = lines[i]
      /\ \A y \in 0 .. H - 1 : p[n + y + 1] = Row(vga, y)
  BY PaperShape
<1>5. /\ q \in Seq(Lines) /\ Len(q) = n + 1 + H
      /\ \A i \in 1 .. n + 1 : q[i] = more[i]
      /\ \A y \in 0 .. H - 1 : q[n + 1 + y + 1] = Row(up, y)
  <2> HIDE DEF more
  <2>1. /\ q \in Seq(Lines) /\ Len(q) = Len(more) + H
        /\ \A i \in 1 .. Len(more) : q[i] = more[i]
        /\ \A y \in 0 .. H - 1 : q[Len(more) + y + 1] = Row(up, y)
    BY <1>1, <1>3, PaperShape, Zenon
  <2> HIDE DEF q, n, H
  <2> QED BY <1>3, <2>1
<1>6. B \in Lines
  BY DEF Lines, LineOf
<1>7. \A y \in 0 .. H - 2 : Row(up, y) = Row(vga, y + 1)
  <2> SUFFICES ASSUME NEW y \in 0 .. H - 2, NEW x \in Columns
               PROVE  up[y * VGA_WIDTH + x] = vga[(y + 1) * VGA_WIDTH + x]
    BY DEF Row
  <2>1. y * VGA_WIDTH + x \in Cells
    <3>1. y \in 0 .. VGA_HEIGHT - 1
      OBVIOUS
    <3> QED BY <3>1, CellOf
  <2>3. (y + 1) * VGA_WIDTH + x \in Cells
    <3>1. y + 1 \in 0 .. VGA_HEIGHT - 1
      OBVIOUS
    <3> QED BY <3>1, CellOf, Zenon
  <2>2. y * VGA_WIDTH + x + VGA_WIDTH = (y + 1) * VGA_WIDTH + x
    BY DEF Columns
  <2> QED BY <2>1, <2>2, <2>3 DEF MovedUp
<1>8. Row(up, H - 1) = B
  <2>1. ASSUME NEW x \in Columns PROVE up[(H - 1) * VGA_WIDTH + x] = blank
    <3>1. (H - 1) * VGA_WIDTH + x \in Cells
      BY CellOf
    <3>2. (H - 1) * VGA_WIDTH + x + VGA_WIDTH = VGA_WIDTH * H + x
      BY DEF Columns
    <3>3. VGA_WIDTH * H + x \notin Cells
      BY DEF Cells, Columns
    <3> QED BY <3>1, <3>2, <3>3 DEF MovedUp
  <2> QED BY <2>1 DEF Row, LineOf
<1>9. Append(p, B) \in Seq(Lines) /\ Len(Append(p, B)) = n + H + 1
      /\ Append(p, B)[n + H + 1] = B
      /\ \A i \in 1 .. n + H : Append(p, B)[i] = p[i]
  <2> HIDE DEF p, B
  <2> QED BY <1>3, <1>4, <1>6
<1> DEFINE a == Append(p, B)
<1> HIDE DEF p, q, B, more, n, a, H
<1>10. H \in Nat \ {0}
  BY DEF H
<1>11. ASSUME NEW i \in 1 .. n + 1 + H PROVE q[i] = a[i]
  <2>1. CASE i \in 1 .. n
    BY <2>1, <1>3, <1>4, <1>5, <1>9, <1>10 DEF a
  <2>2. CASE i = n + 1
    <3>1. p[n + 0 + 1] = Row(vga, 0)
      BY <1>4, <1>10
    <3>2. q[i] = more[n + 1] /\ n + 1 \in 1 .. n + H /\ n + 0 + 1 = n + 1
      BY <2>2, <1>3, <1>5, <1>10
    <3>3. a[n + 1] = p[n + 1]
      BY <3>2, <1>9 DEF a
    <3> QED BY <2>2, <3>1, <3>2, <3>3, <1>3
  <2>3. CASE i = n + 1 + H
    <3>1. q[n + 1 + (H - 1) + 1] = Row(up, H - 1)
      BY <1>5, <1>10
    <3> QED BY <2>3, <3>1, <1>3, <1>8, <1>9, <1>10 DEF a
  <2>4. CASE i \in n + 2 .. n + H
    <3>1. PICK y \in 0 .. H - 2 : i = n + 1 + y + 1
      <4>1. i - n - 2 \in 0 .. H - 2 /\ i = n + 1 + (i - n - 2) + 1
        BY <2>4, <1>3, <1>10
      <4> QED BY <4>1
    <3>2. q[i] = Row(up, y)
      BY <3>1, <1>5, <1>10
    <3>3. p[n + (y + 1) + 1] = Row(vga, y + 1)
      BY <1>4, <1>10
    <3>4. a[i] = p[n + (y + 1) + 1]
      <4>1. i \in 1 .. n + H /\ i = n + (y + 1) + 1
        BY <2>4, <3>1, <1>3, <1>10
      <4> QED BY <4>1, <1>9, Zenon DEF a
    <3> QED BY <3>2, <3>3, <3>4, <1>7
  <2> QED BY <2>1, <2>2, <2>3, <2>4, <1>3, <1>10
<1>12. q = a
  <2>1. q \in Seq(Lines) /\ a \in Seq(Lines) /\ Len(q) = n + 1 + H /\ Len(a) = n + 1 + H
    BY <1>3, <1>5, <1>9, <1>10 DEF a
  <2>2. q \in [1 .. n + 1 + H -> Lines] /\ a \in [1 .. n + 1 + H -> Lines]
    BY <2>1
  <2> DEFINE D == 1 .. n + 1 + H
  <2>3. \A i \in D : q[i] = a[i]
    BY <1>11
  <2>4. q \in [D -> Lines] /\ a \in [D -> Lines]
    BY <2>2
  <2> HIDE DEF D
  <2> QED BY <2>3, <2>4, SameLines
<1> QED BY <1>1, <1>3, <1>12 DEF q, a, p, B, more

(* What the screen and the paper hold.                                      *)
PaperType(t) == t.vga \in [Cells -> Glyphs] /\ t.gone \in Seq(Lines) /\ t.c \in Glyphs

Blank == Sheet!BlankLine

LEMMA PutShape ==
  ASSUME NEW t, IsTerminal(t), PaperType(t)
  PROVE  LET u == put_char(t)
         IN  /\ PaperType(u) /\ u.gone = t.gone /\ u.c = t.c
             /\ t.row < VGA_HEIGHT /\ t.column < VGA_WIDTH =>
                  PaperOf(u.gone, u.vga)
                    = Inked(PaperOf(t.gone, t.vga), Len(t.gone) + t.row + 1, t.column, t.c)
<1> DEFINE cell == t.row * VGA_WIDTH + t.column
<1>1. CASE cell \in Cells
  <2>1. put_char(t) = [t EXCEPT !.vga[cell] = t.c, !.at = "column"]
    BY <1>1 DEF put_char
  <2>2. /\ put_char(t).vga = Poked(t.vga, cell, t.c)
        /\ put_char(t).gone = t.gone /\ put_char(t).c = t.c
    <3> HIDE DEF cell
    <3> QED BY <2>1 DEF IsTerminal, Poked
  <2>3. PaperType(put_char(t))
    <3> HIDE DEF cell
    <3> QED BY <1>1, <2>2 DEF PaperType, Poked
  <2>4. ASSUME t.row < VGA_HEIGHT, t.column < VGA_WIDTH
        PROVE  t.row \in 0 .. VGA_HEIGHT - 1 /\ t.column \in Columns
    BY <2>4 DEF IsTerminal, Columns
  <2>5. ASSUME t.row < VGA_HEIGHT, t.column < VGA_WIDTH
        PROVE  PaperOf(t.gone, Poked(t.vga, cell, t.c))
                 = Inked(PaperOf(t.gone, t.vga), Len(t.gone) + t.row + 1, t.column, t.c)
    <3>1. t.row \in 0 .. VGA_HEIGHT - 1 /\ t.column \in Columns
      BY <2>4, <2>5
    <3> QED BY <3>1, PaperPut, Zenon DEF PaperType
  <2> HIDE DEF cell
  <2> QED BY <2>2, <2>3, <2>5, Zenon
<1>2. CASE cell \notin Cells
  <2>1. put_char(t) = [t EXCEPT !.outside = @ \cup {cell}, !.at = "column"]
    BY <1>2 DEF put_char
  <2>2. put_char(t).vga = t.vga /\ put_char(t).gone = t.gone /\ put_char(t).c = t.c
    <3> HIDE DEF cell
    <3> QED BY <2>1 DEF IsTerminal
  <2>3. ~ (t.row < VGA_HEIGHT /\ t.column < VGA_WIDTH)
    BY <1>2, CellOnScreen
  <2> QED BY <2>2, <2>3 DEF PaperType
<1> QED BY <1>1, <1>2

LEMMA ScrollShape ==
  ASSUME NEW t, IsTerminal(t), PaperType(t)
  PROVE  LET u == scroll_terminal(t)
         IN  /\ PaperType(u) /\ u.c = t.c /\ Len(u.gone) = Len(t.gone) + 1
             /\ PaperOf(u.gone, u.vga) = Append(PaperOf(t.gone, t.vga), Blank)
<1> DEFINE up == [i \in Cells |-> IF i + VGA_WIDTH \in Cells THEN t.vga[i + VGA_WIDTH] ELSE " "]
           top == Row(t.vga, 0)
           u == scroll_terminal(t)
<1>1. u = [t EXCEPT !.gone = Append(@, top), !.vga = up]
  BY DEF scroll_terminal
<1>2. up \in [Cells -> Glyphs]
  BY Zenon DEF PaperType, Glyphs
<1>3. \A i \in Cells : i + VGA_WIDTH \in Cells => up[i] = t.vga[i + VGA_WIDTH]
  OBVIOUS
<1>4. \A i \in Cells : i + VGA_WIDTH \notin Cells => up[i] = " "
  OBVIOUS
<1>5. " " \in Glyphs /\ Blank = [x \in Columns |-> " "]
  BY DEF Glyphs, Blank, Sheet!BlankLine, Columns
<1> HIDE DEF up
<1>6. /\ Append(t.gone, top) \in Seq(Lines)
      /\ PaperOf(Append(t.gone, top), up) = Append(PaperOf(t.gone, t.vga), Blank)
  <2> DEFINE vga == t.vga
             lines == t.gone
             blank == " "
  <2>1. lines \in Seq(Lines) /\ vga \in [Cells -> Glyphs] /\ blank \in Glyphs
    BY <1>5, Zenon DEF PaperType
  <2>2. MovedUp(vga, up, blank)
    BY <1>3, <1>4, Zenon DEF MovedUp
  <2>3. Blank = LineOf(blank)
    BY <1>5, Zenon DEF LineOf
  <2> HIDE DEF vga, lines, blank
  <2>4. /\ Append(lines, Row(vga, 0)) \in Seq(Lines)
        /\ PaperOf(Append(lines, Row(vga, 0)), up)
             = Append(PaperOf(lines, vga), LineOf(blank))
    BY <1>2, <2>1, <2>2, PaperScroll
  <2> QED BY <2>3, <2>4, Zenon DEF vga, lines
<1>7. u.gone = Append(t.gone, top) /\ u.vga = up /\ u.c = t.c
  <2> HIDE DEF top, u
  <2> QED BY <1>1 DEF IsTerminal
<1>8. Len(Append(t.gone, top)) = Len(t.gone) + 1
  <2>1. top \in Lines
    BY RowIsLine DEF PaperType
  <2> HIDE DEF top
  <2> QED BY <2>1 DEF PaperType
<1> HIDE DEF u, top
<1> QED BY <1>2, <1>6, <1>7, <1>8 DEF PaperType, u

(* The other statements move the cursor and leave the text alone.           *)
SameText(t, u) == u.vga = t.vga /\ u.gone = t.gone /\ u.c = t.c

LEMMA CursorMoves ==
  ASSUME NEW t, IsTerminal(t)
  PROVE  /\ SameText(t, line_start(t)) /\ line_start(t).row = t.row /\ line_start(t).column = 0
         /\ SameText(t, next_column(t)) /\ next_column(t).row = t.row
         /\ next_column(t).column = t.column + 1
         /\ SameText(t, next_row(t)) /\ next_row(t).row = t.row + 1
         /\ next_row(t).column = t.column
         /\ SameText(t, no_wrap(t)) /\ no_wrap(t).row = t.row /\ no_wrap(t).column = t.column
         /\ SameText(t, no_scroll(t)) /\ no_scroll(t).row = t.row
         /\ no_scroll(t).column = t.column
         /\ SameText(t, last_row(t)) /\ last_row(t).row = VGA_HEIGHT - 1
         /\ last_row(t).column = t.column
         /\ line_start(t).at = "row" /\ next_column(t).at = "wrap" /\ next_row(t).at = "scroll"
         /\ no_wrap(t).at = "scroll" /\ no_scroll(t).at = "done" /\ last_row(t).at = "done"
         /\ IsTerminal(line_start(t)) /\ IsTerminal(next_column(t)) /\ IsTerminal(next_row(t))
         /\ IsTerminal(no_wrap(t)) /\ IsTerminal(no_scroll(t)) /\ IsTerminal(last_row(t))
BY DEF SameText, line_start, next_column, next_row, no_wrap, no_scroll, last_row, IsTerminal

LEMMA ScrollMoves ==
  ASSUME NEW t, IsTerminal(t), PaperType(t)
  PROVE  /\ IsTerminal(scroll(t)) /\ PaperType(scroll(t)) /\ scroll(t).at = "last_row"
         /\ scroll(t).row = t.row /\ scroll(t).column = t.column /\ scroll(t).c = t.c
         /\ Len(scroll(t).gone) = Len(t.gone) + 1
         /\ PaperOf(scroll(t).gone, scroll(t).vga) = Append(PaperOf(t.gone, t.vga), Blank)
<1> DEFINE u == scroll_terminal(t)
<1>1. IsTerminal(u) /\ u.row = t.row /\ u.column = t.column
  BY ScrollKeeps
<1>2. /\ PaperType(u) /\ u.c = t.c /\ Len(u.gone) = Len(t.gone) + 1
      /\ PaperOf(u.gone, u.vga) = Append(PaperOf(t.gone, t.vga), Blank)
  BY ScrollShape
<1>3. scroll(t) = [u EXCEPT !.at = "last_row"]
  BY DEF scroll
<1> HIDE DEF u
<1>4. /\ IsTerminal(scroll(t)) /\ SameText(u, scroll(t)) /\ scroll(t).at = "last_row"
      /\ scroll(t).row = u.row /\ scroll(t).column = u.column
  BY <1>1, <1>3 DEF IsTerminal, SameText
<1> QED BY <1>1, <1>2, <1>4 DEF SameText, PaperType
-----------------------------------------------------------------------------
(* What View sees of the terminal, and the text once g is on the paper s.   *)
Text(t) == PaperOf(t.gone, t.vga)
Line(t) == Len(t.gone) + t.row + 1
Printed(g, s) == IF g = "\n" THEN s.paper ELSE Inked(s.paper, s.line, s.col, g)

(* The cursor goes to a new line after g, or one column on.                 *)
Turns(g, s)  == g # "\n" => s.col + 1 >= VGA_WIDTH
Stays(g, s)  == g # "\n" /\ s.col + 1 < VGA_WIDTH

(* How far terminal_put_char has come since the paper was s.                *)
Progress(t, s) ==
  /\ s.line \in Nat /\ s.col \in Nat
  /\ t.at # "done" => t.c \in Chars \cup {"\n"}
  /\ t.at = "newline" => t.c = "\n"
  /\ t.at \in {"put", "column", "wrap"} => t.c # "\n"
  /\ t.at \in {"newline", "put", "done"} =>
       Text(t) = s.paper /\ Line(t) = s.line /\ t.column = s.col
  /\ t.at = "column" => Text(t) = Printed(t.c, s) /\ Line(t) = s.line /\ t.column = s.col
  /\ t.at = "wrap" => Text(t) = Printed(t.c, s) /\ Line(t) = s.line /\ t.column = s.col + 1
  /\ t.at = "row" => /\ Text(t) = Printed(t.c, s) /\ Line(t) = s.line
                     /\ t.column = 0 /\ Turns(t.c, s)
  /\ t.at = "scroll" =>
       /\ Text(t) = Printed(t.c, s)
       /\ \/ Line(t) = s.line + 1 /\ t.column = 0 /\ Turns(t.c, s)
          \/ /\ Line(t) = s.line /\ t.column = s.col + 1 /\ Stays(t.c, s)
             /\ t.row < VGA_HEIGHT
  /\ t.at = "last_row" =>
       /\ Text(t) = Append(Printed(t.c, s), Blank) /\ t.column = 0 /\ Turns(t.c, s)
       /\ Len(t.gone) + VGA_HEIGHT = s.line + 1 /\ Len(Printed(t.c, s)) = s.line

(* The paper s, once g is written, is this text with the cursor there.      *)
Stepped(g, s, text, line, col) ==
  \/ /\ Stays(g, s) /\ text = Printed(g, s)
     /\ line = s.line /\ col = s.col + 1
  \/ /\ Turns(g, s) /\ line = s.line + 1 /\ col = 0
     /\ text = IF s.line < Len(Printed(g, s)) THEN Printed(g, s)
                                             ELSE Append(Printed(g, s), Blank)

(* That is a step of the paper.                                             *)
LEMMA SteppedNext ==
  ASSUME NEW g \in Chars \cup {".", "\n"}, shown.col \in Nat,
         Stepped(g, shown, shown'.paper, shown'.line, shown'.col)
  PROVE  Sheet!PaperNext
<1>1. CASE g = "\n"
  <2>1. Printed(g, shown) = shown.paper /\ ~ Stays(g, shown)
    BY <1>1 DEF Printed, Stays
  <2>2. Sheet!NewLine
    BY <2>1 DEF Stepped, Sheet!NewLine, Sheet!Feed, Blank
  <2> QED BY <2>2 DEF Sheet!PaperNext
<1>2. CASE g # "\n"
  <2>1. Printed(g, shown) = [shown.paper EXCEPT ![shown.line][shown.col] = g]
    BY <1>2 DEF Printed, Inked
  <2>2. CASE Stays(g, shown)
    <3>1. shown.col + 1 < VGA_WIDTH /\ ~ Turns(g, shown)
      BY <2>2 DEF Stays, Turns
    <3>2. Sheet!Write(g)
      BY <2>1, <3>1 DEF Stepped, Sheet!Write
    <3> QED BY <3>2, <1>2 DEF Sheet!PaperNext
  <2>3. CASE ~ Stays(g, shown)
    <3>1. ~ (shown.col + 1 < VGA_WIDTH)
      BY <1>2, <2>3 DEF Stays
    <3>2. Sheet!Write(g)
      BY <2>1, <2>3, <3>1 DEF Stepped, Sheet!Write, Sheet!Feed, Blank
    <3> QED BY <3>2, <1>2 DEF Sheet!PaperNext
  <2> QED BY <2>2, <2>3
<1> QED BY <1>1, <1>2

LEMMA TextLength ==
  ASSUME NEW t, PaperType(t)
  PROVE  Len(Text(t)) = Len(t.gone) + VGA_HEIGHT /\ Len(t.gone) \in Nat
<1>1. t.gone \in Seq(Lines) /\ t.vga \in [Cells -> Glyphs]
  BY DEF PaperType
<1>2. Len(PaperOf(t.gone, t.vga)) = Len(t.gone) + VGA_HEIGHT
  <2> DEFINE lines == t.gone
             vga == t.vga
  <2>1. lines \in Seq(Lines) /\ vga \in [Cells -> Glyphs]
    BY <1>1
  <2> HIDE DEF lines, vga
  <2>2. Len(PaperOf(lines, vga)) = Len(lines) + VGA_HEIGHT
    BY <2>1, PaperShape
  <2> QED BY <2>2 DEF lines, vga
<1> QED BY <1>1, <1>2 DEF Text

(* Every statement of an undisturbed terminal_put_char comes closer, and    *)
(* the last one is there.                                                   *)
MovesOn(t, u, s) ==
  /\ PaperType(u)
  /\ Progress(t, s) => IF u.at = "done" THEN Stepped(t.c, s, Text(u), Line(u), u.column)
                                        ELSE Progress(u, s)

LEMMA MainProgress ==
  ASSUME NEW t, IsTerminal(t), MainCursor(t), PaperType(t), t.at # "done", NEW s
  PROVE  MovesOn(t, Statement(t), s)
<1> DEFINE u == Statement(t)
<1>0. t.row \in Nat /\ t.column \in Nat /\ Len(t.gone) \in Nat
  BY TextLength DEF IsTerminal
<1>1. ASSUME t.at = "newline" PROVE MovesOn(t, u, s)
  <2>1. u = line_start(t)
    BY <1>1 DEF Statement
  <2>2. /\ SameText(t, u) /\ u.row = t.row /\ u.column = 0 /\ u.at = "row"
    BY <2>1, CursorMoves
  <2> HIDE DEF u
  <2>3. Text(u) = Text(t) /\ Line(u) = Line(t) /\ PaperType(u) /\ u.c = t.c
    BY <2>2 DEF SameText, Text, Line, PaperType
  <2> QED BY <1>1, <2>2, <2>3 DEF Progress, Printed, Turns, MovesOn
<1>2. ASSUME t.at = "put" PROVE MovesOn(t, u, s)
  <2>1. u = put_char(t)
    BY <1>2 DEF Statement
  <2>2. t.row < VGA_HEIGHT /\ t.column < VGA_WIDTH
    BY <1>2 DEF MainCursor
  <2>3. /\ PaperType(u) /\ u.gone = t.gone /\ u.c = t.c
        /\ Text(u) = Inked(Text(t), Line(t), t.column, t.c)
    BY <2>1, <2>2, PutShape DEF Text, Line
  <2>4. u.row = t.row /\ u.column = t.column /\ u.at = "column"
    <3>1. u \in {[t EXCEPT !.vga[t.row * VGA_WIDTH + t.column] = t.c, !.at = "column"],
                  [t EXCEPT !.outside = @ \cup {t.row * VGA_WIDTH + t.column}, !.at = "column"]}
      BY <2>1 DEF put_char
    <3> HIDE DEF u
    <3> QED BY <3>1, Zenon DEF IsTerminal
  <2> HIDE DEF u
  <2>5. Line(u) = Line(t)
    BY <2>3, <2>4 DEF Line
  <2> QED BY <1>2, <2>3, <2>4, <2>5 DEF Progress, Printed, MovesOn
<1>3. ASSUME t.at = "column" PROVE MovesOn(t, u, s)
  <2>1. u = next_column(t)
    BY <1>3 DEF Statement
  <2>2. /\ SameText(t, u) /\ u.row = t.row /\ u.column = t.column + 1 /\ u.at = "wrap"
    BY <2>1, CursorMoves
  <2> HIDE DEF u
  <2>3. Text(u) = Text(t) /\ Line(u) = Line(t) /\ PaperType(u) /\ u.c = t.c
    BY <2>2 DEF SameText, Text, Line, PaperType
  <2> QED BY <1>3, <2>2, <2>3 DEF Progress, MovesOn
<1>4. ASSUME t.at = "wrap" /\ Wraps(t) PROVE MovesOn(t, u, s)
  <2>1. u = line_start(t)
    BY <1>4 DEF Statement
  <2>2. /\ SameText(t, u) /\ u.row = t.row /\ u.column = 0 /\ u.at = "row"
    BY <2>1, CursorMoves
  <2> HIDE DEF u
  <2>3. Text(u) = Text(t) /\ Line(u) = Line(t) /\ PaperType(u) /\ u.c = t.c
    BY <2>2 DEF SameText, Text, Line, PaperType
  <2> QED BY <1>4, <2>2, <2>3 DEF Progress, Wraps, Turns, MovesOn
<1>5. ASSUME t.at = "wrap" /\ ~ Wraps(t) PROVE MovesOn(t, u, s)
  <2>1. u = no_wrap(t)
    BY <1>5 DEF Statement
  <2>2. /\ SameText(t, u) /\ u.row = t.row /\ u.column = t.column /\ u.at = "scroll"
    BY <2>1, CursorMoves
  <2> HIDE DEF u
  <2>3. Text(u) = Text(t) /\ Line(u) = Line(t) /\ PaperType(u) /\ u.c = t.c
    BY <2>2 DEF SameText, Text, Line, PaperType
  <2>4. t.row < VGA_HEIGHT /\ t.column < VGA_WIDTH
    BY <1>0, <1>5 DEF MainCursor, Wraps
  <2> QED BY <1>5, <2>2, <2>3, <2>4 DEF Progress, Stays, MovesOn
<1>6. ASSUME t.at = "row" PROVE MovesOn(t, u, s)
  <2>1. u = next_row(t)
    BY <1>6 DEF Statement
  <2>2. /\ SameText(t, u) /\ u.row = t.row + 1 /\ u.column = t.column /\ u.at = "scroll"
    BY <2>1, CursorMoves
  <2> HIDE DEF u
  <2>3. Text(u) = Text(t) /\ Line(u) = Line(t) + 1 /\ PaperType(u) /\ u.c = t.c
    <3>1. Text(u) = Text(t) /\ PaperType(u) /\ u.c = t.c /\ u.gone = t.gone
      BY <2>2 DEF SameText, Text, PaperType
    <3>2. Line(u) = Len(t.gone) + (t.row + 1) + 1
      BY <2>2, <3>1 DEF Line
    <3>3. Line(u) = Line(t) + 1
      BY <1>0, <3>2 DEF Line
    <3> QED BY <3>1, <3>3
  <2> QED BY <1>6, <2>2, <2>3 DEF Progress, MovesOn
<1>7. ASSUME t.at = "scroll" /\ t.row >= VGA_HEIGHT PROVE MovesOn(t, u, s)
  <2>1. u = scroll(t)
    BY <1>7 DEF Statement
  <2>2. /\ PaperType(u) /\ u.at = "last_row" /\ u.row = t.row /\ u.column = t.column
        /\ u.c = t.c /\ Len(u.gone) = Len(t.gone) + 1 /\ Text(u) = Append(Text(t), Blank)
    BY <2>1, ScrollMoves DEF Text
  <2>3. t.row = VGA_HEIGHT
    BY <1>0, <1>7 DEF MainCursor
  <2> HIDE DEF u
  <2>4. ASSUME Progress(t, s)
        PROVE  /\ Text(t) = Printed(t.c, s) /\ Line(t) = s.line + 1 /\ t.column = 0
               /\ Turns(t.c, s) /\ t.c \in Chars \cup {"\n"}
               /\ s.line \in Nat /\ s.col \in Nat
    BY <1>0, <1>7, <2>3, <2>4 DEF Progress
  <2>5. ASSUME s.line \in Nat, Line(t) = s.line + 1
        PROVE  Len(u.gone) + VGA_HEIGHT = s.line + 1 /\ Len(Text(t)) = s.line
    BY <1>0, <2>2, <2>3, <2>5, TextLength DEF Line
  <2> QED BY <2>2, <2>4, <2>5 DEF Progress, MovesOn
<1>8. ASSUME t.at = "scroll" /\ ~ (t.row >= VGA_HEIGHT) PROVE MovesOn(t, u, s)
  <2>1. u = no_scroll(t)
    BY <1>8 DEF Statement
  <2>2. /\ SameText(t, u) /\ u.row = t.row /\ u.column = t.column /\ u.at = "done"
    BY <2>1, CursorMoves
  <2> HIDE DEF u
  <2>3. Text(u) = Text(t) /\ Line(u) = Line(t) /\ PaperType(u) /\ u.c = t.c
    BY <2>2 DEF SameText, Text, Line, PaperType
  <2>4. ASSUME s.line \in Nat, Line(t) = s.line + 1 PROVE s.line < Len(Text(t))
    BY <1>0, <1>8, <2>4, TextLength DEF Line
  <2> QED BY <1>8, <2>2, <2>3, <2>4 DEF Progress, Stepped, MovesOn
<1>9. ASSUME t.at = "last_row" PROVE MovesOn(t, u, s)
  <2>1. u = last_row(t)
    BY <1>9 DEF Statement
  <2>2. /\ SameText(t, u) /\ u.row = VGA_HEIGHT - 1 /\ u.column = t.column /\ u.at = "done"
    BY <2>1, CursorMoves
  <2> HIDE DEF u
  <2>3. Text(u) = Text(t) /\ PaperType(u) /\ u.c = t.c /\ u.gone = t.gone
    BY <2>2 DEF SameText, Text, PaperType
  <2>4. Line(u) = Len(t.gone) + VGA_HEIGHT
    <3>1. Line(u) = Len(t.gone) + (VGA_HEIGHT - 1) + 1
      BY <2>2, <2>3 DEF Line
    <3> QED BY <1>0, <3>1
  <2>5. ASSUME Progress(t, s)
        PROVE  /\ Text(t) = Append(Printed(t.c, s), Blank) /\ t.column = 0 /\ Turns(t.c, s)
               /\ Line(u) = s.line + 1 /\ Len(Printed(t.c, s)) = s.line /\ s.line \in Nat
    BY <1>9, <2>4, <2>5 DEF Progress
  <2>6. ASSUME Progress(t, s) PROVE Stepped(t.c, s, Text(u), Line(u), u.column)
    <3>1. ~ (s.line < Len(Printed(t.c, s)))
      BY <2>5, <2>6
    <3>2. Text(u) = Append(Printed(t.c, s), Blank) /\ u.column = 0 /\ Turns(t.c, s)
          /\ Line(u) = s.line + 1
      BY <2>2, <2>3, <2>5, <2>6
    <3> QED BY <3>1, <3>2 DEF Stepped
  <2> QED BY <2>2, <2>3, <2>6 DEF MovesOn
<1> QED BY <1>1, <1>2, <1>3, <1>4, <1>5, <1>6, <1>7, <1>8, <1>9 DEF MainCursor

LEMMA WrapText ==
  ASSUME NEW t, IsTerminal(t), PaperType(t)
  PROVE  LET u == Wrapped(t)
         IN  /\ IsTerminal(u) /\ PaperType(u) /\ SameText(t, u)
             /\ IF Wraps(t) THEN u.row = t.row + 1 /\ u.column = 0
                            ELSE u.row = t.row /\ u.column = t.column
<1>1. CASE Wraps(t)
  <2> DEFINE v == line_start(t)
             u == next_row(v)
  <2>1. IsTerminal(v) /\ SameText(t, v) /\ v.row = t.row /\ v.column = 0
    BY CursorMoves
  <2>2. IsTerminal(u) /\ SameText(v, u) /\ u.row = v.row + 1 /\ u.column = v.column
    <3> HIDE DEF v
    <3> QED BY <2>1, CursorMoves
  <2>3. Wrapped(t) = u
    BY <1>1 DEF Wrapped
  <2> HIDE DEF u, v
  <2> QED BY <1>1, <2>1, <2>2, <2>3 DEF SameText, PaperType
<1>2. CASE ~ Wraps(t)
  <2> DEFINE u == no_wrap(t)
  <2>1. IsTerminal(u) /\ SameText(t, u) /\ u.row = t.row /\ u.column = t.column
    BY CursorMoves
  <2>2. Wrapped(t) = u
    BY <1>2 DEF Wrapped
  <2> HIDE DEF u
  <2> QED BY <1>2, <2>1, <2>2 DEF SameText, PaperType
<1> QED BY <1>1, <1>2

LEMMA ScrollText ==
  ASSUME NEW t, IsTerminal(t), PaperType(t)
  PROVE  LET u == Scrolled(t)
         IN  /\ PaperType(u) /\ u.column = t.column
             /\ IF t.row >= VGA_HEIGHT
                THEN Text(u) = Append(Text(t), Blank) /\ Line(u) = Len(t.gone) + 1 + VGA_HEIGHT
                ELSE Text(u) = Text(t) /\ Line(u) = Line(t)
<1>0. Len(t.gone) \in Nat
  BY TextLength
<1>1. CASE t.row >= VGA_HEIGHT
  <2> DEFINE v == scroll(t)
             u == last_row(v)
  <2>1. /\ IsTerminal(v) /\ PaperType(v) /\ v.column = t.column
        /\ Len(v.gone) = Len(t.gone) + 1 /\ Text(v) = Append(Text(t), Blank)
    BY ScrollMoves DEF Text
  <2>2. IsTerminal(u) /\ SameText(v, u) /\ u.row = VGA_HEIGHT - 1 /\ u.column = v.column
    <3> HIDE DEF v
    <3> QED BY <2>1, CursorMoves
  <2>3. Scrolled(t) = u
    BY <1>1 DEF Scrolled
  <2> HIDE DEF u, v
  <2>4. Text(u) = Text(v) /\ PaperType(u) /\ Line(u) = Len(t.gone) + 1 + VGA_HEIGHT
    <3>1. Text(u) = Text(v) /\ PaperType(u) /\ u.gone = v.gone
      BY <2>1, <2>2 DEF SameText, PaperType, Text
    <3>2. Line(u) = Len(t.gone) + 1 + (VGA_HEIGHT - 1) + 1
      BY <2>1, <2>2, <3>1, Zenon DEF Line
    <3> QED BY <1>0, <3>1, <3>2
  <2> QED BY <1>1, <2>1, <2>2, <2>3, <2>4
<1>2. CASE ~ (t.row >= VGA_HEIGHT)
  <2> DEFINE u == no_scroll(t)
  <2>1. IsTerminal(u) /\ SameText(t, u) /\ u.row = t.row /\ u.column = t.column
    BY CursorMoves
  <2>2. Scrolled(t) = u
    BY <1>2 DEF Scrolled
  <2> HIDE DEF u
  <2>3. Text(u) = Text(t) /\ PaperType(u) /\ Line(u) = Line(t)
    BY <2>1 DEF SameText, PaperType, Text, Line
  <2> QED BY <1>2, <2>1, <2>2, <2>3
<1> QED BY <1>1, <1>2

(* A whole character, printed with the cursor on the screen, is a step of   *)
(* the paper.                                                               *)
LEMMA WholeProgress ==
  ASSUME NEW t, IsTerminal(t), PaperType(t), NEW s
  PROVE  LET u == PutWhole(t)
         IN  /\ PaperType(u)
             /\ /\ t.row < VGA_HEIGHT /\ t.column < VGA_WIDTH /\ t.c # "\n"
                /\ s.paper = Text(t) /\ s.line = Line(t) /\ s.col = t.column
                => Stepped(t.c, s, Text(u), Line(u), u.column)
<1> DEFINE p == put_char(t)
           q == next_column(p)
           w == Wrapped(q)
           u == Scrolled(w)
           OnIt == /\ t.row < VGA_HEIGHT /\ t.column < VGA_WIDTH /\ t.c # "\n"
                   /\ s.paper = Text(t) /\ s.line = Line(t) /\ s.col = t.column
<1>0. t.row \in Nat /\ t.column \in Nat /\ Len(t.gone) \in Nat
  BY TextLength DEF IsTerminal
<1>1. /\ PaperType(p) /\ p.gone = t.gone /\ p.c = t.c
      /\ OnIt => Text(p) = Inked(Text(t), Line(t), t.column, t.c)
  BY PutShape DEF Text, Line
<1>2. IsTerminal(p) /\ p.row = t.row /\ p.column = t.column
  <2>1. p \in {[t EXCEPT !.vga[t.row * VGA_WIDTH + t.column] = t.c, !.at = "column"],
                [t EXCEPT !.outside = @ \cup {t.row * VGA_WIDTH + t.column}, !.at = "column"]}
    BY DEF put_char
  <2> HIDE DEF p
  <2> QED BY <2>1, Zenon DEF IsTerminal
<1>3. IsTerminal(q) /\ SameText(p, q) /\ q.row = p.row /\ q.column = p.column + 1
  <2> HIDE DEF p
  <2> QED BY <1>2, CursorMoves
<1>4. PaperType(q)
  <2> HIDE DEF p, q
  <2> QED BY <1>1, <1>3 DEF SameText, PaperType
<1>5. /\ IsTerminal(w) /\ PaperType(w) /\ SameText(q, w)
      /\ IF Wraps(q) THEN w.row = q.row + 1 /\ w.column = 0
                     ELSE w.row = q.row /\ w.column = q.column
  <2> HIDE DEF q
  <2> QED BY <1>3, <1>4, WrapText
<1>6. /\ PaperType(u) /\ u.column = w.column
      /\ IF w.row >= VGA_HEIGHT
         THEN Text(u) = Append(Text(w), Blank) /\ Line(u) = Len(w.gone) + 1 + VGA_HEIGHT
         ELSE Text(u) = Text(w) /\ Line(u) = Line(w)
  <2> HIDE DEF w
  <2> QED BY <1>5, ScrollText
<1>7. PutWhole(t) = u
  BY DEF PutWhole
<1> HIDE DEF p, q, w, u
<1>8. w.gone = t.gone /\ Text(w) = Text(p) /\ Len(Text(w)) = Len(t.gone) + VGA_HEIGHT
  <2>1. w.gone = t.gone /\ Text(w) = Text(p)
    BY <1>1, <1>3, <1>5 DEF SameText, Text
  <2> QED BY <2>1, <1>5, TextLength
<1>9. ASSUME OnIt PROVE Stepped(t.c, s, Text(u), Line(u), u.column)
  <2>0. /\ s.line \in Nat /\ s.col \in Nat /\ s.line = Len(t.gone) + t.row + 1
        /\ t.row < VGA_HEIGHT
    BY <1>0, <1>9 DEF Line
  <2>1. Text(w) = Printed(t.c, s)
    BY <1>1, <1>8, <1>9 DEF Printed
  <2>2. CASE Wraps(q)
    <3>1. Turns(t.c, s) /\ u.column = 0 /\ w.row = t.row + 1
      BY <1>0, <1>2, <1>3, <1>5, <1>6, <1>9, <2>2 DEF Wraps, Turns
    <3>2. CASE w.row >= VGA_HEIGHT
      <4>1. Line(u) = s.line + 1 /\ ~ (s.line < Len(Text(w)))
        <5>1. Line(u) = Len(t.gone) + 1 + VGA_HEIGHT
          BY <1>6, <1>8, <3>2
        <5>2. t.row + 1 = VGA_HEIGHT
          BY <1>0, <2>0, <3>1, <3>2
        <5>3. Len(Text(w)) = Len(t.gone) + VGA_HEIGHT
          BY <1>8
        <5>4. s.line = Len(t.gone) + VGA_HEIGHT
          BY <1>0, <2>0, <5>2
        <5> QED BY <1>0, <5>1, <5>3, <5>4
      <4>2. Text(u) = Append(Text(w), Blank)
        BY <1>6, <3>2
      <4> QED BY <2>1, <3>1, <4>1, <4>2 DEF Stepped
    <3>3. CASE ~ (w.row >= VGA_HEIGHT)
      <4>1. Line(u) = s.line + 1 /\ s.line < Len(Text(w))
        <5>1. Line(u) = Len(t.gone) + (t.row + 1) + 1
          BY <1>6, <1>8, <3>1, <3>3 DEF Line
        <5>2. t.row + 1 < VGA_HEIGHT
          BY <1>0, <2>0, <3>1, <3>3
        <5>3. Len(Text(w)) = Len(t.gone) + VGA_HEIGHT
          BY <1>8
        <5> QED BY <1>0, <2>0, <5>1, <5>2, <5>3
      <4>2. Text(u) = Text(w)
        BY <1>6, <3>3
      <4> QED BY <2>1, <3>1, <4>1, <4>2 DEF Stepped
    <3> QED BY <3>2, <3>3
  <2>3. CASE ~ Wraps(q)
    <3>1. Stays(t.c, s) /\ u.column = s.col + 1 /\ w.row = t.row
      BY <1>0, <1>2, <1>3, <1>5, <1>6, <1>9, <2>3 DEF Wraps, Stays
    <3>2. Line(u) = s.line /\ Text(u) = Text(w)
      BY <1>0, <1>6, <1>8, <1>9, <2>0, <3>1 DEF Line
    <3> QED BY <2>1, <3>1, <3>2 DEF Stepped
  <2> QED BY <2>2, <2>3
<1> QED BY <1>6, <1>7, <1>9

-----------------------------------------------------------------------------
(* The inductive invariant: until a dot tears a character, the screen shows *)
(* the paper with as much of that character as is printed.                  *)
TextInv == PaperType(Terminal) /\ (~ torn => Progress(Terminal, shown))

LEMMA ViewOf ==
  ASSUME NEW t
  PROVE  View(t).paper = Text(t) /\ View(t).line = Line(t) /\ View(t).col = t.column
BY DEF View, Text, Line, PaperOf

(* A screen with one character everywhere, and nothing gone.                *)
LEMMA UniformScreen ==
  ASSUME NEW g \in Glyphs
  PROVE  LET vga == [i \in Cells |-> g]
         IN  /\ vga \in [Cells -> Glyphs] /\ << >> \in Seq(Lines)
             /\ PaperOf(<< >>, vga) = [y \in 1 .. VGA_HEIGHT |-> LineOf(g)]
<1> DEFINE vga == [i \in Cells |-> g]
           p == PaperOf(<< >>, vga)
           D == 1 .. VGA_HEIGHT
<1>1. vga \in [Cells -> Glyphs] /\ << >> \in Seq(Lines) /\ Len(<< >>) = 0
  OBVIOUS
<1>2. \A y \in 0 .. VGA_HEIGHT - 1 : Row(vga, y) = LineOf(g)
  BY CellOf DEF Row, LineOf
<1> HIDE DEF vga
<1>3. /\ p \in Seq(Lines) /\ Len(p) = VGA_HEIGHT
      /\ \A y \in 0 .. VGA_HEIGHT - 1 : p[0 + y + 1] = Row(vga, y)
  <2> DEFINE none == << >>
  <2>1. none \in Seq(Lines) /\ Len(none) = 0
    OBVIOUS
  <2> HIDE DEF none
  <2>2. LET e == PaperOf(none, vga)
        IN  /\ e \in Seq(Lines) /\ Len(e) = Len(none) + VGA_HEIGHT
            /\ \A y \in 0 .. VGA_HEIGHT - 1 : e[Len(none) + y + 1] = Row(vga, y)
    BY <1>1, <2>1, PaperShape, Zenon
  <2>3. p = PaperOf(none, vga)
    BY DEF none
  <2> HIDE DEF p
  <2> QED BY <2>1, <2>2, <2>3
<1> HIDE DEF p
<1>4. ASSUME NEW i \in D PROVE p[i] = LineOf(g)
  <2>1. i - 1 \in 0 .. VGA_HEIGHT - 1 /\ 0 + (i - 1) + 1 = i
    OBVIOUS
  <2> QED BY <2>1, <1>2, <1>3, Zenon
<1>5. p \in [D -> Lines]
  BY <1>3
<1>6. p = [y \in D |-> LineOf(g)]
  <2> HIDE DEF D
  <2> QED BY <1>4, <1>5
<1> QED BY <1>1, <1>6 DEF p, vga

(* No statement changes the character that is being printed.                *)
LEMMA MainSays ==
  ASSUME NEW t, IsTerminal(t), MainCursor(t), PaperType(t)
  PROVE  Statement(t).c = t.c
<1>1. Statement(t) \in {line_start(t), next_column(t), no_wrap(t), next_row(t), no_scroll(t),
                        last_row(t), put_char(t), scroll(t), t}
  BY DEF Statement, MainCursor
<1>2. put_char(t).c = t.c /\ scroll(t).c = t.c
  BY PutShape, ScrollMoves
<1>3. /\ line_start(t).c = t.c /\ next_column(t).c = t.c /\ no_wrap(t).c = t.c
      /\ next_row(t).c = t.c /\ no_scroll(t).c = t.c /\ last_row(t).c = t.c
  BY CursorMoves DEF SameText
<1> QED BY <1>1, <1>2, <1>3

LEMMA TextInit == Init => TextInv /\ Sheet!PaperInit
<1> SUFFICES ASSUME Init PROVE TextInv /\ Sheet!PaperInit
  OBVIOUS
<1> DEFINE old == "old"
           blankless == [i \in Cells |-> old]
<1>1. /\ at = "done" /\ c = " " /\ vga_buffer = blankless /\ terminal_row = 0
      /\ terminal_column = 0 /\ gone = << >> /\ shown = View(Terminal)
  BY Zenon DEF Init
<1>2. old \in Glyphs /\ " " \in Glyphs
  BY DEF Glyphs
<1>3. /\ blankless \in [Cells -> Glyphs] /\ << >> \in Seq(Lines)
      /\ PaperOf(<< >>, blankless) = [y \in 1 .. VGA_HEIGHT |-> LineOf(old)]
  <2> HIDE DEF old
  <2> QED BY <1>2, UniformScreen, Zenon
<1> HIDE DEF blankless
<1>4. /\ Terminal.at = "done" /\ Terminal.c = " " /\ Terminal.vga = blankless
      /\ Terminal.row = 0 /\ Terminal.column = 0 /\ Terminal.gone = << >>
  BY <1>1, Zenon DEF Terminal
<1>5. shown.paper = Text(Terminal) /\ shown.line = Line(Terminal) /\ shown.col = Terminal.column
  BY <1>1, ViewOf, Zenon
<1>6. Line(Terminal) = 1
  <2>1. Len(Terminal.gone) = 0
    BY <1>4, Zenon
  <2>2. Terminal.row = 0
    BY <1>4, Zenon
  <2> QED BY <2>1, <2>2 DEF Line
<1>7. Text(Terminal) = [y \in 1 .. VGA_HEIGHT |-> LineOf(old)]
  BY <1>3, <1>4, Zenon DEF Text
<1>8. TextInv
  <2>1. PaperType(Terminal)
    BY <1>2, <1>3, <1>4, Zenon DEF PaperType
  <2>2. shown.line = 1 /\ shown.col = 0
    BY <1>4, <1>5, <1>6, Zenon
  <2>3. Terminal.at = "done"
    BY <1>4, Zenon
  <2>4. Progress(Terminal, shown)
    BY <1>5, <2>2, <2>3 DEF Progress
  <2> QED BY <2>1, <2>4 DEF TextInv
<1>9. LineOf(old) \in [0 .. VGA_WIDTH - 1 -> {" ", "old"}]
  BY DEF LineOf, Columns
<1>10. Sheet!PaperInit
  <2>1. shown.line = 1 /\ shown.col = 0
    BY <1>4, <1>5, <1>6, Zenon
  <2>2. shown.paper \in [1 .. VGA_HEIGHT -> [0 .. VGA_WIDTH - 1 -> {" ", "old"}]]
    <3> HIDE DEF old
    <3> DEFINE S == [0 .. VGA_WIDTH - 1 -> {" ", "old"}]
    <3>1. LineOf(old) \in S
      BY <1>9, Zenon
    <3> HIDE DEF S
    <3>2. shown.paper \in [1 .. VGA_HEIGHT -> S]
      BY <1>5, <1>7, <3>1
    <3> QED BY <3>2, Zenon DEF S
  <2> QED BY <2>1, <2>2, Zenon DEF Sheet!PaperInit
<1> QED BY <1>8, <1>10

(* Every step keeps the invariant and is a step of the paper or none.       *)
LEMMA TextStep ==
  CursorInv /\ TextInv /\ [Next]_vars => TextInv' /\ [Sheet!PaperNext]_(Sheet!paperVars)
<1> SUFFICES ASSUME CursorInv, TextInv, [Next]_vars
             PROVE  TextInv' /\ (Sheet!PaperNext \/ shown' = shown)
  BY DEF Sheet!paperVars
<1>0. IsTerminal(Terminal) /\ MainCursor(Terminal) /\ PaperType(Terminal)
  BY DEF CursorInv, TextInv
<1>1. CASE terminal_put_char
  <2>1. /\ at = "done" /\ at' \in {"newline", "put"} /\ c' \in Chars \cup {"\n"}
        /\ at' = "newline" <=> c' = "\n"
        /\ UNCHANGED <<vga_buffer, terminal_row, terminal_column, gone, torn, shown>>
    BY <1>1 DEF terminal_put_char, Start
  <2>2. /\ Terminal.at = "done" /\ Terminal'.at = at' /\ Terminal'.c = c'
        /\ Terminal'.vga = Terminal.vga /\ Terminal'.gone = Terminal.gone
        /\ Terminal'.row = Terminal.row /\ Terminal'.column = Terminal.column
    BY <2>1 DEF Terminal
  <2>3. Text(Terminal') = Text(Terminal) /\ Line(Terminal') = Line(Terminal)
    BY <2>2 DEF Text, Line
  <2>4. PaperType(Terminal')
    BY <1>0, <2>1, <2>2, Zenon DEF PaperType, Glyphs
  <2>5. Progress(Terminal, shown) => Progress(Terminal', shown')
    BY <2>1, <2>2, <2>3 DEF Progress
  <2> QED BY <2>1, <2>4, <2>5 DEF TextInv
<1>2. CASE statement
  <2> DEFINE u == Statement(Terminal)
  <2>1. /\ at # "done" /\ at' = u.at /\ c' = c /\ torn' = torn
        /\ vga_buffer' = u.vga /\ terminal_row' = u.row /\ terminal_column' = u.column
        /\ gone' = u.gone
        /\ shown' = IF u.at = "done" /\ ~ torn THEN View(u) ELSE shown
    BY <1>2 DEF statement, Becomes
  <2>2. MovesOn(Terminal, u, shown)
    BY <1>0, <2>1, MainProgress DEF Terminal
  <2>3. u.c = Terminal.c
    BY <1>0, <2>1, MainSays, Zenon DEF Terminal
  <2> HIDE DEF u
  <2>4. /\ Terminal'.at = u.at /\ Terminal'.c = u.c /\ Terminal'.vga = u.vga
        /\ Terminal'.gone = u.gone /\ Terminal'.row = u.row /\ Terminal'.column = u.column
    BY <2>1, <2>3 DEF Terminal
  <2>5. PaperType(Terminal') /\ Text(Terminal') = Text(u) /\ Line(Terminal') = Line(u)
    BY <2>2, <2>4 DEF MovesOn, PaperType, Text, Line
  <2>6. CASE torn \/ u.at # "done"
    <3>1. shown' = shown
      BY <2>1, <2>6
    <3>2. ~ torn => Progress(u, shown)
      BY <2>2, <2>6 DEF MovesOn, TextInv
    <3>3. Progress(u, shown) => Progress(Terminal', shown')
      BY <2>4, <2>5, <3>1 DEF Progress
    <3> QED BY <2>1, <2>5, <3>1, <3>2, <3>3 DEF TextInv
  <2>7. CASE ~ torn /\ u.at = "done"
    <3>1. shown'.paper = Text(u) /\ shown'.line = Line(u) /\ shown'.col = u.column
      BY <2>1, <2>7, ViewOf
    <3>2. Progress(Terminal, shown)
      BY <2>7 DEF TextInv
    <3>3. Stepped(c, shown, shown'.paper, shown'.line, shown'.col)
      BY <2>2, <2>7, <3>1, <3>2 DEF MovesOn, Terminal
    <3>4. shown.line \in Nat /\ shown.col \in Nat /\ c \in Chars \cup {"\n"}
      BY <2>1, <3>2, Zenon DEF Progress, Terminal
    <3>5. Sheet!PaperNext
      BY <3>3, <3>4, SteppedNext
    <3>6. shown'.line \in Nat /\ shown'.col \in Nat
      BY <3>3, <3>4 DEF Stepped
    <3>7. Progress(Terminal', shown')
      BY <2>4, <2>5, <2>7, <3>1, <3>6 DEF Progress
    <3> QED BY <2>5, <3>5, <3>7 DEF TextInv
  <2> QED BY <2>6, <2>7
<1>3. CASE clear_terminal
  <2> DEFINE blank == " "
             empty == [i \in Cells |-> blank]
             u == [Terminal EXCEPT !.vga = empty, !.row = 0, !.column = 0, !.gone = << >>]
  <2>1. /\ at = "done" /\ at' = at /\ c' = c /\ torn' = FALSE
        /\ vga_buffer' = u.vga /\ terminal_row' = u.row /\ terminal_column' = u.column
        /\ gone' = u.gone
        /\ shown' = IF u.at = "done" /\ ~ torn' THEN View(u) ELSE shown
    BY <1>3, Zenon DEF clear_terminal, Becomes
  <2>2. blank \in Glyphs /\ Sheet!BlankLine = LineOf(blank)
    BY DEF Glyphs, Sheet!BlankLine, LineOf, Columns
  <2>3. /\ empty \in [Cells -> Glyphs] /\ << >> \in Seq(Lines)
        /\ PaperOf(<< >>, empty) = [y \in 1 .. VGA_HEIGHT |-> LineOf(blank)]
    <3> HIDE DEF blank
    <3> QED BY <2>2, UniformScreen, Zenon
  <2> HIDE DEF empty
  <2>4. /\ u.at = at /\ u.c = c /\ u.vga = empty /\ u.gone = << >> /\ u.row = 0 /\ u.column = 0
    BY DEF Terminal
  <2> HIDE DEF u
  <2>5. /\ Terminal'.at = "done" /\ Terminal'.c = Terminal.c /\ Terminal'.vga = empty
        /\ Terminal'.gone = << >> /\ Terminal'.row = 0 /\ Terminal'.column = 0
    BY <2>1, <2>4 DEF Terminal
  <2>6. shown'.paper = Text(u) /\ shown'.line = Line(u) /\ shown'.col = u.column
    BY <2>1, <2>4, ViewOf
  <2>7. /\ Text(u) = Text(Terminal') /\ Line(u) = Line(Terminal') /\ Line(u) = 1
        /\ Text(u) = [y \in 1 .. VGA_HEIGHT |-> LineOf(blank)]
    <3>1. u.gone = Terminal'.gone /\ u.vga = Terminal'.vga /\ u.row = Terminal'.row
      BY <2>4, <2>5
    <3>2. Text(u) = Text(Terminal') /\ Line(u) = Line(Terminal')
      BY <3>1, Zenon DEF Text, Line
    <3>3. Text(u) = [y \in 1 .. VGA_HEIGHT |-> LineOf(blank)]
      <4> HIDE DEF blank
      <4> QED BY <2>3, <2>4, Zenon DEF Text
    <3>4. Len(u.gone) = 0
      BY <2>4
    <3>5. Line(u) = 1
      BY <2>4, <3>4 DEF Line
    <3> QED BY <3>2, <3>3, <3>5, Zenon
  <2>8. Sheet!NewSheet
    BY <2>2, <2>4, <2>6, <2>7, Zenon DEF Sheet!NewSheet
  <2>9. TextInv'
    <3>1. PaperType(Terminal')
      BY <1>0, <2>3, <2>5, Zenon DEF PaperType
    <3>2. /\ shown'.paper = Text(Terminal') /\ shown'.line = Line(Terminal')
          /\ shown'.col = Terminal'.column /\ shown'.line = 1 /\ shown'.col = 0
      BY <2>4, <2>5, <2>6, <2>7, Zenon
    <3>4. Terminal'.at = "done"
      BY <2>5
    <3>3. Progress(Terminal', shown')
      BY <3>2, <3>4 DEF Progress
    <3> QED BY <3>1, <3>3 DEF TextInv
  <2> QED BY <2>8, <2>9 DEF Sheet!PaperNext
<1>4. CASE rtc_interrupt_handler
  <2> DEFINE dot == "."
             t == [Terminal EXCEPT !.c = dot]
             u == PutWhole(t)
  <2>1. /\ at' = at /\ c' = c /\ torn' = (torn \/ at # "done")
        /\ vga_buffer' = u.vga /\ terminal_row' = u.row /\ terminal_column' = u.column
        /\ gone' = u.gone
        /\ shown' = IF u.at = "done" /\ ~ torn' THEN View(u) ELSE shown
    BY <1>4 DEF rtc_interrupt_handler, Becomes
  <2>2. dot \in Glyphs /\ dot # "\n" /\ dot \in Chars \cup {".", "\n"}
    BY DEF Glyphs
  <2>3. /\ t.c = dot /\ t.vga = Terminal.vga /\ t.gone = Terminal.gone
        /\ t.row = Terminal.row /\ t.column = Terminal.column /\ IsTerminal(t)
        /\ t.outside = Terminal.outside
    BY <1>0 DEF IsTerminal, Terminal
  <2>4. PaperType(t) /\ Text(t) = Text(Terminal) /\ Line(t) = Line(Terminal)
    <3> HIDE DEF t
    <3> QED BY <1>0, <2>2, <2>3 DEF PaperType, Text, Line
  <2>5. Reachable(t) /\ Close(t)
    <3> HIDE DEF t
    <3> QED BY <1>0, <2>3 DEF CursorInv, MainCursor, Reachable, IsTerminal, Close
  <2>6. /\ PaperType(u)
        /\ /\ t.row < VGA_HEIGHT /\ t.column < VGA_WIDTH /\ t.c # "\n"
           /\ shown.paper = Text(t) /\ shown.line = Line(t) /\ shown.col = t.column
           => Stepped(t.c, shown, Text(u), Line(u), u.column)
    <3> HIDE DEF t
    <3> QED BY <2>3, <2>4, WholeProgress
  <2>7. u.at = "done"
    <3> HIDE DEF t
    <3> QED BY <2>3, <2>5, DotRecovers
  <2> HIDE DEF t, u, dot
  <2>8. /\ Terminal'.at = Terminal.at /\ Terminal'.c = Terminal.c /\ Terminal'.vga = u.vga
        /\ Terminal'.gone = u.gone /\ Terminal'.row = u.row /\ Terminal'.column = u.column
    BY <2>1 DEF Terminal
  <2>9. PaperType(Terminal') /\ Text(Terminal') = Text(u) /\ Line(Terminal') = Line(u)
    BY <1>0, <2>6, <2>8 DEF PaperType, Text, Line
  <2>10. CASE torn \/ at # "done"
    BY <2>1, <2>9, <2>10, Zenon DEF TextInv
  <2>11. CASE ~ torn /\ at = "done"
    <3>1. shown'.paper = Text(u) /\ shown'.line = Line(u) /\ shown'.col = u.column
      BY <2>1, <2>7, <2>11, ViewOf, Zenon
    <3>2. /\ Progress(Terminal, shown) /\ Terminal.at = "done"
      BY <2>11 DEF TextInv, Terminal
    <3>3. /\ shown.paper = Text(t) /\ shown.line = Line(t) /\ shown.col = t.column
          /\ shown.line \in Nat /\ shown.col \in Nat
      BY <2>3, <2>4, <3>2 DEF Progress
    <3>4. t.row < VGA_HEIGHT /\ t.column < VGA_WIDTH
      BY <1>0, <2>3, <3>2 DEF MainCursor
    <3>5. Stepped(dot, shown, shown'.paper, shown'.line, shown'.col)
      BY <2>2, <2>3, <2>6, <3>1, <3>3, <3>4
    <3>6. Sheet!PaperNext
      BY <2>2, <3>3, <3>5, SteppedNext
    <3>7. shown'.line \in Nat /\ shown'.col \in Nat
      BY <3>3, <3>5 DEF Stepped
    <3>8. Progress(Terminal', shown')
      BY <2>8, <2>9, <3>1, <3>2, <3>7 DEF Progress
    <3> QED BY <2>9, <3>6, <3>8 DEF TextInv
  <2> QED BY <2>10, <2>11
<1>5. CASE UNCHANGED vars
  <2>1. Terminal' = Terminal /\ shown' = shown /\ torn' = torn
    BY <1>5 DEF vars, Terminal
  <2> QED BY <2>1 DEF TextInv
<1> QED BY <1>1, <1>2, <1>3, <1>4, <1>5 DEF Next

(* The terminal implements the paper: wrapping, newlines and scrolling      *)
(* lose, repeat and alter nothing of what was printed, on every screen and  *)
(* for every text, as long as no dot comes in the middle of a character.    *)
THEOREM PaperRefined == Spec => ImplementsPaper
<1>1. Init => CursorInv /\ TextInv /\ Sheet!PaperInit
  BY CursorInit, TextInit
<1> QED BY <1>1, CursorStep, TextStep, PTL DEF Spec, ImplementsPaper, Sheet!PaperSpec
=============================================================================

------------------------------ MODULE Terminal ------------------------------
(***************************************************************************)
(* The VGA terminal (terminal.c): cursor, line wrap and scrolling.  Main   *)
(* thread and interrupt handler print through the same two static cursor   *)
(* variables; the main thread is cut between all statements that change    *)
(* them or write a character, the handler, which prints one dot, is one    *)
(* step.  The loop of scroll_terminal is one step: a dot inside it, as     *)
(* anywhere in a character, tears it, after which only the cursor is       *)
(* spoken of, and the loop does not touch that.  clear_terminal, which     *)
(* only panic calls, and nothing calls panic, is one step as well.         *)
(***************************************************************************)
EXTENDS Integers, Sequences

CONSTANTS
  VGA_WIDTH, VGA_HEIGHT,
  Chars,      \* what is printed, apart from the newline and the dot
  MaxChars,   \* bound: characters the main thread prints
  MaxDots     \* bound: dots the handler prints; none before the clock is on

ASSUME TerminalAssumption ==
  /\ VGA_WIDTH \in Nat \ {0} /\ VGA_HEIGHT \in Nat \ {0}
  /\ MaxChars \in Nat /\ MaxDots \in Nat

Columns == 0 .. VGA_WIDTH - 1
Cells   == 0 .. VGA_WIDTH * VGA_HEIGHT - 1

VARIABLES
  at, c,            \* main thread: next statement of terminal_put_char(c)
  vga_buffer,
  terminal_row, terminal_column,
  gone,             \* history: lines scrolled off the screen, oldest first
  outside,          \* history: cells past the screen that were written to
  torn,             \* history: a dot came in the middle of a character
  shown,            \* history: View after the last whole character, until torn
  printed, dots     \* characters and dots so far

vars == <<at, c, vga_buffer, terminal_row, terminal_column, gone, outside, torn,
          shown, printed, dots>>

(* The state of the terminal in the middle of a terminal_put_char(c).       *)
Terminal == [at |-> at, c |-> c, vga |-> vga_buffer, row |-> terminal_row,
             column |-> terminal_column, gone |-> gone, outside |-> outside]

Row(vga, y) == [x \in Columns |-> vga[y * VGA_WIDTH + x]]

put_char(t) ==
  LET cell == t.row * VGA_WIDTH + t.column
  IN  IF cell \in Cells THEN [t EXCEPT !.vga[cell] = t.c, !.at = "column"]
                        ELSE [t EXCEPT !.outside = @ \cup {cell}, !.at = "column"]

(* Mutant: the last line keeps its text.                                    *)
scroll_terminal_NoBlank(t) ==
  [t EXCEPT !.gone = Append(@, Row(t.vga, 0)),
            !.vga = [i \in Cells |-> IF i + VGA_WIDTH \in Cells THEN @[i + VGA_WIDTH] ELSE @[i]]]

scroll_terminal(t) ==
  [t EXCEPT !.gone = Append(@, Row(t.vga, 0)),
            !.vga = [i \in Cells |-> IF i + VGA_WIDTH \in Cells THEN @[i + VGA_WIDTH] ELSE " "]]

(* Mutant: wraps one column late.                                           *)
Wraps_Late(t) == t.column > VGA_WIDTH

(* Mutant: wraps at the end of the line only, not past it.                  *)
Wraps_Equal(t) == t.column = VGA_WIDTH

Wraps(t) == t.column >= VGA_WIDTH

(* The statements of terminal_put_char and terminal_put_cursor.             *)
line_start(t)  == [t EXCEPT !.column = 0, !.at = "row"]
next_column(t) == [t EXCEPT !.column = @ + 1, !.at = "wrap"]
next_row(t)    == [t EXCEPT !.row = @ + 1, !.at = "scroll"]
no_wrap(t)     == [t EXCEPT !.at = "scroll"]
scroll(t)      == [scroll_terminal(t) EXCEPT !.at = "last_row"]
last_row(t)    == [t EXCEPT !.row = VGA_HEIGHT - 1, !.at = "done"]
no_scroll(t)   == [t EXCEPT !.at = "done"]

(* One of them.                                                             *)
Statement(t) ==
  CASE t.at = "newline" -> line_start(t)
    [] t.at = "put"     -> put_char(t)
    [] t.at = "column"  -> next_column(t)
    [] t.at = "wrap"    -> IF Wraps(t) THEN line_start(t) ELSE no_wrap(t)
    [] t.at = "row"     -> next_row(t)
    [] t.at = "scroll"  -> IF t.row >= VGA_HEIGHT THEN scroll(t) ELSE no_scroll(t)
    [] t.at = "last_row" -> last_row(t)
    [] t.at = "done"    -> t

Start(char) == IF char = "\n" THEN "newline" ELSE "put"

(* The statements of a whole terminal_put_char of a printing character.     *)
Wrapped(t)  == IF Wraps(t) THEN next_row(line_start(t)) ELSE no_wrap(t)
Scrolled(t) == IF t.row >= VGA_HEIGHT THEN last_row(scroll(t)) ELSE no_scroll(t)

PutWhole(t) ==
  LET put     == next_column(put_char(t))
      wrapped == Wrapped(put)
  IN  Scrolled(wrapped)

(* Everything printed: the lines scrolled off and the ones on the screen.   *)
View(t) == [paper |-> t.gone \o [y \in 1 .. VGA_HEIGHT |-> Row(t.vga, y - 1)],
            line |-> Len(t.gone) + t.row + 1, col |-> t.column]

Becomes(t) ==
  /\ vga_buffer' = t.vga /\ terminal_row' = t.row /\ terminal_column' = t.column
  /\ gone' = t.gone /\ outside' = t.outside
  /\ shown' = IF t.at = "done" /\ ~ torn' THEN View(t) ELSE shown

(* What was on the screen before is still there: nobody clears it.          *)
Init ==
  /\ at = "done" /\ c = " "
  /\ vga_buffer = [i \in Cells |-> "old"]
  /\ terminal_row = 0 /\ terminal_column = 0
  /\ gone = <<>> /\ outside = {} /\ torn = FALSE /\ shown = View(Terminal)
  /\ printed = 0 /\ dots = 0

(* write_string goes on to its next character.                              *)
terminal_put_char ==
  /\ at = "done" /\ printed < MaxChars
  /\ c' \in Chars \cup {"\n"}
  /\ at' = Start(c') /\ printed' = printed + 1
  /\ UNCHANGED <<vga_buffer, terminal_row, terminal_column, gone, outside, torn, shown, dots>>

statement ==
  /\ at # "done"
  /\ UNCHANGED <<c, torn, printed, dots>>
  /\ LET t == Statement(Terminal) IN at' = t.at /\ Becomes(t)

(* clear_terminal, which panic calls, put_char cell by cell.                *)
clear_terminal ==
  /\ at = "done" /\ torn' = FALSE
  /\ Becomes([Terminal EXCEPT !.vga = [i \in Cells |-> " "], !.row = 0, !.column = 0,
                               !.gone = <<>>])
  /\ UNCHANGED <<at, c, printed, dots>>

(* Once a second rtc_interrupt_handler prints a dot.                        *)
rtc_interrupt_handler ==
  /\ dots < MaxDots /\ dots' = dots + 1 /\ torn' = (torn \/ at # "done")
  /\ Becomes(PutWhole([Terminal EXCEPT !.c = "."]))
  /\ UNCHANGED <<at, c, printed>>

Next == terminal_put_char \/ statement \/ clear_terminal \/ rtc_interrupt_handler

Spec == Init /\ [][Next]_vars

-----------------------------------------------------------------------------
(* Whenever write_string is between two characters the cursor is on the     *)
(* screen, even if the handler has moved it in the middle of the last one.  *)
CursorRecovers ==
  at = "done" => terminal_row < VGA_HEIGHT /\ terminal_column < VGA_WIDTH

Strays ==
  \A cell \in outside' \ outside :
    /\ ~ statement
    /\ VGA_WIDTH * VGA_HEIGHT <= cell /\ cell < VGA_WIDTH * (VGA_HEIGHT + 1)

(* The main thread writes to the screen and nowhere else, wherever dots     *)
(* have moved the cursor in the middle of its characters.  A dot that the   *)
(* handler writes past the screen, because it came between the step to a    *)
(* new line and the scrolling, hits the line that follows it: video memory, *)
(* never anything beyond.                                                   *)
OnScreen == [][Strays]_vars

Sheet == INSTANCE Paper WITH
  Width <- VGA_WIDTH, Height <- VGA_HEIGHT, Chars <- Chars \cup {"."},
  paper <- shown.paper, line <- shown.line, col <- shown.col

(* The screen is the end of a paper on which the text appears line by line: *)
(* wrapping, newlines and scrolling lose, repeat and alter nothing, as long *)
(* as the handler's dots come between two characters.                       *)
ImplementsPaper == Sheet!PaperSpec
=============================================================================

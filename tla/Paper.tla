------------------------------- MODULE Paper --------------------------------
(* What a scrolling terminal promises: text is written line by line on      *)
(* paper that never ends, and nothing written is ever changed by what       *)
(* follows.  The screen is the last Height lines of it.                     *)
EXTENDS Naturals, Sequences

CONSTANTS Chars, Width, Height

VARIABLES paper,     \* the lines, each a function from columns to characters
          line, col  \* where the next character goes; columns count from 0

paperVars == <<paper, line, col>>

BlankLine == [x \in 0 .. Width - 1 |-> " "]

PaperInit ==
  /\ paper \in [1 .. Height -> [0 .. Width - 1 -> {" ", "old"}]]
  /\ line = 1 /\ col = 0

(* The cursor goes to the beginning of the next line, fed if need be.       *)
Feed(text) ==
  /\ line' = line + 1 /\ col' = 0
  /\ paper' = IF line < Len(text) THEN text ELSE Append(text, BlankLine)

NewLine == Feed(paper)

Write(c) ==
  LET text == [paper EXCEPT ![line][col] = c]
  IN  IF col + 1 < Width
      THEN paper' = text /\ col' = col + 1 /\ UNCHANGED line
      ELSE Feed(text)

NewSheet ==
  /\ paper' = [y \in 1 .. Height |-> BlankLine]
  /\ line' = 1 /\ col' = 0

PaperNext == NewLine \/ NewSheet \/ \E c \in Chars : Write(c)

PaperSpec == PaperInit /\ [][PaperNext]_paperVars
=============================================================================

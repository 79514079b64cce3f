-------------------------------- MODULE Text --------------------------------
(* Text made of numbers and formats, one call with any argument: put_i32,   *)
(* put_u32, put_u64 and put_hex of terminal.c, each in one step, and        *)
(* simple_format_string of logger.c, which puts a message together from a   *)
(* format and its arguments in a buffer of buffer_size characters, one step *)
(* per turn of its loops.                                                   *)
EXTENDS Numbers

CONSTANTS
  buffer_size,   \* MAX_LOG_MESSAGE_LENGTH, 256 in the code
  Formats,       \* the formats passed in
  Strings,       \* arguments for %s; a null pointer is the empty string
  SomeInts,      \* arguments for %d
  SomeUInts      \* arguments for %x

ASSUME TextAssumption ==
  /\ buffer_size \in Nat \ {0} /\ SomeInts \subseteq Ints /\ SomeUInts \subseteq UInts
  /\ Formats \subseteq Seq(Int) /\ Strings \subseteq Seq(Int)

VARIABLES
  call, arg,     \* the function called, "none" before; a number it was given
  format, src,   \* the format and the next position in it
  mode,          \* "scan" the format, "copy" an argument, "hex" likewise, "done"
  rest,          \* characters of the argument still to be copied
  text,          \* the characters written; in a buffer, dst behind them
  taken          \* history: the arguments fetched, as text

formatVars == <<format, src, mode, rest, taken>>
textVars == <<call, arg, text, formatVars>>

PERCENT == 37
CHAR_S == 115
CHAR_D == 100
CHAR_X == 120

(* char buffer[11]: ten digits and the terminating zero.                    *)
UINT_BUFFER == DIGITS + 1

(* char buffer[12] has room for a sign, too.                                *)
INT_BUFFER == DIGITS + 2

TextInit ==
  /\ call = "none" /\ arg = 0 /\ text = <<>>
  /\ format = <<>> /\ src = 1 /\ mode = "done" /\ rest = <<>> /\ taken = <<>>

-----------------------------------------------------------------------------
(* The numbers of terminal.c.                                               *)

Called(f, num, out) ==
  /\ call' = f /\ arg' = num /\ text' = out
  /\ UNCHANGED formatVars

put_i32(num) == Called("put_i32", num, int_to_string(num))

put_u32(num) == Called("put_u32", num, uint_to_string(num))

PutU64(num) ==
  LET upper == num \div WORD
      lower == num % WORD
  IN  IF upper = 0 THEN uint_to_string(lower)
      ELSE uint_to_string(upper) \o [i \in 1 .. Padding(lower) |-> ZERO] \o uint_to_string(lower)

put_u64(num) == Called("put_u64", num, PutU64(num))

put_hex(num) == Called("put_hex", num, <<ZERO, 120>> \o Reverse(HexDigits(num, BITS \div 4, 65)))

-----------------------------------------------------------------------------
(* The messages of logger.c.                                                *)

simple_format_string ==
  /\ call' = "format" /\ format' \in Formats /\ mode' = "scan"
  /\ UNCHANGED <<arg, src, rest, text, taken>>

(* Mutant: the last character of the buffer is used, too.                   *)
Room_OffByOne == Len(text) < buffer_size

Room == Len(text) < buffer_size - 1

Scanning  == mode = "scan" /\ src <= Len(format) /\ Room
Directive == format[src] = PERCENT /\ src < Len(format)

literal ==
  /\ Scanning /\ ~ Directive
  /\ text' = Append(text, format[src]) /\ src' = src + 1
  /\ UNCHANGED <<call, arg, format, mode, rest, taken>>

(* va_arg; out is the argument as text.                                     *)
Fetch(out, how) ==
  /\ rest' = out /\ taken' = Append(taken, out)
  /\ mode' = how /\ src' = src + 2
  /\ UNCHANGED <<call, arg, format, text>>

case_s ==
  /\ Scanning /\ Directive /\ format[src + 1] = CHAR_S
  /\ \E string \in Strings : Fetch(string, "copy")

case_d ==
  /\ Scanning /\ Directive /\ format[src + 1] = CHAR_D
  /\ \E num \in SomeInts : Fetch(int_to_string(num), "copy")

HexLength(num) ==
  CHOOSE n \in 1 .. BITS \div 4 : num < Power(16, n) /\ \A m \in 1 .. n - 1 : num >= Power(16, m)

case_x ==
  /\ Scanning /\ Directive /\ format[src + 1] = CHAR_X
  /\ \E num \in SomeUInts : Fetch(Reverse(HexDigits(num, HexLength(num), 97)), "hex")

(* Mutant: the percent sign is kept.                                        *)
case_default_Keeps ==
  /\ Scanning /\ Directive /\ format[src + 1] \notin {CHAR_S, CHAR_D, CHAR_X}
  /\ text' = Append(text, format[src]) /\ src' = src + 1
  /\ UNCHANGED <<call, arg, format, mode, rest, taken>>

case_default ==
  /\ Scanning /\ Directive /\ format[src + 1] \notin {CHAR_S, CHAR_D, CHAR_X}
  /\ text' = Append(text, format[src + 1]) /\ src' = src + 2
  /\ UNCHANGED <<call, arg, format, mode, rest, taken>>

(* The loops of %s and %d end with the argument or with the buffer.         *)
copy ==
  /\ mode = "copy" /\ rest # <<>> /\ Room
  /\ text' = Append(text, Head(rest)) /\ rest' = Tail(rest)
  /\ UNCHANGED <<call, arg, format, src, mode, taken>>

copy_end ==
  /\ mode = "copy" /\ (rest = <<>> \/ ~ Room)
  /\ mode' = "scan" /\ rest' = <<>>
  /\ UNCHANGED <<call, arg, format, src, text, taken>>

(* That of %x goes through all digits and stores those that fit.            *)
hex_digit ==
  /\ mode = "hex" /\ rest # <<>> /\ rest' = Tail(rest)
  /\ text' = IF Room THEN Append(text, Head(rest)) ELSE text
  /\ UNCHANGED <<call, arg, format, src, mode, taken>>

hex_end ==
  /\ mode = "hex" /\ rest = <<>> /\ mode' = "scan"
  /\ UNCHANGED <<call, arg, format, src, rest, text, taken>>

(* *dst = '\0'.                                                             *)
terminate ==
  /\ mode = "scan" /\ ~ Scanning /\ mode' = "done"
  /\ UNCHANGED <<call, arg, format, src, rest, text, taken>>

TextNext ==
  \/ /\ call = "none"
     /\ \/ \E num \in Ints : put_i32(num)
        \/ \E num \in UInts : put_u32(num) \/ put_hex(num)
        \/ \E num \in 0 .. WORD * WORD - 1 : put_u64(num)
        \/ simple_format_string
  \/ literal \/ case_s \/ case_d \/ case_x \/ case_default
  \/ copy \/ copy_end \/ hex_digit \/ hex_end \/ terminate

TextSpec == TextInit /\ [][TextNext]_textVars

-----------------------------------------------------------------------------
(* A word is written as the numeral a reader takes for it: signed words but *)
(* the smallest, which has no positive counterpart, unsigned words, and     *)
(* hexadecimal words with all their digits.                                 *)
NumeralsRight ==
  /\ call = "put_i32" /\ arg # INT_MIN => Reads(text, arg)
  /\ call = "put_u32" => Reads(text, arg)
  /\ call = "put_hex" => Value(SubSeq(text, 3, Len(text)), 16) = arg

(* put_u64 writes its halves one after the other, which is not the number   *)
(* when the upper half is in use; but a larger number always reads larger,  *)
(* so no two numbers are written alike.                                     *)
LargerReadsLarger ==
  call = "put_u64" /\ arg < WORD * WORD - 1 => Value(text, 10) < Value(PutU64(arg + 1), 10)

(* Reference: the format f with the arguments a put in; from[n] is what its *)
(* last n characters make of the arguments left for them.                   *)
Expansion(f, a) ==
  LET from[n \in 0 .. Len(f)] ==
        [left \in Seq(Seq(Int)) |->
           LET c == f[Len(f) + 1 - n]
               d == f[Len(f) + 2 - n]
           IN  IF n = 0 THEN <<>>
               ELSE IF c # PERCENT \/ n = 1 THEN <<c>> \o from[n - 1][left]
               ELSE IF d \notin {CHAR_S, CHAR_D, CHAR_X} THEN <<d>> \o from[n - 2][left]
               ELSE IF left = <<>> THEN <<-1>>   \* never fetched: the cut must come before
               ELSE Head(left) \o from[n - 2][Tail(left)]]
  IN  from[Len(f)][a]

(* A text and its terminating zero stay inside the buffer it is built in:   *)
(* that of a number, even of INT_MIN, and that of a message, wherever in a  *)
(* directive or an argument the room ends.                                  *)
FitsBuffer ==
  /\ call = "put_i32" => Len(text) + 1 <= INT_BUFFER
  /\ call = "put_u32" => Len(text) + 1 <= UINT_BUFFER
  /\ call = "format" => Len(text) + 1 <= buffer_size

(* The message is the expansion of its format, cut where the buffer ends    *)
(* and nowhere else.                                                        *)
CutExpansion ==
  call = "format" /\ mode = "done" =>
    LET all == Expansion(format, taken)
    IN  text = IF Len(all) < buffer_size THEN all ELSE SubSeq(all, 1, buffer_size - 1)
=============================================================================

------------------------------ MODULE Numbers -------------------------------
(* Numbers to text as terminal.c writes them, for words of BITS bits.  A    *)
(* character is its code, a string the sequence of its characters without   *)
(* the terminating zero.                                                    *)
EXTENDS Integers, Sequences

CONSTANT BITS    \* 32 in the code

ASSUME NumbersAssumption == BITS \in Nat /\ BITS > 0 /\ BITS % 4 = 0

Power(b, n) ==
  LET power[k \in Nat] == IF k = 0 THEN 1 ELSE b * power[k - 1]
  IN  power[n]

WORD    == Power(2, BITS)
UInts   == 0 .. WORD - 1
INT_MIN == -Power(2, BITS - 1)
Ints    == INT_MIN .. Power(2, BITS - 1) - 1

ZERO  == 48   \* '0'
MINUS == 45   \* '-'

(* Decimal digits of the largest word: 10 for 32 bits.                      *)
DIGITS == CHOOSE d \in 1 .. BITS : Power(10, d - 1) <= WORD - 1 /\ WORD - 1 < Power(10, d)

-----------------------------------------------------------------------------
(* C divides towards zero; the remainder has the sign of the dividend.      *)
Quotient(n)  == IF n >= 0 THEN n \div 10 ELSE -((-n) \div 10)
Remainder(n) == n - 10 * Quotient(n)

(* -num of the smallest number is that number again.                        *)
Negate(n) == IF n = INT_MIN THEN n ELSE -n

(* The digits from the last to the first.                                   *)
Digits[n \in Int] == IF n = 0 THEN <<>> ELSE <<Remainder(n) + ZERO>> \o Digits[Quotient(n)]

(* The buffer turned round in place.                                        *)
Reverse(s) == [k \in 1 .. Len(s) |-> s[Len(s) + 1 - k]]

(* Mutant: the sign is written before the digits are turned round.          *)
int_to_string_SignFirst(num) ==
  IF num = 0 THEN <<ZERO>>
  ELSE IF num < 0 THEN Reverse(<<MINUS>> \o Digits[Negate(num)])
                  ELSE Reverse(Digits[num])

int_to_string(num) ==
  IF num = 0 THEN <<ZERO>>
  ELSE IF num < 0 THEN Reverse(Digits[Negate(num)] \o <<MINUS>>)
                  ELSE Reverse(Digits[num])

uint_to_string(num) == IF num = 0 THEN <<ZERO>> ELSE Reverse(Digits[num])

(* Nibbles as characters, from the last to the first; letter is 'A' or 'a'. *)
HexChar(d, letter) == IF d < 10 THEN ZERO + d ELSE letter + d - 10
HexDigits(num, n, letter) == [i \in 1 .. n |-> HexChar((num \div Power(16, i - 1)) % 16, letter)]

(* How many digits a number has, from the powers of ten above it.           *)
Width(num) ==
  CHOOSE k \in 1 .. DIGITS : num < Power(10, k) /\ \A j \in 1 .. k - 1 : num >= Power(10, j)

(* Mutant: one zero too few in front of a short lower half.                 *)
Padding_Short(lower) == IF Width(lower) = DIGITS THEN 0 ELSE DIGITS - 1 - Width(lower)

(* The zeros put_u64 writes in front of its lower half.                     *)
Padding(lower) == DIGITS - Width(lower)

-----------------------------------------------------------------------------
(* Reference: how a reader takes a text for a number.                       *)
Digit(c) == IF c >= 65 THEN c - 55 ELSE c - ZERO

Value(text, base) ==
  LET value[n \in 0 .. Len(text)] ==
        IF n = 0 THEN 0 ELSE value[n - 1] * base + Digit(text[n])
  IN  value[Len(text)]

IsNumeral(text) ==
  /\ text # <<>> /\ \A i \in DOMAIN text : text[i] \in ZERO .. ZERO + 9
  /\ text[1] = ZERO => Len(text) = 1

Reads(text, num) ==
  IF num < 0 THEN Head(text) = MINUS /\ IsNumeral(Tail(text)) /\ -Value(Tail(text), 10) = num
             ELSE IsNumeral(text) /\ Value(text, 10) = num
=============================================================================

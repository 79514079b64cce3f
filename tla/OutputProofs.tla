---------------------------- MODULE OutputProofs ----------------------------
(***************************************************************************)
(* Proofs for modules Serial and Logger, the two places a message passes   *)
(* on its way out of the kernel: the line of the serial port carries the   *)
(* text, for any texts, any interrupts the firmware left enabled and any   *)
(* FIFO of two characters or more; and the logger's ring is the queue it   *)
(* is meant to be, for any size.                                           *)
(***************************************************************************)
EXTENDS Serial, Logger, WellFoundedInduction, SequenceTheorems, TLAPS

-----------------------------------------------------------------------------
(* Induction and recursion over the natural numbers, from the fact that     *)
(* their order is well-founded.                                             *)

(* A set of natural numbers that is not empty has a least element.          *)
LEMMA Least ==
  ASSUME NEW T \in SUBSET Nat, T # {}
  PROVE  \E x \in T : \A y \in T : x <= y
<1> DEFINE R == OpToRel(<, Nat)
<1>1. \A x, y \in Nat : x < y => <<x, y>> \in R
  BY DEF OpToRel
<1>2. IsWellFoundedOn(R, Nat)
  BY NatLessThanWellFounded, Zenon
<1> HIDE DEF R
<1>3. PICK x \in T : \A y \in T : ~ (<<y, x>> \in R)
  BY <1>2, WFMin, Zenon
<1>4. \A y \in T : ~ (y < x)
  BY <1>1, <1>3, Zenon
<1> QED
  BY <1>4

(* Induction, for a set.                                                    *)
LEMMA SetInduction ==
  ASSUME NEW S, 0 \in S, \A n \in Nat : n \in S => n + 1 \in S
  PROVE  Nat \subseteq S
<1> SUFFICES ASSUME ~ (Nat \subseteq S) PROVE FALSE
  OBVIOUS
<1>1. PICK x \in Nat \ S : \A y \in Nat \ S : x <= y
  BY Least, Zenon
<1>2. x - 1 \in Nat /\ x - 1 \in S
  BY <1>1
<1> QED
  BY <1>2

(* A function can be defined by recursion over 0 .. N, when the step is     *)
(* given as a function.                                                     *)
Steps(S, N) == [1 .. N -> [S -> S]]

(* What a function defined so satisfies.                                    *)
Solution(f, S, N, base, step) ==
  f \in [0 .. N -> S] /\ f[0] = base /\ \A n \in 1 .. N : f[n] = step[n][f[n - 1]]

(* There is one.                                                            *)
LEMMA FiniteRecursion ==
  ASSUME NEW S, NEW N \in Nat, NEW base \in S, NEW step \in Steps(S, N)
  PROVE  \E f : Solution(f, S, N, base, step)
<1> DEFINE T == {k \in Nat : k <= N => \E f : Solution(f, S, k, base, step)}
<1>1. 0 \in T
  <2> DEFINE f == [n \in 0 .. 0 |-> base]
  <2>1. Solution(f, S, 0, base, step)
    BY DEF Solution
  <2> HIDE DEF f
  <2> QED
    BY <2>1
<1>2. ASSUME NEW k \in Nat, k \in T PROVE k + 1 \in T
  <2> SUFFICES ASSUME k + 1 <= N PROVE \E f : Solution(f, S, k + 1, base, step)
    BY <1>2
  <2>1. PICK f : Solution(f, S, k, base, step)
    BY <1>2
  <2> DEFINE g == [n \in 0 .. k + 1 |-> IF n = k + 1 THEN step[k + 1][f[k]] ELSE f[n]]
  <2>2. step[k + 1][f[k]] \in S
    BY <2>1 DEF Solution, Steps
  <2>3. Solution(g, S, k + 1, base, step)
    BY <2>1, <2>2 DEF Solution
  <2> HIDE DEF g
  <2> QED
    BY <2>3
<1> HIDE DEF T
<1>3. N \in T
  BY <1>1, <1>2, SetInduction
<1> QED
  BY <1>3 DEF T

(* Whatever follows the recursion has its values where the steps lead.      *)
Follows(g, S, N, base, step) ==
  g[0] = base /\ \A n \in 1 .. N : g[n - 1] \in S => g[n] = step[n][g[n - 1]]

(* So its values are of the right type.                                     *)
LEMMA RecursionTyped ==
  ASSUME NEW S, NEW N \in Nat, NEW base \in S, NEW step \in Steps(S, N),
         NEW g, Follows(g, S, N, base, step)
  PROVE  \A n \in 0 .. N : g[n] \in S
<1> DEFINE T == {n \in Nat : n <= N => g[n] \in S}
<1>1. 0 \in T
  BY DEF Follows
<1>2. ASSUME NEW n \in Nat, n \in T PROVE n + 1 \in T
  <2> SUFFICES ASSUME n + 1 <= N PROVE g[n + 1] \in S
    OBVIOUS
  <2>1. g[n] \in S /\ n + 1 \in 1 .. N /\ (n + 1) - 1 = n
    BY <1>2
  <2>2. g[n + 1] = step[n + 1][g[n]]
    BY <2>1 DEF Follows
  <2> QED
    BY <2>1, <2>2 DEF Steps
<1> HIDE DEF T
<1>3. Nat \subseteq T
  BY <1>1, <1>2, SetInduction
<1> QED
  BY <1>3 DEF T

-----------------------------------------------------------------------------
(* The two functions of sequences.                                          *)

(* The functions inside NoDots and OnLine.                                  *)
Kept(s, dot) ==
  LET kept[n \in 0 .. Len(s)] ==
        IF n = 0 THEN <<>>
        ELSE IF s[n] = dot THEN kept[n - 1] ELSE Append(kept[n - 1], s[n])
  IN  kept

(* As above, with the two characters that stand for a newline as a          *)
(* parameter.                                                               *)
Sent(s, newline, both) ==
  LET sent[k \in 0 .. Len(s)] ==
        IF k = 0 THEN <<>>
        ELSE sent[k - 1] \o IF s[k] = newline THEN both ELSE <<s[k]>>
  IN  sent

(* NoDots satisfies its equations, ...                                      *)
LEMMA KeptEquations ==
  ASSUME NEW C, NEW dot, NEW s \in Seq(C)
  PROVE  /\ Kept(s, dot)[0] = <<>>
         /\ \A n \in 1 .. Len(s) :
              Kept(s, dot)[n] = IF s[n] = dot THEN Kept(s, dot)[n - 1] ELSE Append(Kept(s, dot)[n - 1], s[n])
         /\ \A n \in 0 .. Len(s) : Kept(s, dot)[n] \in Seq(C)
<1> DEFINE nil == <<>>
           N == Len(s)
           S == Seq(C)
           Step(n, t) == IF s[n] = dot THEN t ELSE Append(t, s[n])
           step == [n \in 1 .. N |-> [t \in S |-> Step(n, t)]]
           Solves(f) == f = [n \in 0 .. N |-> IF n = 0 THEN nil ELSE Step(n, f[n - 1])]
<1>1. nil \in S /\ N \in Nat /\ \A n \in 1 .. N : \A t \in S : Step(n, t) \in S
  OBVIOUS
<1>2. Kept(s, dot) = CHOOSE g : Solves(g)
  BY DEF Kept
<1> SUFFICES /\ Kept(s, dot)[0] = nil
             /\ \A n \in 1 .. N : Kept(s, dot)[n] = Step(n, Kept(s, dot)[n - 1])
             /\ \A n \in 0 .. N : Kept(s, dot)[n] \in S
  OBVIOUS
<1> HIDE DEF Step, nil, N, S
<1>3. step \in Steps(S, N)
  BY <1>1 DEF Steps
<1>4. PICK f : Solution(f, S, N, nil, step)
  <2> HIDE DEF step
  <2> QED
    BY <1>1, <1>3, FiniteRecursion
<1>5. Solves(f)
  <2>1. ASSUME NEW n \in 1 .. N PROVE f[n] = Step(n, f[n - 1])
    <3>1. f[n - 1] \in S /\ f[n] = step[n][f[n - 1]]
      BY <1>1, <1>4 DEF Solution
    <3> QED
      BY <3>1
  <2> QED
    BY <1>1, <1>4, <2>1 DEF Solution
<1>6. Solves(Kept(s, dot))
  BY <1>2, <1>5, Zenon
<1> HIDE DEF Kept
<1>7. Kept(s, dot)[0] = nil /\ \A n \in 1 .. N : Kept(s, dot)[n] = Step(n, Kept(s, dot)[n - 1])
  BY <1>1, <1>6
<1>8. Follows(Kept(s, dot), S, N, nil, step)
  BY <1>1, <1>7 DEF Follows
<1>9. \A n \in 0 .. N : Kept(s, dot)[n] \in S
  <2> HIDE DEF step
  <2> QED
    BY <1>1, <1>3, <1>8, RecursionTyped
<1> QED
  BY <1>7, <1>9

(* ... and so does OnLine.                                                  *)
LEMMA SentEquations ==
  ASSUME NEW C, NEW newline, NEW both \in Seq(C), NEW s \in Seq(C)
  PROVE  /\ Sent(s, newline, both)[0] = <<>>
         /\ \A n \in 1 .. Len(s) :
              Sent(s, newline, both)[n] = Sent(s, newline, both)[n - 1] \o IF s[n] = newline THEN both ELSE <<s[n]>>
         /\ \A n \in 0 .. Len(s) : Sent(s, newline, both)[n] \in Seq(C)
<1> DEFINE nil == <<>>
           N == Len(s)
           S == Seq(C)
           Step(n, t) == t \o IF s[n] = newline THEN both ELSE <<s[n]>>
           step == [n \in 1 .. N |-> [t \in S |-> Step(n, t)]]
           Solves(f) == f = [n \in 0 .. N |-> IF n = 0 THEN nil ELSE Step(n, f[n - 1])]
<1>1. nil \in S /\ N \in Nat /\ \A n \in 1 .. N : \A t \in S : Step(n, t) \in S
  OBVIOUS
<1>2. Sent(s, newline, both) = CHOOSE g : Solves(g)
  BY DEF Sent
<1> SUFFICES /\ Sent(s, newline, both)[0] = nil
             /\ \A n \in 1 .. N : Sent(s, newline, both)[n] = Step(n, Sent(s, newline, both)[n - 1])
             /\ \A n \in 0 .. N : Sent(s, newline, both)[n] \in S
  BY Zenon
<1> HIDE DEF Step, nil, N, S
<1>3. step \in Steps(S, N)
  BY <1>1 DEF Steps
<1>4. PICK f : Solution(f, S, N, nil, step)
  <2> HIDE DEF step
  <2> QED
    BY <1>1, <1>3, FiniteRecursion
<1>5. Solves(f)
  <2>1. ASSUME NEW n \in 1 .. N PROVE f[n] = Step(n, f[n - 1])
    <3>1. f[n - 1] \in S /\ f[n] = step[n][f[n - 1]]
      BY <1>1, <1>4 DEF Solution
    <3> QED
      BY <3>1
  <2> QED
    BY <1>1, <1>4, <2>1 DEF Solution
<1>6. Solves(Sent(s, newline, both))
  BY <1>2, <1>5, Zenon
<1> HIDE DEF Sent
<1>7. Sent(s, newline, both)[0] = nil /\ \A n \in 1 .. N : Sent(s, newline, both)[n] = Step(n, Sent(s, newline, both)[n - 1])
  BY <1>1, <1>6
<1>8. Follows(Sent(s, newline, both), S, N, nil, step)
  BY <1>1, <1>7 DEF Follows
<1>9. \A n \in 0 .. N : Sent(s, newline, both)[n] \in S
  <2> HIDE DEF step
  <2> QED
    BY <1>1, <1>3, <1>8, RecursionTyped
<1> QED
  BY <1>7, <1>9

(* A character put behind a sequence is kept unless it is a dot.            *)
LEMMA KeptAppend ==
  ASSUME NEW C, NEW dot, NEW s \in Seq(C), NEW x \in C
  PROVE  \A n \in 0 .. Len(s) : Kept(Append(s, x), dot)[n] = Kept(s, dot)[n]
<1> DEFINE t == Append(s, x)
           T == {n \in Nat : n <= Len(s) => Kept(t, dot)[n] = Kept(s, dot)[n]}
<1>1. t \in Seq(C) /\ Len(t) = Len(s) + 1 /\ \A n \in 1 .. Len(s) : t[n] = s[n]
  OBVIOUS
<1> HIDE DEF t
<1>2. 0 \in T
  BY <1>1, KeptEquations
<1>3. ASSUME NEW n \in Nat, n \in T PROVE n + 1 \in T
  <2> SUFFICES ASSUME n + 1 <= Len(s) PROVE Kept(t, dot)[n + 1] = Kept(s, dot)[n + 1]
    OBVIOUS
  <2>1. n + 1 \in 1 .. Len(s) /\ n + 1 \in 1 .. Len(t) /\ (n + 1) - 1 = n
    BY <1>1
  <2>2. Kept(t, dot)[n] = Kept(s, dot)[n] /\ t[n + 1] = s[n + 1]
    BY <1>1, <1>3, <2>1
  <2>3. \A u \in {s, t} : Kept(u, dot)[n + 1] = IF u[n + 1] = dot THEN Kept(u, dot)[n]
                                              ELSE Append(Kept(u, dot)[n], u[n + 1])
    BY <1>1, <2>1, KeptEquations
  <2> QED
    BY <2>2, <2>3
<1> HIDE DEF T
<1>4. Nat \subseteq T
  BY <1>2, <1>3, SetInduction
<1> QED
  BY <1>4 DEF T, t

(* NoDots is the last value of the function inside it.                      *)
LEMMA NoDotsKept == \A s : NoDots(s) = Kept(s, DOT)[Len(s)]
BY DEF NoDots, Kept

(* Nothing is left of nothing.                                              *)
LEMMA NoDotsEmpty == NoDots(<<>>) = <<>>
<1> DEFINE nil == <<>>
<1>1. nil \in Seq(Char) /\ Len(nil) = 0
  OBVIOUS
<1> HIDE DEF nil
<1>2. \A s \in Seq(Char) : Kept(s, DOT)[0] = <<>>
  BY KeptEquations
<1>3. NoDots(nil) = Kept(nil, DOT)[0]
  BY <1>1, NoDotsKept
<1> QED
  BY <1>1, <1>2, <1>3, Zenon DEF nil

(* Of one more character on its way, a dot is left out and any other one    *)
(* comes last.                                                              *)
LEMMA NoDotsAppend ==
  ASSUME NEW C, NEW s \in Seq(C), NEW x \in C
  PROVE  /\ NoDots(s) \in Seq(C)
         /\ NoDots(Append(s, x)) = IF x = DOT THEN NoDots(s) ELSE Append(NoDots(s), x)
<1> DEFINE t == Append(s, x)
<1>1. t \in Seq(C) /\ Len(t) = Len(s) + 1 /\ t[Len(s) + 1] = x
  OBVIOUS
<1>2. Kept(t, DOT)[Len(s)] = Kept(s, DOT)[Len(s)]
  BY KeptAppend
<1>3. Kept(s, DOT)[Len(s)] \in Seq(C)
  BY KeptEquations
<1> HIDE DEF t
<1>4. Kept(t, DOT)[Len(s) + 1] = IF x = DOT THEN Kept(t, DOT)[Len(s)]
                                 ELSE Append(Kept(t, DOT)[Len(s)], x)
  <2>1. Len(s) + 1 \in 1 .. Len(t) /\ (Len(s) + 1) - 1 = Len(s)
    BY <1>1
  <2> QED
    BY <1>1, <2>1, KeptEquations
<1> QED
  BY <1>1, <1>2, <1>3, <1>4, NoDotsKept, Zenon DEF t

(* One more character of a text on the line.                                *)
LEMMA OnLineStep ==
  ASSUME NEW s \in Seq(Char)
  PROVE  /\ OnLine(s, 0) = <<>>
         /\ \A n \in 1 .. Len(s) :
              OnLine(s, n) = OnLine(s, n - 1) \o IF s[n] = NEWLINE THEN <<RETURN, NEWLINE>> ELSE <<s[n]>>
         /\ \A n \in 0 .. Len(s) : OnLine(s, n) \in Seq(Char)
<1> DEFINE both == <<RETURN, NEWLINE>>
<1>1. \A n : OnLine(s, n) = Sent(s, NEWLINE, both)[n]
  BY DEF OnLine, Sent
<1>2. both \in Seq(Char)
  BY SerialAssumption
<1> HIDE DEF both
<1>3. /\ Sent(s, NEWLINE, both)[0] = <<>>
      /\ \A n \in 1 .. Len(s) : Sent(s, NEWLINE, both)[n] =
           Sent(s, NEWLINE, both)[n - 1] \o IF s[n] = NEWLINE THEN both ELSE <<s[n]>>
      /\ \A n \in 0 .. Len(s) : Sent(s, NEWLINE, both)[n] \in Seq(Char)
  BY <1>2, SentEquations, Zenon
<1> QED
  BY <1>1, <1>3, Zenon DEF both

-----------------------------------------------------------------------------
(* What the transmitter may be given.                                       *)
Codes == Char \cup {DOT, TestByte}

(* What is on the way while the loopback test may be under way.             *)
Tested == {<<>>, <<TestByte>>}

(* The registers after the bytes of init_serial before the one at index.    *)
SetUp ==
  /\ index \in 1 .. 10
  /\ index >= 2 => ier = {}
  /\ lcr = IF index <= 2 THEN {} ELSE IF index <= 5 THEN {7} ELSE {0, 1}
  /\ index >= 4 => divisor = {0, 1}
  /\ index >= 7 => fcr = {0, 1, 2, 6, 7}
  /\ index >= 9 => mcr = {1, 2, 3, 4}
  /\ wire = <<>> /\ ~ cr /\ handler = "none"
  /\ index <= 9 => fifo = <<>> /\ shift = <<>>
  /\ \/ fifo = <<>> /\ shift \in Tested
     \/ fifo \in Tested /\ shift = <<>>

(* The registers once init_serial has returned.                             *)
Operating ==
  /\ ier = {} /\ lcr = {0, 1} /\ divisor = {0, 1}
  /\ fcr = {0, 1, 2, 6, 7} /\ mcr = {0, 1, 2, 3}

(* The registers at any time.                                               *)
Configured == IF thread = "init" THEN SetUp ELSE Operating

(* Between its test of the transmitter and its write a thread finds at most *)
(* the one dot a handler has put there; the handler finds nothing.          *)
RoomLeft ==
  /\ handler = "send" => fifo = <<>>
  /\ thread \in {"send", "async_send"} => Len(fifo) <= 1

(* The types of the variables.                                              *)
SerialTypeOK ==
  /\ thread \in {"init", "test", "send", "poll", "async_test", "async_send"}
  /\ handler \in {"none", "test", "send"}
  /\ index \in Nat \ {0} /\ cr \in BOOLEAN
  /\ fifo \in Seq(Codes) /\ shift \in Seq(Codes) /\ wire \in Seq(Codes)

(* Where the main thread is in its texts.                                   *)
Position ==
  /\ thread = "test" => index <= Len(str) + 1 /\ (cr => index <= Len(str) /\ str[index] = NEWLINE)
  /\ thread = "send" => index <= Len(str) /\ (cr => str[index] = NEWLINE)
  /\ thread = "poll" => index <= Len(data) + 1
  /\ thread \in {"async_test", "async_send"} => index <= Len(data)

(* The inductive invariant.                                                 *)
SerialInv == SerialTypeOK /\ Configured /\ RoomLeft /\ Position /\ LineCarriesText

-----------------------------------------------------------------------------
(* The ten bytes of init_serial.                                            *)
LEMMA Bytes ==
  /\ Len(init_serial) = 10
  /\ init_serial[1].offset = 1 /\ init_serial[1].byte = {}
  /\ init_serial[2].offset = 3 /\ init_serial[2].byte = {7}
  /\ init_serial[3].offset = 0 /\ init_serial[3].byte = {0, 1}
  /\ init_serial[4].offset = 1 /\ init_serial[4].byte = {}
  /\ init_serial[5].offset = 3 /\ init_serial[5].byte = {0, 1}
  /\ init_serial[6].offset = 2 /\ init_serial[6].byte = {0, 1, 2, 6, 7}
  /\ init_serial[7].offset = 4 /\ init_serial[7].byte = {0, 1, 3}
  /\ init_serial[8].offset = 4 /\ init_serial[8].byte = {1, 2, 3, 4}
  /\ init_serial[9].offset = 0 /\ init_serial[9].byte = TestByte
  /\ init_serial[10].offset = 4 /\ init_serial[10].byte = {0, 1, 2, 3}
BY DEF init_serial, Out

(* It holds when init_serial is called.                                     *)
LEMMA Starts == SerialInit => SerialInv
<1> SUFFICES ASSUME SerialInit PROVE SerialInv
  OBVIOUS
<1>0. Configured /\ RoomLeft /\ Position
  BY DEF SerialInit, Configured, SetUp, Tested, RoomLeft, Position
<1>1. SerialTypeOK
  <2>1. fifo \in Seq(Codes) /\ shift \in Seq(Codes) /\ wire \in Seq(Codes)
    BY DEF SerialInit
  <2>2. index \in Nat \ {0}
    BY DEF SerialInit
  <2> QED
    BY <2>1, <2>2, Zenon DEF SerialInit, SerialTypeOK
<1>2. LineCarriesText
  <2>1. wire \o shift \o fifo = <<>>
    BY DEF SerialInit
  <2> QED
    BY <2>1, NoDotsEmpty DEF SerialInit, LineCarriesText, Done
<1> QED
  BY <1>0, <1>1, <1>2 DEF SerialInv

(* The loopback test puts its byte into the transmitter.                    *)
LEMMA TestWritten ==
  ASSUME thread = "init", SetUp, out_b, index = 9
  PROVE  /\ fifo' = <<TestByte>> /\ shift' = <<>> /\ wire' = <<>>
         /\ index' = 10 /\ thread' = "init" /\ UNCHANGED <<setup, cr, handler>>
<1>1. init_serial[index].offset = 0 /\ init_serial[index].byte = TestByte /\ Len(init_serial) = 10
  BY Bytes
<1>2. Transmit(TestByte) /\ index' = 10 /\ thread' = "init" /\ UNCHANGED <<cr, handler>>
  BY <1>1 DEF out_b, hand
<1>3. 7 \notin lcr /\ fifo = <<>> /\ shift = <<>> /\ wire = <<>> /\ Capacity = FifoSize
  BY DEF SetUp, Capacity
<1>4. Len(fifo) < Capacity
  BY <1>3, SerialAssumption
<1>5. fifo' = Append(<<>>, TestByte) /\ UNCHANGED <<shift, wire, setup>>
  BY <1>2, <1>3, <1>4 DEF Transmit, setup
<1> QED
  BY <1>2, <1>3, <1>5

LEMMA TestedSeq == \A s \in Tested : s \in Seq(Codes)
<1>1. TestByte \in Codes
  BY DEF Codes
<1>2. \A x \in Codes : <<x>> \in Seq(Codes)
  OBVIOUS
<1>3. <<>> \in Seq(Codes)
  OBVIOUS
<1> QED
  BY <1>1, <1>2, <1>3, Zenon DEF Tested

(* What is left of the test when nothing else is on the way.                *)
LEMMA OnTest ==
  ASSUME NEW w, NEW s, NEW f, w = <<>>, (f = <<>> /\ s \in Tested) \/ (f \in Tested /\ s = <<>>)
  PROVE  NoDots(w \o s \o f) \in {<<>>, <<TestByte>> \o <<>>}
<1>1. w \o s \o f \in Tested
  <2>1. \A t \in Seq(Codes) : <<>> \o t = t /\ t \o <<>> = t
    OBVIOUS
  <2>2. s \in Seq(Codes) /\ f \in Seq(Codes) /\ <<>> \in Seq(Codes)
    BY TestedSeq DEF Tested
  <2>3. w \o s = s
    BY <2>1, <2>2
  <2>4. CASE f = <<>> /\ s \in Tested
    <3>1. s \o f = s
      BY <2>1, <2>2, <2>4
    <3> QED
      BY <2>3, <2>4, <3>1
  <2>5. CASE f \in Tested /\ s = <<>>
    <3>1. s \o f = f
      BY <2>1, <2>2, <2>5
    <3> QED
      BY <2>3, <2>5, <3>1
  <2> QED
    BY <2>4, <2>5
<1>2. NoDots(<<TestByte>>) = <<TestByte>>
  <2> DEFINE nil == <<>>
  <2>1. TestByte \in Codes /\ TestByte # DOT /\ nil \in Seq(Codes)
    BY SerialAssumption DEF Codes
  <2> HIDE DEF nil
  <2>2. NoDots(Append(nil, TestByte)) = Append(NoDots(nil), TestByte)
    BY <2>1, NoDotsAppend
  <2> QED
    BY <2>2, NoDotsEmpty DEF nil
<1>3. <<TestByte>> \o <<>> = <<TestByte>>
  <2>1. \A t \in Seq(Codes) : t \o <<>> = t
    OBVIOUS
  <2>2. <<TestByte>> \in Seq(Codes)
    BY TestedSeq DEF Tested
  <2> QED
    BY <2>1, <2>2, Zenon
<1> DEFINE all == w \o s \o f
<1> HIDE DEF all
<1>4. all \in Tested
  BY <1>1 DEF all
<1>5. all = <<>> \/ all = <<TestByte>>
  BY <1>4 DEF Tested
<1>6. NoDots(all) \in {<<>>, <<TestByte>> \o <<>>}
  BY <1>2, <1>3, <1>5, NoDotsEmpty, Zenon
<1> QED
  BY <1>6 DEF all

(* A step of init_serial.                                                   *)
LEMMA ConfiguredStep ==
  ASSUME SerialTypeOK, Configured, out_b
  PROVE  Configured'
<1>0. thread = "init" /\ SetUp /\ index \in 1 .. 10
  BY DEF out_b, Main, Configured, SetUp
<1>1. CASE index = 1
  BY <1>0, <1>1, Bytes DEF out_b, SetUp, Operating, Configured, Transmit, line, hand
<1>2. CASE index = 2
  BY <1>0, <1>2, Bytes DEF out_b, SetUp, Operating, Configured, Transmit, line, hand
<1>3. CASE index = 3
  BY <1>0, <1>3, Bytes DEF out_b, SetUp, Operating, Configured, Transmit, line, hand
<1>4. CASE index = 4
  BY <1>0, <1>4, Bytes DEF out_b, SetUp, Operating, Configured, Transmit, line, hand
<1>5. CASE index = 5
  BY <1>0, <1>5, Bytes DEF out_b, SetUp, Operating, Configured, Transmit, line, hand
<1>6. CASE index = 6
  BY <1>0, <1>6, Bytes DEF out_b, SetUp, Operating, Configured, Transmit, line, hand
<1>7. CASE index = 7
  BY <1>0, <1>7, Bytes DEF out_b, SetUp, Operating, Configured, Transmit, line, hand
<1>8. CASE index = 8
  BY <1>0, <1>8, Bytes DEF out_b, SetUp, Operating, Configured, Transmit, line, hand
<1>9. CASE index = 9
  <2>1. /\ fifo' = <<TestByte>> /\ shift' = <<>> /\ wire' = <<>>
        /\ index' = 10 /\ thread' = "init" /\ UNCHANGED <<setup, cr, handler>>
    BY <1>0, <1>9, TestWritten
  <2>2. <<TestByte>> \in Tested
    BY DEF Tested
  <2> QED
    BY <1>0, <1>9, <2>1, <2>2 DEF SetUp, Configured, setup
<1>10. CASE index = 10
  BY <1>0, <1>10, Bytes DEF out_b, SetUp, Operating, Configured, line, hand
<1> QED
  BY <1>0, <1>1, <1>2, <1>3, <1>4, <1>5, <1>6, <1>7, <1>8, <1>9, <1>10
-----------------------------------------------------------------------------
(* Steps that hand nothing over leave what is on the way as it is, and      *)
(* those of the UART move it.                                               *)
LEMMA Moves ==
  ASSUME SerialTypeOK, uart_loads \/ uart_sends, 4 \notin mcr
  PROVE  (wire \o shift \o fifo)' = wire \o shift \o fifo
<1>1. CASE uart_loads
  BY <1>1 DEF uart_loads, SerialTypeOK
<1>2. CASE uart_sends
  <2>1. wire' = wire \o shift /\ shift' = <<>> /\ fifo' = fifo
    BY <1>2 DEF uart_sends
  <2> QED
    BY <2>1 DEF SerialTypeOK
<1> QED
  BY <1>1, <1>2, Zenon

(* A character written to the port in operation, with room left, is put     *)
(* behind those on the way.                                                 *)
LEMMA Handed ==
  ASSUME SerialTypeOK, Operating, Len(fifo) <= 1, NEW x \in Codes, Transmit(x)
  PROVE  /\ fifo' = Append(fifo, x) /\ UNCHANGED <<setup, shift, wire>>
         /\ NoDots(wire' \o shift' \o fifo') =
              IF x = DOT THEN NoDots(wire \o shift \o fifo)
              ELSE Append(NoDots(wire \o shift \o fifo), x)
<1> DEFINE before == wire \o shift \o fifo
<1>1. Len(fifo) < Capacity /\ 7 \notin lcr /\ 4 \notin mcr
  BY SerialAssumption DEF Operating, Capacity, SerialTypeOK
<1>2. fifo' = Append(fifo, x) /\ UNCHANGED <<setup, shift, wire>>
  BY <1>1 DEF Transmit, setup
<1>3. wire' \o shift' \o fifo' = Append(before, x)
  BY <1>2 DEF SerialTypeOK
<1>4. before \in Seq(Codes)
  BY DEF SerialTypeOK
<1> HIDE DEF before
<1>5. NoDots(Append(before, x)) = IF x = DOT THEN NoDots(before) ELSE Append(NoDots(before), x)
  BY <1>4, NoDotsAppend
<1> QED
  BY <1>2, <1>3, <1>5 DEF before

(* Appending to the second of two sequences appends to both.                *)
LEMMA AppendBehind ==
  ASSUME NEW S, NEW s \in Seq(S), NEW t \in Seq(S), NEW x \in S
  PROVE  Append(s \o t, x) = s \o Append(t, x)
<1>1. Append(t, x) \in Seq(S) /\ s \o t \in Seq(S)
  OBVIOUS
<1>2. <<x>> \in Seq(S)
  OBVIOUS
<1>3. (s \o t) \o <<x>> = s \o (t \o <<x>>)
  BY <1>2, ConcatAssociative
<1> QED
  BY <1>1, <1>3, AppendIsConcat

(* One more character handed over is one more character done.               *)
LEMMA Follow ==
  ASSUME SerialInv, Operating, UNCHANGED setup, thread' # "init", NEW x \in Char,
         NoDots(wire' \o shift' \o fifo') = Append(NoDots(wire \o shift \o fifo), x),
         Done \in Seq(Char), Done' = Append(Done, x)
  PROVE  LineCarriesText'
<1> DEFINE on == NoDots(wire \o shift \o fifo)
           done == Done
<1>1. on \in {done, <<TestByte>> \o done}
  BY DEF SerialInv, LineCarriesText
<1>2. Append(<<TestByte>> \o done, x) = <<TestByte>> \o Append(done, x)
  <2> DEFINE S == Char \cup {TestByte}
  <2>1. <<TestByte>> \in Seq(S) /\ done \in Seq(S) /\ x \in S
    OBVIOUS
  <2> HIDE DEF S, done
  <2> QED
    BY <2>1, AppendBehind
<1>3. Append(on, x) \in {Append(done, x), <<TestByte>> \o Append(done, x)}
  <2> HIDE DEF on, done
  <2> QED
    BY <1>1, <1>2, Zenon
<1>4. NoDots(wire \o shift \o fifo)' \in {Done', <<TestByte>> \o Done'}
  <2>1. Append(on, x) = NoDots(wire \o shift \o fifo)' /\ Append(done, x) = Done'
    BY Zenon
  <2> HIDE DEF on, done
  <2> QED
    BY <1>3, <2>1, Zenon
<1>5. divisor' = {0, 1}
  BY DEF Operating, setup
<1> QED
  BY <1>4, <1>5, Zenon DEF LineCarriesText

(* The main thread writes: there is room, even with a dot that came after   *)
(* its test.                                                                *)
LEMMA MainSends ==
  ASSUME SerialInv, write_serial_send
  PROVE  SerialInv'
<1>1. /\ thread = "send" /\ handler = "none" /\ Operating /\ Len(fifo) <= 1 /\ SerialTypeOK
      /\ index \in 1 .. Len(str) /\ (cr => str[index] = NEWLINE)
  BY DEF SerialInv, SerialTypeOK, write_serial_send, Main, Configured, RoomLeft, Position
<1>2. NextChar \in Char /\ NextChar \in Codes /\ NextChar # DOT
  BY <1>1, SerialAssumption DEF NextChar, Codes
<1>3. /\ fifo' = Append(fifo, NextChar) /\ UNCHANGED <<setup, shift, wire>>
      /\ NoDots(wire' \o shift' \o fifo') = Append(NoDots(wire \o shift \o fifo), NextChar)
  <2>1. Transmit(NextChar)
    BY DEF write_serial_send
  <2> HIDE DEF NextChar
  <2> QED
    BY <1>1, <1>2, <2>1, Handed
<1>4. /\ thread' = "test" /\ handler' = "none"
      /\ IF ReturnFirst THEN cr' = TRUE /\ index' = index ELSE cr' = FALSE /\ index' = index + 1
  BY <1>1 DEF write_serial_send, hand
<1>5. SerialTypeOK'
  <2>1. fifo' \in Seq(Codes) /\ shift' = shift /\ wire' = wire
    BY <1>1, <1>2, <1>3 DEF SerialTypeOK
  <2>2. index' \in Nat \ {0}
    BY <1>1, <1>4
  <2>3. cr' \in BOOLEAN
    BY <1>4, Zenon
  <2> QED
    BY <1>1, <1>4, <2>1, <2>2, <2>3 DEF SerialTypeOK
<1>6. Configured' /\ RoomLeft'
  BY <1>1, <1>3, <1>4 DEF Configured, Operating, RoomLeft, setup
<1>7. Position'
  BY <1>1, <1>4 DEF Position, ReturnFirst
<1>8. LineCarriesText'
  <2>1. Done' = Append(Done, NextChar)
    <3> DEFINE sofar == OnLine(str, index - 1)
    <3>1. index - 1 \in 0 .. Len(str) /\ str \in Seq(Char)
      BY <1>1, SerialAssumption
    <3>2. sofar \in Seq(Char) /\ OnLine(str, index) = sofar \o IF str[index] = NEWLINE THEN <<RETURN, NEWLINE>> ELSE <<str[index]>>
      BY <1>1, <3>1, OnLineStep, Zenon
    <3>3. Done = sofar \o (IF cr THEN <<RETURN>> ELSE <<>>)
      BY <1>1 DEF Done
    <3>4. Done' = OnLine(str, index' - 1) \o (IF cr' THEN <<RETURN>> ELSE <<>>)
      BY <1>4 DEF Done
    <3> HIDE DEF sofar
    <3>5. CASE ReturnFirst
      <4>1. ~ cr /\ cr' /\ index' = index /\ NextChar = RETURN
        BY <1>4, <3>5 DEF ReturnFirst, NextChar
      <4>2. Done = sofar /\ Done' = sofar \o <<RETURN>>
        BY <3>2, <3>3, <3>4, <4>1 DEF sofar
      <4> QED
        BY <3>2, <4>1, <4>2
    <3>6. CASE ~ ReturnFirst /\ cr
      <4>1. ~ cr' /\ index' - 1 = index /\ NextChar = NEWLINE /\ str[index] = NEWLINE
        BY <1>1, <1>4, <3>6 DEF NextChar
      <4>2. Done = sofar \o <<RETURN>> /\ Done' = sofar \o <<RETURN, NEWLINE>>
        BY <3>2, <3>3, <3>4, <3>6, <4>1
      <4> QED
        BY <3>2, <4>1, <4>2
    <3>7. CASE ~ ReturnFirst /\ ~ cr
      <4>1. ~ cr' /\ index' - 1 = index /\ NextChar = str[index] /\ str[index] # NEWLINE
        BY <1>1, <1>4, <3>7 DEF NextChar, ReturnFirst
      <4>2. Done = sofar /\ Done' = sofar \o <<str[index]>>
        BY <3>2, <3>3, <3>4, <3>7, <4>1
      <4> QED
        BY <3>2, <4>1, <4>2
    <3> QED
      BY <3>5, <3>6, <3>7
  <2>2. Done \in Seq(Char)
    <3>1. OnLine(str, index - 1) \in Seq(Char)
      <4>1. index - 1 \in 0 .. Len(str) /\ str \in Seq(Char)
        BY <1>1, SerialAssumption
      <4> QED
        BY <4>1, OnLineStep
    <3> QED
      BY <1>1, <3>1, SerialAssumption DEF Done
  <2> QED
    BY <1>1, <1>2, <1>3, <1>4, <2>1, <2>2, Follow
<1> QED
  BY <1>5, <1>6, <1>7, <1>8 DEF SerialInv

(* The asynchronous future writes, likewise.                                *)
LEMMA FutureSends ==
  ASSUME SerialInv, async_write_send
  PROVE  SerialInv'
<1>1. /\ thread = "async_send" /\ handler = "none" /\ Operating /\ Len(fifo) <= 1 /\ SerialTypeOK
      /\ index \in 1 .. Len(data) /\ data \in Seq(Char) /\ str \in Seq(Char)
  BY SerialAssumption DEF SerialInv, SerialTypeOK, async_write_send, Main, Configured, RoomLeft, Position
<1>2. data[index] \in Char /\ data[index] \in Codes /\ data[index] # DOT
  BY <1>1, SerialAssumption DEF Codes
<1>3. /\ fifo' = Append(fifo, data[index]) /\ UNCHANGED <<setup, shift, wire>>
      /\ NoDots(wire' \o shift' \o fifo') = Append(NoDots(wire \o shift \o fifo), data[index])
  <2>1. Transmit(data[index])
    BY DEF async_write_send
  <2> QED
    BY <1>1, <1>2, <2>1, Handed
<1>4. thread' = "poll" /\ handler' = "none" /\ index' = index + 1 /\ cr' = cr
  BY <1>1 DEF async_write_send, hand
<1>5. SerialTypeOK'
  <2>1. fifo' \in Seq(Codes)
    BY <1>1, <1>2, <1>3 DEF SerialTypeOK
  <2> QED
    BY <1>1, <1>3, <1>4, <2>1 DEF SerialTypeOK
<1>6. Configured' /\ RoomLeft'
  BY <1>1, <1>3, <1>4 DEF Configured, Operating, RoomLeft, setup
<1>7. Position'
  BY <1>1, <1>4 DEF Position
<1>8. LineCarriesText'
  <2>1. Done' = Append(Done, data[index])
    <3> DEFINE all == OnLine(str, Len(str))
    <3>1. all \in Seq(Char)
      BY <1>1, OnLineStep
    <3>2. Done = all \o SubSeq(data, 1, index - 1) /\ Done' = all \o SubSeq(data, 1, index)
      <4>1. index' - 1 = index
        BY <1>1, <1>4
      <4>2. Done = all \o SubSeq(data, 1, index - 1)
        BY <1>1 DEF Done
      <4>3. Done' = all \o SubSeq(data, 1, index' - 1)
        BY <1>4, Zenon DEF Done
      <4> QED
        BY <4>1, <4>2, <4>3, Zenon
    <3> HIDE DEF all
    <3>3. SubSeq(data, 1, index) = Append(SubSeq(data, 1, index - 1), data[index])
      BY <1>1
    <3> DEFINE before == SubSeq(data, 1, index - 1)
    <3>4. before \in Seq(Char) /\ data[index] \in Char
      BY <1>1
    <3> HIDE DEF before
    <3>5. all \o Append(before, data[index]) = Append(all \o before, data[index])
      BY <3>1, <3>4
    <3> QED
      BY <3>2, <3>3, <3>5, Zenon DEF before
  <2>2. Done \in Seq(Char)
    <3>1. OnLine(str, Len(str)) \in Seq(Char) /\ SubSeq(data, 1, index - 1) \in Seq(Char)
      BY <1>1, OnLineStep
    <3> QED
      BY <1>1, <3>1 DEF Done
  <2> QED
    BY <1>1, <1>2, <1>3, <1>4, <2>1, <2>2, Follow
<1> QED
  BY <1>5, <1>6, <1>7, <1>8 DEF SerialInv

(* The handler writes its dot, to an empty transmitter.                     *)
LEMMA HandlerSends ==
  ASSUME SerialInv, handler_send
  PROVE  SerialInv'
<1>1. thread # "init" /\ handler = "send" /\ Operating /\ fifo = <<>> /\ SerialTypeOK
  BY DEF SerialInv, handler_send, Configured, SetUp, RoomLeft
<1>2. Len(fifo) = 0 /\ DOT \in Codes
  BY <1>1 DEF Codes
<1>3. /\ fifo' = Append(fifo, DOT) /\ UNCHANGED <<setup, shift, wire>>
      /\ NoDots(wire' \o shift' \o fifo') = NoDots(wire \o shift \o fifo)
  BY <1>1, <1>2, Handed DEF handler_send
<1>4. handler' = "none" /\ UNCHANGED <<thread, index, cr>>
  BY DEF handler_send, main
<1>5. SerialTypeOK'
  <2>1. fifo' \in Seq(Codes)
    BY <1>1, <1>2, <1>3 DEF SerialTypeOK
  <2> QED
    BY <1>1, <1>3, <1>4, <2>1 DEF SerialTypeOK
<1>6. Configured' /\ RoomLeft'
  <2>1. Len(fifo') = 1
    BY <1>1, <1>2, <1>3 DEF SerialTypeOK
  <2> QED
    BY <1>1, <1>3, <1>4, <2>1 DEF Configured, Operating, RoomLeft, setup
<1>7. Position'
  BY <1>4 DEF Position, SerialInv
<1>8. LineCarriesText'
  BY <1>1, <1>3, <1>4, Zenon DEF LineCarriesText, SerialInv, Operating, setup, Done
<1> QED
  BY <1>5, <1>6, <1>7, <1>8 DEF SerialInv

(* Steps that leave what is on the way and the port as they are.            *)
LEMMA MainMoves ==
  ASSUME SerialInv,
         \/ write_serial_test \/ write_serial_string_return \/ async_serial_write_pending
         \/ async_serial_write_poll \/ async_write_test \/ rtc_interrupt \/ handler_test
  PROVE  SerialInv'
<1>1. SerialTypeOK /\ thread # "init" /\ UNCHANGED <<setup, line, cr>> /\ Operating
  BY DEF SerialInv, Configured, SetUp, write_serial_test, write_serial_string_return,
    async_serial_write_pending, async_serial_write_poll, async_write_test, rtc_interrupt,
    handler_test, Main, main
<1>2. /\ thread' # "init"
      /\ thread' \in {"init", "test", "send", "poll", "async_test", "async_send"}
      /\ handler' \in {"none", "test", "send"} /\ index' \in Nat \ {0}
  BY <1>1 DEF SerialTypeOK, write_serial_test, write_serial_string_return,
    async_serial_write_pending, async_serial_write_poll, async_write_test, rtc_interrupt,
    handler_test, Main, main, hand
<1>3. SerialTypeOK'
  BY <1>1, <1>2 DEF SerialTypeOK, line
<1>4. Configured'
  BY <1>1, <1>2 DEF Configured, Operating, setup
<1>5. RoomLeft'
  <2>0. RoomLeft /\ fifo' = fifo
    BY <1>1 DEF SerialInv, line
  <2>1. CASE write_serial_test \/ async_write_test
    <3>1. handler' = "none" /\ fifo = <<>>
      BY <2>1 DEF write_serial_test, async_write_test, Main, hand, serial_is_transmit_empty
    <3>2. Len(fifo) <= 1
      BY <3>1
    <3> QED
      BY <2>0, <3>1, <3>2, Zenon DEF RoomLeft
  <2>2. CASE write_serial_string_return \/ async_serial_write_pending \/ async_serial_write_poll
    <3>1. handler' = "none" /\ thread' \in {"poll", "async_test"}
      BY <2>2 DEF write_serial_string_return, async_serial_write_pending, async_serial_write_poll, Main, hand
    <3> QED
      BY <3>1 DEF RoomLeft
  <2>3. CASE rtc_interrupt
    <3>1. handler' = "test" /\ thread' = thread
      BY <2>3 DEF rtc_interrupt, main
    <3> QED
      BY <2>0, <3>1 DEF RoomLeft
  <2>4. CASE handler_test
    <3>1. handler' = "send" /\ thread' = thread /\ fifo = <<>>
      BY <2>4 DEF handler_test, main, serial_is_transmit_empty
    <3> QED
      BY <2>0, <3>1 DEF RoomLeft
  <2> QED
    BY <2>1, <2>2, <2>3, <2>4
<1>6. Position'
  <2>0. Position /\ index \in Nat \ {0} /\ cr' = cr /\ Len(data) \in Nat
    BY <1>1, SerialAssumption DEF SerialInv, SerialTypeOK
  <2>1. CASE write_serial_test
    BY <2>0, <2>1 DEF Position, write_serial_test, Main
  <2>2. CASE write_serial_string_return
    <3>1. thread' = "poll" /\ index' = 1
      BY <2>2 DEF write_serial_string_return
    <3> QED
      BY <2>0, <3>1 DEF Position
  <2>3. CASE async_serial_write_pending \/ async_serial_write_poll \/ async_write_test
    <3>1. index' = index /\ index <= Len(data) /\ thread' \in {"poll", "async_test", "async_send"}
      BY <2>0, <2>3 DEF Position, async_serial_write_pending, async_serial_write_poll, async_write_test, Main
    <3> QED
      BY <2>0, <3>1 DEF Position
  <2>4. CASE rtc_interrupt \/ handler_test
    <3>1. thread' = thread /\ index' = index
      BY <2>4 DEF rtc_interrupt, handler_test, main
    <3> QED
      BY <2>0, <3>1, Zenon DEF Position
  <2> QED
    BY <2>1, <2>2, <2>3, <2>4
<1>7. Done' = Done
  <2>1. CASE write_serial_string_return
    <3>1. index = Len(str) + 1 /\ ~ cr /\ index' = 1 /\ thread = "test" /\ thread' = "poll"
      BY <1>1, <2>1, SerialAssumption DEF SerialInv, SerialTypeOK, Position, write_serial_string_return, Main
    <3>2. Done = OnLine(str, Len(str)) \o <<>> /\ Done' = OnLine(str, Len(str)) \o SubSeq(data, 1, 0)
      BY <3>1, SerialAssumption DEF Done
    <3>3. SubSeq(data, 1, 0) = <<>>
      BY SerialAssumption
    <3> QED
      BY <3>2, <3>3, Zenon
  <2>2. CASE ~ write_serial_string_return
    BY <1>1, <2>2 DEF Done, write_serial_test, async_serial_write_pending,
      async_serial_write_poll, async_write_test, rtc_interrupt, handler_test, Main, main
  <2> QED
    BY <2>1, <2>2
<1>8. LineCarriesText'
  BY <1>1, <1>7, Zenon DEF SerialInv, LineCarriesText, Operating, line, setup
<1> QED
  BY <1>3, <1>4, <1>5, <1>6, <1>8 DEF SerialInv

(* The UART sends.                                                          *)
LEMMA UartMoves ==
  ASSUME SerialInv, uart_loads \/ uart_sends
  PROVE  SerialInv'
<1>1. SerialTypeOK /\ UNCHANGED <<main, hand, setup>>
  BY DEF SerialInv, uart_loads, uart_sends
<1>2. fifo # <<>> \/ shift # <<>>
  BY DEF uart_loads, uart_sends
<1>3. Len(fifo') <= Len(fifo) /\ (fifo = <<>> => fifo' = <<>>)
  BY <1>1 DEF SerialTypeOK, uart_loads, uart_sends
<1>4. SerialTypeOK'
  <2>1. fifo' \in Seq(Codes) /\ shift' \in Seq(Codes) /\ wire' \in Seq(Codes)
    <3>1. CASE uart_loads
      BY <1>1, <3>1 DEF SerialTypeOK, uart_loads
    <3>2. CASE uart_sends
      <4>1. wire' \in {wire, wire \o shift} /\ shift' = <<>> /\ fifo' = fifo
        BY <3>2 DEF uart_sends
      <4>2. wire \o shift \in Seq(Codes) /\ <<>> \in Seq(Codes)
        BY <1>1 DEF SerialTypeOK
      <4> QED
        BY <1>1, <4>1, <4>2 DEF SerialTypeOK
    <3> QED
      BY <3>1, <3>2
  <2> QED
    BY <1>1, <2>1 DEF SerialTypeOK, main, hand
<1>5. RoomLeft' /\ Position'
  BY <1>1, <1>3, <1>4 DEF SerialInv, SerialTypeOK, RoomLeft, Position, main, hand
<1>6. CASE thread # "init"
  <2>1. 4 \notin mcr /\ Operating /\ thread' # "init"
    BY <1>1, <1>6 DEF SerialInv, Configured, Operating, main
  <2>2. Configured'
    BY <1>1, <2>1 DEF Configured, Operating, setup
  <2>3. LineCarriesText'
    BY <1>1, <2>1, Moves, Zenon DEF SerialInv, LineCarriesText, Done, main, setup
  <2> QED
    BY <1>4, <1>5, <2>2, <2>3 DEF SerialInv
<1>7. CASE thread = "init"
  <2>1. SetUp /\ index = 10 /\ thread' = "init" /\ UNCHANGED <<index, cr, handler, setup>>
    BY <1>1, <1>2, <1>7 DEF SerialInv, Configured, SetUp, main, hand
  <2>2. 4 \in mcr
    BY <2>1 DEF SetUp
  <2>3. /\ wire' = <<>>
        /\ \/ fifo' = <<>> /\ shift' \in Tested
           \/ fifo' \in Tested /\ shift' = <<>>
    <3>1. CASE uart_loads
      BY <2>1, <3>1 DEF uart_loads, SetUp, Tested
    <3>2. CASE uart_sends
      BY <2>1, <2>2, <3>2 DEF uart_sends, SetUp, Tested
    <3> QED
      BY <3>1, <3>2
  <2>4. Configured'
    BY <2>1, <2>3 DEF Configured, SetUp, setup
  <2>5. LineCarriesText'
    BY <2>1, <2>3, OnTest DEF LineCarriesText, Done
  <2> QED
    BY <1>4, <1>5, <2>4, <2>5 DEF SerialInv
<1> QED
  BY <1>6, <1>7

(* init_serial writes a byte: of it at most the test byte gets out.         *)
LEMMA SetsUp ==
  ASSUME SerialInv, out_b
  PROVE  SerialInv'
<1>1. SerialTypeOK /\ thread = "init" /\ SetUp
  BY DEF SerialInv, Configured, out_b, Main
<1>2. Configured'
  BY ConfiguredStep DEF SerialInv
<1>3. /\ thread' \in {"init", "test"} /\ index' \in 1 .. 10 /\ (thread' = "test" => index' = 1)
      /\ UNCHANGED <<cr, handler>>
  <2>1. index \in 1 .. 10 /\ Len(init_serial) = 10
    BY <1>1, Bytes DEF SetUp
  <2>2. /\ IF index < Len(init_serial) THEN index' = index + 1 /\ thread' = thread
                                     ELSE index' = 1 /\ thread' = "test"
        /\ UNCHANGED <<cr, handler>>
    BY Zenon DEF out_b, hand
  <2> QED
    BY <1>1, <2>1, <2>2
<1>4. /\ wire' = <<>>
      /\ \/ fifo' = <<>> /\ shift' \in Tested
         \/ fifo' \in Tested /\ shift' = <<>>
  <2>1. CASE index = 9
    BY <1>1, <2>1, TestWritten DEF SetUp, Tested
  <2>2. CASE index # 9
    <3>1. index = 3 => 7 \in lcr
      BY <1>1 DEF SetUp
    <3>2. init_serial[index].offset = 0 => index = 3
      BY <1>1, <2>2, Bytes DEF SetUp
    <3>3. UNCHANGED <<fifo, shift, wire>>
      BY <3>1, <3>2 DEF out_b, Transmit, line
    <3> QED
      BY <1>1, <3>3 DEF SetUp
  <2> QED
    BY <2>1, <2>2
<1>5. SerialTypeOK'
  <2>1. \A s \in Tested : s \in Seq(Codes)
    BY TestedSeq
  <2>2. <<>> \in Tested
    BY DEF Tested
  <2>3. fifo' \in Seq(Codes) /\ shift' \in Seq(Codes) /\ wire' \in Seq(Codes)
    BY <1>4, <2>1, <2>2
  <2> QED
    BY <1>1, <1>3, <2>3 DEF SerialTypeOK
<1>6. RoomLeft' /\ Position'
  BY <1>1, <1>3, SerialAssumption DEF RoomLeft, Position, SetUp
<1>7. Done' = <<>>
  <2>1. OnLine(str, 0) = <<>>
    BY SerialAssumption, OnLineStep
  <2> QED
    BY <1>1, <1>3, <2>1 DEF Done, SetUp
<1>8. LineCarriesText'
  BY <1>2, <1>4, <1>7, OnTest DEF LineCarriesText, Configured, Operating
<1> QED
  BY <1>2, <1>5, <1>6, <1>8 DEF SerialInv

(* Every step preserves the invariant.                                      *)
LEMMA Stays ==
  ASSUME SerialInv, [SerialNext]_serialVars
  PROVE  SerialInv'
<1>1. CASE SerialNext
  BY <1>1, MainSends, FutureSends, HandlerSends, MainMoves, UartMoves, SetsUp DEF SerialNext, Cpu
<1>2. CASE UNCHANGED serialVars
  BY <1>2 DEF serialVars, main, hand, setup, line, SerialInv, SerialTypeOK, Configured, SetUp, Operating,
    RoomLeft, Position, LineCarriesText, Done
<1> QED
  BY <1>1, <1>2

(* In every reachable state the registers are as far as init_serial has     *)
(* come, there is room between a test and a write, and the line carries     *)
(* what the threads have written.                                           *)
THEOREM SerialInvariance == SerialSpec => []SerialInv
BY Starts, Stays, PTL DEF SerialSpec

(* For all texts and every FIFO of two characters or more: apart from the   *)
(* handler's dots, and from the byte of the loopback test in front of all,  *)
(* the line carries exactly the texts, at the right speed.                  *)
THEOREM TextOnLine == SerialSpec => []LineCarriesText
<1>1. SerialInv => LineCarriesText
  BY DEF SerialInv
<1> QED
  BY <1>1, SerialInvariance, PTL

(* Whatever the firmware left enabled, the port asks for no interrupt once  *)
(* init_serial has returned: the interrupt that a pending write is said to  *)
(* wait for (async_executor.c:236) never comes.                             *)
THEOREM Silence == SerialSpec => []PortStaysSilent
<1>1. SerialInv => PortStaysSilent
  BY DEF SerialInv, Configured, Operating, PortStaysSilent, Interrupts
<1> QED
  BY <1>1, SerialInvariance, PTL

-----------------------------------------------------------------------------
(* The logger.                                                              *)

(* The size of the ring.                                                    *)
N == LOG_BUFFER_SIZE

(* What remains of a number below twice the size of the ring, or equal.     *)
Folded(x) == IF x < N THEN x ELSE IF x < 2 * N THEN x - N ELSE 0

USE LoggerAssumption

(* The remainder that moves a cursor, without a division.                   *)
LEMMA ModFolds ==
  ASSUME NEW x \in Nat, x <= 2 * N
  PROVE  x % N = Folded(x)
<1>1. N \in Nat /\ N > 0
  BY DEF N
<1> HIDE DEF N
<1>2. CASE x < N
  BY <1>1, <1>2 DEF Folded
<1>3. CASE x >= N /\ x < 2 * N
  BY <1>1, <1>3 DEF Folded
<1>4. CASE x = 2 * N
  BY <1>1, <1>4 DEF Folded
<1> QED BY <1>1, <1>2, <1>3, <1>4
(* Two cursors add up to less than twice the size.                          *)
LEMMA SumBounded ==
  ASSUME NEW h \in Nat, h < N, NEW n \in Nat, n <= N, NEW u \in {-1, 0, 1},
         u = -1 => n > 0
  PROVE  h + n + u \in Nat /\ h + n + u <= 2 * N
BY DEF N

(* The next slot.                                                           *)
LEMMA SuccFolds ==
  ASSUME NEW i \in Slots
  PROVE  Succ(i) = (IF i + 1 < N THEN i + 1 ELSE 0) /\ Succ(i) \in Slots
<1>1. N \in Nat /\ N > 0 /\ i \in Nat /\ i < N
  BY DEF N, Slots
<1>2. (i + 1) % N = Folded(i + 1)
  BY <1>1, ModFolds
<1> QED BY <1>1, <1>2 DEF Succ, Folded, Slots, N

-----------------------------------------------------------------------------
(* Where logger_log holds the guard.                                        *)
Pushing == {"evict", "store", "advance", "count", "release"}

(* The guard counts the regions the main thread is in, and interrupts are   *)
(* on outside all of them only.                                             *)
GuardInv ==
  /\ interrupt_guard_counter = (IF section THEN 1 ELSE 0) + (IF pc \in Pushing THEN 1 ELSE 0)
  /\ iflag => interrupt_guard_counter = 0

(* Where logger_buffer_pop has found an entry.                              *)
InPop == {"pop_level", "pop_module", "pop_head", "pop_head_store", "pop_count", "pop_count_store"}

(* What a push carries and how much room it has, and that a pop has what to *)
(* pop and a cursor of the ring in its register: no handler takes that away. *)
RoomInv ==
  /\ pc \in {"evict", "store"} => entry \in LogEntry
  /\ pc \in {"store", "advance", "count"} => count < N
  /\ pc \in InPop => count > 0
  /\ pc \in {"pop_module", "pop_head", "pop_head_store"} => loaded \in Slots
  /\ pc = "pop_count_store" => loaded > 0

(* What a pop has loaded is up to date unless a handler has spoilt it.      *)
CopyInv ==
  ~ raced =>
    /\ pc = "pop_module" => loaded = head /\ entry.level = buffer[head].level
    /\ pc = "pop_head_store" => loaded = head
    /\ pc = "pop_count_store" => loaded = count

(* The inductive invariant.                                                 *)
LoggerInv == TypeOK /\ GuardInv /\ RoomInv /\ CopyInv /\ RingConsistent

(* It holds after logger_init.                                              *)
LEMMA LoggerInit == Init => LoggerInv
<1> SUFFICES ASSUME Init PROVE LoggerInv
  OBVIOUS
<1>1. TypeOK
  <2>1. entry \in [level : Levels \cup {0}, module : Modules \cup {"none"}]
    BY DEF Init, NoEntry
  <2>2. iflag \in BOOLEAN /\ section \in BOOLEAN /\ raced \in BOOLEAN
    BY Zenon DEF Init
  <2> QED BY <2>1, <2>2 DEF Init, TypeOK, Slots
<1>2. GuardInv /\ RoomInv /\ CopyInv
  BY DEF Init, GuardInv, RoomInv, CopyInv, Pushing, InPop
<1>3. RingConsistent
  <2>1. tail = 0 /\ head = 0 /\ count = 0 /\ Uncounted = 0
    BY DEF Init, Uncounted
  <2>2. 0 % N = 0
    BY ModFolds DEF N, Folded
  <2> QED BY <1>1, <2>1, <2>2 DEF RingConsistent, TypeOK, N
<1> QED BY <1>1, <1>2, <1>3 DEF LoggerInv

-----------------------------------------------------------------------------
(* The types, one action after the other.                                   *)
LEMMA TypeStep == LoggerInv /\ [Next]_vars => TypeOK'
<1> SUFFICES ASSUME LoggerInv, [Next]_vars PROVE TypeOK'
  OBVIOUS
<1> USE DEF LoggerInv
<1>1. CASE enter_section
  <2>1. interrupt_guard_counter = 0
    BY <1>1 DEF enter_section, GuardInv, Pushing
  <2>2. interrupt_guard_counter' = 1 /\ iflag' = FALSE /\ section' = TRUE
    BY <1>1, <2>1 DEF enter_section, interrupt_guard_acquire
  <2>3. interrupt_guard_counter' \in 0 .. 2
    BY <2>2
  <2>4. iflag' \in BOOLEAN /\ section' \in BOOLEAN
    BY <2>2, Zenon
  <2>5. UNCHANGED <<ring, default_level, pc, entry, loaded, raced>>
    BY <1>1 DEF enter_section
  <2> QED BY <2>3, <2>4, <2>5 DEF TypeOK, ring
<1>2. CASE leave_section
  <2>1. interrupt_guard_counter = 1
    BY <1>2 DEF leave_section, GuardInv, Pushing
  <2>2. interrupt_guard_counter' = 0 /\ section' = FALSE
    BY <1>2, <2>1 DEF leave_section, interrupt_guard_release
  <2>3. interrupt_guard_counter' \in 0 .. 2
    BY <2>2
  <2>4. iflag' \in BOOLEAN /\ section' \in BOOLEAN
    BY <1>2, <2>2, Zenon DEF leave_section, interrupt_guard_release
  <2>5. UNCHANGED <<ring, default_level, pc, entry, loaded, raced>>
    BY <1>2 DEF leave_section
  <2> QED BY <2>3, <2>4, <2>5 DEF TypeOK, ring
<1>3. CASE logger_set_module_level
  BY <1>3 DEF logger_set_module_level, TypeOK, guard, ring
<1>4. CASE logger_log
  <2>1. interrupt_guard_counter \in 0 .. 1
    BY <1>4 DEF logger_log, GuardInv, Pushing, TypeOK
  <2>2. interrupt_guard_counter' \in 0 .. 2 /\ iflag' = FALSE
    BY <1>4, <2>1 DEF logger_log, interrupt_guard_acquire
  <2>3. entry' \in [level : Levels \cup {0}, module : Modules \cup {"none"}]
    BY <1>4 DEF logger_log, LogEntry
  <2> QED BY <1>4, <2>2, <2>3, Zenon DEF logger_log, TypeOK, ring
<1>5. CASE push_evict
  BY <1>5, SuccFolds DEF push_evict, TypeOK, guard, ring, logger_buffer_is_full
<1>6. CASE push_store
  <2>1. entry \in LogEntry
    BY <1>6 DEF push_store, RoomInv
  <2> QED BY <1>6, <2>1 DEF push_store, TypeOK, guard, ring, Slots
<1>7. CASE push_advance
  BY <1>7, SuccFolds DEF push_advance, TypeOK, guard, ring
<1>8. CASE push_count
  BY <1>8 DEF push_count, TypeOK, guard, ring, RoomInv, N
<1>9. CASE logger_log_return
  BY <1>9 DEF logger_log_return, TypeOK, guard, ring, interrupt_guard_release, GuardInv, Pushing
<1>10. CASE logger_service
  BY <1>10 DEF logger_service, TypeOK, guard, ring
<1>11. CASE pop_empty
  BY <1>11 DEF pop_empty, TypeOK, guard, ring
<1>12. CASE pop_test
  BY <1>12 DEF pop_test, TypeOK, guard, ring
<1>13. CASE pop_level
  <2>1. buffer[head].level \in Levels \cup {0}
    BY DEF TypeOK, LogEntry, NoEntry
  <2> QED BY <1>13, <2>1 DEF pop_level, TypeOK, guard, ring, Slots
<1>14. CASE pop_module
  <2>1. buffer[loaded].module \in Modules \cup {"none"}
    BY <1>14 DEF pop_module, TypeOK, RoomInv, LogEntry, NoEntry
  <2> QED BY <1>14, <2>1 DEF pop_module, TypeOK, guard, ring
<1>15. CASE pop_head
  BY <1>15 DEF pop_head, TypeOK, guard, ring, Slots
<1>16. CASE pop_head_store
  BY <1>16, SuccFolds DEF pop_head_store, TypeOK, guard, ring, RoomInv
<1>17. CASE pop_count
  BY <1>17 DEF pop_count, TypeOK, guard, ring
<1>18. CASE pop_count_store
  BY <1>18 DEF pop_count_store, TypeOK, guard, ring, RoomInv
<1>19. CASE interrupt_log
  <2>1. buffer' \in [Slots -> LogEntry \cup {NoEntry}]
    BY <1>19 DEF interrupt_log, TypeOK
  <2>2. head' \in Slots /\ tail' \in Slots
    BY <1>19, SuccFolds DEF interrupt_log, TypeOK
  <2>3. count' \in 0 .. LOG_BUFFER_SIZE
    BY <1>19 DEF interrupt_log, TypeOK, logger_buffer_is_full
  <2>4. raced' \in BOOLEAN
    BY <1>19, Zenon DEF interrupt_log
  <2> QED BY <1>19, <2>1, <2>2, <2>3, <2>4 DEF interrupt_log, TypeOK, guard
<1>20. CASE UNCHANGED vars
  BY <1>20 DEF vars, guard, ring, TypeOK
<1> QED BY <1>1, <1>2, <1>3, <1>4, <1>5, <1>6, <1>7, <1>8, <1>9, <1>10, <1>11, <1>12,
            <1>13, <1>14, <1>15, <1>16, <1>17, <1>18, <1>19, <1>20 DEF Next

(* The guard is counted up and down in pairs.                               *)
LEMMA GuardStep == LoggerInv /\ [Next]_vars => GuardInv'
<1> SUFFICES ASSUME LoggerInv, [Next]_vars PROVE GuardInv'
  OBVIOUS
<1> USE DEF LoggerInv
<1>1. CASE enter_section
  BY <1>1 DEF enter_section, GuardInv, Pushing, TypeOK, guard, interrupt_guard_acquire
<1>2. CASE leave_section
  BY <1>2 DEF leave_section, GuardInv, Pushing, TypeOK, guard, interrupt_guard_release
<1>3. CASE logger_set_module_level
  BY <1>3 DEF logger_set_module_level, GuardInv, Pushing, TypeOK, guard
<1>4. CASE logger_log
  BY <1>4 DEF logger_log, GuardInv, Pushing, TypeOK, guard, interrupt_guard_acquire
<1>5. CASE push_evict
  BY <1>5 DEF push_evict, GuardInv, Pushing, TypeOK, guard
<1>6. CASE push_store
  BY <1>6 DEF push_store, GuardInv, Pushing, TypeOK, guard
<1>7. CASE push_advance
  BY <1>7 DEF push_advance, GuardInv, Pushing, TypeOK, guard
<1>8. CASE push_count
  BY <1>8 DEF push_count, GuardInv, Pushing, TypeOK, guard
<1>9. CASE logger_log_return
  BY <1>9 DEF logger_log_return, GuardInv, Pushing, TypeOK, guard, interrupt_guard_release
<1>10. CASE logger_service
  BY <1>10 DEF logger_service, GuardInv, Pushing, TypeOK, guard
<1>11. CASE pop_empty
  BY <1>11 DEF pop_empty, GuardInv, Pushing, TypeOK, guard
<1>12. CASE pop_test \/ pop_level \/ pop_module \/ pop_head \/ pop_head_store \/ pop_count \/ pop_count_store
  BY <1>12 DEF pop_test, pop_level, pop_module, pop_head, pop_head_store, pop_count,
               pop_count_store, GuardInv, Pushing, TypeOK, guard
<1>13. CASE interrupt_log
  BY <1>13 DEF interrupt_log, GuardInv, Pushing, TypeOK, guard
<1>14. CASE UNCHANGED vars
  BY <1>14 DEF vars, guard, GuardInv, Pushing
<1> QED BY <1>1, <1>2, <1>3, <1>4, <1>5, <1>6, <1>7, <1>8,
            <1>9, <1>10, <1>11, <1>12, <1>13, <1>14 DEF Next

(* What a push has made room for, and a pop has found, stays.               *)
LEMMA RoomStep == LoggerInv /\ [Next]_vars => RoomInv'
<1> SUFFICES ASSUME LoggerInv, [Next]_vars PROVE RoomInv'
  OBVIOUS
<1> USE DEF LoggerInv
<1>1. CASE enter_section
  BY <1>1 DEF enter_section, RoomInv, InPop, TypeOK, ring, N
<1>2. CASE leave_section
  BY <1>2 DEF leave_section, RoomInv, InPop, TypeOK, ring, N
<1>3. CASE logger_set_module_level
  BY <1>3 DEF logger_set_module_level, RoomInv, InPop, TypeOK, ring, N
<1>4. CASE logger_log
  BY <1>4 DEF logger_log, RoomInv, InPop, TypeOK, ring, N
<1>5. CASE push_evict
  BY <1>5 DEF push_evict, RoomInv, InPop, TypeOK, ring, N, logger_buffer_is_full
<1>6. CASE push_store
  BY <1>6 DEF push_store, RoomInv, InPop, TypeOK, ring, N
<1>7. CASE push_advance
  BY <1>7 DEF push_advance, RoomInv, InPop, TypeOK, ring, N
<1>8. CASE push_count
  BY <1>8 DEF push_count, RoomInv, InPop, TypeOK, ring, N
<1>9. CASE logger_log_return
  BY <1>9 DEF logger_log_return, RoomInv, InPop, TypeOK, ring, N
<1>10. CASE logger_service
  BY <1>10 DEF logger_service, RoomInv, InPop, TypeOK, ring, N
<1>11. CASE pop_empty
  BY <1>11 DEF pop_empty, RoomInv, InPop, TypeOK, ring, N
<1>12. CASE pop_test
  BY <1>12 DEF pop_test, RoomInv, InPop, TypeOK, ring, N, logger_buffer_is_empty
<1>13. CASE pop_level
  BY <1>13 DEF pop_level, RoomInv, InPop, TypeOK, ring, N
<1>14. CASE pop_module
  BY <1>14 DEF pop_module, RoomInv, InPop, TypeOK, ring, N
<1>15. CASE pop_head
  BY <1>15 DEF pop_head, RoomInv, InPop, TypeOK, ring, N
<1>16. CASE pop_head_store
  BY <1>16 DEF pop_head_store, RoomInv, InPop, TypeOK, ring, N
<1>17. CASE pop_count
  BY <1>17 DEF pop_count, RoomInv, InPop, TypeOK, ring, N
<1>18. CASE pop_count_store
  BY <1>18 DEF pop_count_store, RoomInv, InPop, TypeOK, ring, N
<1>19. CASE interrupt_log
  BY <1>19 DEF interrupt_log, RoomInv, InPop, TypeOK, ring, N, logger_buffer_is_full, GuardInv, Pushing
<1>20. CASE UNCHANGED vars
  BY <1>20 DEF vars, ring, RoomInv, InPop
<1> QED BY <1>1, <1>2, <1>3, <1>4, <1>5, <1>6, <1>7, <1>8, <1>9, <1>10, <1>11, <1>12,
            <1>13, <1>14, <1>15, <1>16, <1>17, <1>18, <1>19, <1>20 DEF Next

(* A pop once spoilt stays so.                                              *)
LEMMA RacedStays ==
  ASSUME LoggerInv, [Next]_vars, ~ raced'
  PROVE  ~ raced /\ (interrupt_log => ~ Spoils)
<1>1. CASE interrupt_log
  <2>1. raced' = (raced \/ Spoils)
    BY <1>1 DEF interrupt_log
  <2> QED BY <2>1, Zenon
<1>2. CASE ~ interrupt_log
  <2>1. raced' = raced
    BY <1>2 DEF Next, vars, enter_section, leave_section, logger_set_module_level, logger_log,
                push_evict, push_store, push_advance, push_count, logger_log_return,
                logger_service, pop_empty, pop_test, pop_level, pop_module, pop_head,
                pop_head_store, pop_count, pop_count_store
  <2> QED BY <1>2, <2>1
<1> QED BY <1>1, <1>2

(* The cursors without the remainder.                                       *)
LEMMA Cursors ==
  ASSUME LoggerInv
  PROVE  /\ N \in Nat /\ N > 0 /\ head \in Nat /\ head < N /\ tail \in Nat /\ tail < N
         /\ count \in Nat /\ count <= N
         /\ Uncounted \in {-1, 0, 1} /\ (Uncounted = -1 => count > 0) /\ (Uncounted = 1 => count < N)
         /\ ~ raced => tail = Folded(head + count + Uncounted)
<1>1. /\ N \in Nat /\ N > 0 /\ head \in Nat /\ head < N /\ tail \in Nat /\ tail < N
      /\ count \in Nat /\ count <= N
  BY DEF LoggerInv, TypeOK, Slots, N
<1>2. Uncounted \in {-1, 0, 1} /\ (Uncounted = -1 => count > 0) /\ (Uncounted = 1 => count < N)
  BY DEF Uncounted, LoggerInv, RoomInv, InPop
<1>3. ASSUME ~ raced PROVE tail = Folded(head + count + Uncounted)
  <2>1. head + count + Uncounted \in Nat /\ head + count + Uncounted <= 2 * N
    BY <1>1, <1>2, SumBounded
  <2> QED BY <1>3, <2>1, ModFolds DEF LoggerInv, RingConsistent, N
<1> QED BY <1>1, <1>2, <1>3

(* A handler that does not spoil the pop leaves its copy up to date.        *)
LEMMA CopyStep == LoggerInv /\ [Next]_vars => CopyInv'
<1> SUFFICES ASSUME LoggerInv, [Next]_vars, ~ raced' PROVE CopyInv'
  BY DEF CopyInv
<1>1. ~ raced /\ (interrupt_log => ~ Spoils)
  BY RacedStays
<1>2. CASE interrupt_log
  <2>1. UNCHANGED <<pc, entry, loaded>> /\ pc # "pop_count_store"
    BY <1>1, <1>2 DEF interrupt_log, Spoils
  <2>2. ASSUME pc \in {"pop_module", "pop_head_store"}
        PROVE  head' = head /\ loaded = head /\ count < N /\ count > 0
    <3>1. ~ logger_buffer_is_full
      BY <1>1, <1>2, <2>2 DEF Spoils
    <3>2. head' = head
      BY <1>2, <3>1 DEF interrupt_log
    <3>3. loaded = head
      BY <1>1, <2>2 DEF LoggerInv, CopyInv
    <3>4. count > 0
      BY <2>2 DEF LoggerInv, RoomInv, InPop
    <3> QED BY <3>1, <3>2, <3>3, <3>4 DEF logger_buffer_is_full, LoggerInv, TypeOK, N
  <2>3. ASSUME pc = "pop_module" PROVE buffer'[head] = buffer[head] /\ entry.level = buffer[head].level
    <3>1. Uncounted = 0
      BY <2>3 DEF Uncounted
    <3>2. tail # head
      BY <1>1, <2>2, <2>3, <3>1, Cursors DEF Folded
    <3>3. head \in Slots /\ buffer \in [Slots -> LogEntry \cup {NoEntry}]
      BY DEF LoggerInv, TypeOK
    <3> QED BY <1>1, <1>2, <2>3, <3>2, <3>3 DEF interrupt_log, LoggerInv, CopyInv
  <2> QED BY <2>1, <2>2, <2>3 DEF CopyInv
<1>3. CASE pop_level
  BY <1>3 DEF pop_level, ring, CopyInv, LoggerInv, TypeOK, LogEntry, NoEntry
<1>4. CASE pop_head \/ pop_count
  BY <1>4 DEF pop_head, pop_count, ring, CopyInv
<1>5. CASE \/ logger_log \/ push_evict \/ push_store \/ push_advance \/ push_count \/ logger_log_return
           \/ logger_service \/ pop_empty \/ pop_test \/ pop_module \/ pop_head_store \/ pop_count_store
  BY <1>5 DEF logger_log, push_evict, push_store, push_advance, push_count, logger_log_return,
              logger_service, pop_empty, pop_test, pop_module, pop_head_store, pop_count_store, CopyInv
<1>6. CASE enter_section \/ leave_section \/ logger_set_module_level \/ UNCHANGED vars
  <2>1. UNCHANGED <<pc, entry, loaded, head, count, buffer>>
    BY <1>6 DEF enter_section, leave_section, logger_set_module_level, vars, ring
  <2> QED BY <1>1, <2>1 DEF LoggerInv, CopyInv
<1> QED BY <1>2, <1>3, <1>4, <1>5, <1>6 DEF Next

-----------------------------------------------------------------------------
(* The three cursors: each action that moves one of them.                   *)
LEMMA RingStep == LoggerInv /\ [Next]_vars => RingConsistent'
<1> SUFFICES ASSUME LoggerInv, [Next]_vars PROVE RingConsistent'
  OBVIOUS
<1>1. /\ N \in Nat /\ N > 0 /\ head \in Nat /\ head < N /\ tail \in Nat /\ tail < N
      /\ count \in Nat /\ count <= N
      /\ Uncounted \in {-1, 0, 1} /\ (Uncounted = -1 => count > 0) /\ (Uncounted = 1 => count < N)
  BY Cursors
<1>2. TypeOK' /\ RoomInv'
  BY TypeStep, RoomStep
<1>4. /\ head' \in Nat /\ head' < N /\ count' \in Nat /\ count' <= N
      /\ Uncounted' \in {-1, 0, 1} /\ (Uncounted' = -1 => count' > 0)
      /\ (Uncounted' = 1 => count' < N)
  <2>2. head' \in Nat /\ head' < N /\ count' \in Nat /\ count' <= N
    BY <1>2 DEF TypeOK, Slots, N
  <2>3. /\ Uncounted' \in {-1, 0, 1} /\ (Uncounted' = -1 => pc' \in InPop)
        /\ (Uncounted' = 1 => pc' = "count")
    BY DEF Uncounted, InPop
  <2> QED BY <1>2, <2>2, <2>3 DEF RoomInv
<1> SUFFICES ASSUME ~ raced' PROVE tail' = Folded(head' + count' + Uncounted')
  <2>1. head' + count' + Uncounted' \in Nat /\ head' + count' + Uncounted' <= 2 * N
    BY <1>1, <1>4, SumBounded, Zenon
  <2>2. (head' + count' + Uncounted') % N = Folded(head' + count' + Uncounted')
    BY <2>1, ModFolds
  <2> QED BY <1>2, <2>2 DEF RingConsistent, TypeOK, N
<1>0. ~ raced /\ (interrupt_log => ~ Spoils)
  BY RacedStays
<1>3. tail = Folded(head + count + Uncounted)
  BY <1>0, Cursors
<1>5. /\ Succ(head) = (IF head + 1 < N THEN head + 1 ELSE 0)
      /\ Succ(tail) = (IF tail + 1 < N THEN tail + 1 ELSE 0)
  BY SuccFolds DEF LoggerInv, TypeOK
<1>6. ASSUME UNCHANGED <<head, tail, count>>, Uncounted' = Uncounted
      PROVE  tail' = Folded(head' + count' + Uncounted')
  BY <1>3, <1>6
<1>7. CASE enter_section \/ leave_section \/ logger_set_module_level \/ logger_log
           \/ push_store \/ logger_log_return \/ logger_service \/ pop_empty \/ pop_test
           \/ pop_level \/ pop_module \/ pop_head \/ pop_count \/ UNCHANGED vars
  <2>1. UNCHANGED <<head, tail, count>>
    BY <1>7 DEF enter_section, leave_section, logger_set_module_level, logger_log, push_store,
                logger_log_return, logger_service, pop_empty, pop_test, pop_level, pop_module,
                pop_head, pop_count, vars, ring
  <2>2. Uncounted' = Uncounted
    BY <1>7 DEF enter_section, leave_section, logger_set_module_level, logger_log, push_store,
                logger_log_return, logger_service, pop_empty, pop_test, pop_level, pop_module,
                pop_head, pop_count, vars, Uncounted
  <2> QED BY <2>1, <2>2, <1>6
<1>8. CASE push_evict
  <2>1. Uncounted = 0 /\ Uncounted' = 0 /\ tail' = tail
    BY <1>8 DEF push_evict, Uncounted
  <2>2. CASE count = N
    <3>1. head' = Succ(head) /\ count' = count - 1
      BY <1>1, <1>8, <2>2 DEF push_evict, logger_buffer_is_full, N
    <3> QED BY <1>1, <1>3, <1>5, <2>1, <2>2, <3>1 DEF Folded
  <2>3. CASE count # N
    <3>1. head' = head /\ count' = count
      BY <1>1, <1>8, <2>3 DEF push_evict, logger_buffer_is_full, N
    <3> QED BY <1>3, <2>1, <3>1
  <2> QED BY <2>2, <2>3
<1>9. CASE push_advance
  <2>1. Uncounted = 0 /\ Uncounted' = 1 /\ UNCHANGED <<head, count>> /\ tail' = Succ(tail)
    BY <1>9 DEF push_advance, Uncounted
  <2>2. count < N
    BY <1>9 DEF push_advance, LoggerInv, RoomInv
  <2> QED BY <1>1, <1>3, <1>5, <2>1, <2>2 DEF Folded
<1>10. CASE push_count
  <2>1. Uncounted = 1 /\ Uncounted' = 0 /\ UNCHANGED <<head, tail>> /\ count' = count + 1
    BY <1>10 DEF push_count, Uncounted
  <2> QED BY <1>1, <1>3, <2>1
<1>11. CASE pop_head_store
  <2>1. Uncounted = 0 /\ Uncounted' = -1 /\ UNCHANGED <<tail, count>> /\ head' = Succ(head)
    BY <1>0, <1>11 DEF pop_head_store, Uncounted, LoggerInv, CopyInv
  <2>2. count > 0
    BY <1>11 DEF pop_head_store, LoggerInv, RoomInv, InPop
  <2> QED BY <1>1, <1>3, <1>5, <2>1, <2>2 DEF Folded
<1>12. CASE pop_count_store
  <2>1. Uncounted = -1 /\ Uncounted' = 0 /\ UNCHANGED <<head, tail>> /\ count' = count - 1
    BY <1>0, <1>12 DEF pop_count_store, Uncounted, LoggerInv, CopyInv
  <2> QED BY <1>1, <1>3, <2>1
<1>13. CASE interrupt_log
  <2>1. pc' = pc /\ pc \notin Pushing
    BY <1>13 DEF interrupt_log, LoggerInv, GuardInv, TypeOK
  <2>2. Uncounted \in {-1, 0} /\ Uncounted' = Uncounted /\ tail' = Succ(tail)
    BY <1>13, <2>1 DEF interrupt_log, Uncounted, Pushing
  <2>3. CASE count = N
    <3>1. head' = Succ(head) /\ count' = count
      BY <1>1, <1>13, <2>3 DEF interrupt_log, logger_buffer_is_full, N
    <3> QED BY <1>1, <1>3, <1>5, <2>2, <2>3, <3>1 DEF Folded
  <2>4. CASE count # N
    <3>1. head' = head /\ count' = count + 1
      BY <1>1, <1>13, <2>4 DEF interrupt_log, logger_buffer_is_full, N
    <3> QED BY <1>1, <1>3, <1>5, <2>2, <2>4, <3>1 DEF Folded
  <2> QED BY <2>3, <2>4
<1> QED BY <1>7, <1>8, <1>9, <1>10, <1>11, <1>12, <1>13 DEF Next

-----------------------------------------------------------------------------
(* The invariant holds always.                                              *)
LEMMA LoggerSafe == Spec => []LoggerInv
<1>1. LoggerInv /\ [Next]_vars => LoggerInv'
  BY TypeStep, GuardStep, RoomStep, CopyStep, RingStep DEF LoggerInv
<1> QED BY <1>1, LoggerInit, PTL DEF Spec

(* The indices never leave the ring and the guard counter never leaves its  *)
(* range, for every LOG_BUFFER_SIZE.                                        *)
THEOREM TypeCorrect == Spec => []TypeOK
<1>1. LoggerInv => TypeOK
  BY DEF LoggerInv
<1> QED BY <1>1, LoggerSafe, PTL

(* head, tail and count agree after every statement of a push and a pop,    *)
(* wherever handlers push, as long as none pushes into the windows of       *)
(* Spoils; and they stay inside the ring even then.                         *)
THEOREM CursorsAgree == Spec => []RingConsistent
<1>1. LoggerInv => RingConsistent
  BY DEF LoggerInv
<1> QED BY <1>1, LoggerSafe, PTL

(* No handler enters a guarded region, nested or not.                       *)
THEOREM GuardSafe == Spec => []GuardHolds
<1>1. LoggerInv => GuardHolds
  <2> SUFFICES ASSUME LoggerInv, section \/ pc \in Pushing
               PROVE  ~ iflag /\ interrupt_guard_counter > 0
    BY DEF GuardHolds, Pushing
  <2>1. interrupt_guard_counter > 0
    BY DEF LoggerInv, GuardInv
  <2> QED BY <2>1 DEF LoggerInv, GuardInv, TypeOK
<1> QED BY <1>1, LoggerSafe, PTL

-----------------------------------------------------------------------------
(* The n slots of b from h on, around the end of the ring.                  *)
Window(b, h, n) == [i \in 1 .. n |-> b[(h + i - 1) % LOG_BUFFER_SIZE]]

(* A window is a sequence of n entries.                                     *)
LEMMA WindowSeq ==
  ASSUME NEW b, NEW h, NEW n \in Nat
  PROVE  /\ Len(Window(b, h, n)) = n /\ DOMAIN Window(b, h, n) = 1 .. n
         /\ Window(b, h, n) = <<>> <=> n = 0
BY DEF Window

(* One slot more is one entry more at its end.                              *)
LEMMA WindowAppend ==
  ASSUME NEW b, NEW h \in Slots, NEW n \in Nat
  PROVE  Window(b, h, n + 1) = Append(Window(b, h, n), b[(h + n) % LOG_BUFFER_SIZE])
<1> DEFINE x == b[(h + n) % LOG_BUFFER_SIZE]
           s == Window(b, h, n)
           w == Window(b, h, n + 1)
<1>1. /\ \A i \in 1 .. n : w[i] = s[i]
      /\ w[n + 1] = x
  <2>1. h + (n + 1) - 1 = h + n
    BY DEF Slots
  <2>2. n \in 0 .. n + 1 /\ n + 1 \in 1 .. n + 1 /\ \A i \in 1 .. n : i \in 1 .. n + 1
    OBVIOUS
  <2>3. w[n + 1] = b[(h + (n + 1) - 1) % LOG_BUFFER_SIZE]
    BY <2>2 DEF Window
  <2>4. \A i \in 1 .. n : w[i] = s[i]
    BY <2>2 DEF Window
  <2> QED BY <2>1, <2>3, <2>4
<1>2. /\ s = [i \in 1 .. n |-> s[i]] /\ w = [i \in 1 .. n + 1 |-> w[i]]
      /\ Len(s) = n
  BY DEF Window
<1> HIDE DEF x, s, w
<1>3. Append(s, x) = [i \in 1 .. n + 1 |-> IF i = n + 1 THEN x ELSE s[i]]
  BY <1>2
<1>4. \A i \in 1 .. n + 1 : w[i] = IF i = n + 1 THEN x ELSE s[i]
  BY <1>1
<1>5. w = [i \in 1 .. n + 1 |-> IF i = n + 1 THEN x ELSE s[i]]
  BY <1>2, <1>4, Zenon
<1> QED BY <1>3, <1>5, Zenon DEF x, s, w

(* One slot later is one entry less at its front.                           *)
LEMMA WindowTail ==
  ASSUME NEW b, NEW h \in Slots, NEW n \in 1 .. LOG_BUFFER_SIZE
  PROVE  /\ Head(Window(b, h, n)) = b[h]
         /\ Tail(Window(b, h, n)) = Window(b, Succ(h), n - 1)
<1>1. N \in Nat /\ N > 0 /\ h \in Nat /\ h < N /\ n \in Nat /\ n > 0 /\ n <= N
  BY DEF Slots, N
<1>2. ASSUME NEW i \in 1 .. n - 1
      PROVE  (h + (i + 1) - 1) % N = (Succ(h) + i - 1) % N
  <2>1. h + i \in Nat /\ h + i <= 2 * N
    BY <1>1
  <2>2. Succ(h) \in Nat /\ Succ(h) + i - 1 \in Nat /\ Succ(h) + i - 1 <= 2 * N
    BY <1>1, SuccFolds DEF Slots, N
  <2>3. (h + i) % N = Folded(h + i) /\ (Succ(h) + i - 1) % N = Folded(Succ(h) + i - 1)
    BY <2>1, <2>2, ModFolds
  <2>4. Folded(h + i) = Folded(Succ(h) + i - 1)
    BY <1>1, SuccFolds DEF Folded
  <2>5. h + (i + 1) - 1 = h + i
    BY <1>1
  <2> QED BY <2>3, <2>4, <2>5
<1>3. (h + 1 - 1) % N = h
  BY <1>1, ModFolds DEF Folded
<1>4. Head(Window(b, h, n)) = b[h]
  BY <1>1, <1>3 DEF Window, N
<1>5. Tail(Window(b, h, n)) = [i \in 1 .. n - 1 |-> b[(h + (i + 1) - 1) % N]]
  <2> DEFINE s == Window(b, h, n)
  <2>1. s = [i \in 1 .. n |-> s[i]] /\ Len(s) = n
    BY <1>1 DEF Window
  <2>2. \A i \in 1 .. n - 1 : s[i + 1] = b[(h + (i + 1) - 1) % N]
    BY <1>1 DEF Window, N
  <2> HIDE DEF s
  <2>3. Tail(s) = [i \in 1 .. n - 1 |-> s[i + 1]]
    BY <1>1, <2>1
  <2>4. Tail(s) = [i \in 1 .. n - 1 |-> b[(h + (i + 1) - 1) % N]]
    BY <2>2, <2>3
  <2> QED BY <2>4 DEF s
<1>6. Window(b, Succ(h), n - 1) = [i \in 1 .. n - 1 |-> b[(Succ(h) + i - 1) % N]]
  BY DEF Window, N
<1> QED BY <1>2, <1>4, <1>5, <1>6, Zenon

(* Writing the slot behind the window leaves the window alone.              *)
LEMMA WindowKept ==
  ASSUME NEW b, NEW c, NEW h \in Slots, NEW n \in Nat, n < N,
         \A j \in Slots : j # (h + n) % N => c[j] = b[j]
  PROVE  Window(c, h, n) = Window(b, h, n)
<1>1. N \in Nat /\ N > 0 /\ h \in Nat /\ h < N
  BY DEF Slots, N
<1>2. ASSUME NEW i \in 1 .. n
      PROVE  (h + i - 1) % N # (h + n) % N /\ (h + i - 1) % N \in Slots
  <2>1. h + i - 1 \in Nat /\ h + i - 1 <= 2 * N /\ h + n \in Nat /\ h + n <= 2 * N
    BY <1>1
  <2>2. (h + i - 1) % N = Folded(h + i - 1) /\ (h + n) % N = Folded(h + n)
    BY <2>1, ModFolds
  <2>3. Folded(h + i - 1) # Folded(h + n) /\ Folded(h + i - 1) \in 0 .. N - 1
    BY <1>1 DEF Folded
  <2> QED BY <2>2, <2>3 DEF Slots, N
<1>3. \A i \in 1 .. n : c[(h + i - 1) % N] = b[(h + i - 1) % N]
  BY <1>2
<1> QED BY <1>3 DEF Window, N

-----------------------------------------------------------------------------
(* Where a push has put its entry.                                          *)
StoredInv ==
  ~ raced /\ pc \in {"advance", "count"} => buffer[(head + count) % LOG_BUFFER_SIZE] = entry

(* The invariant that the refinement needs.                                 *)
QueueInv == LoggerInv /\ StoredInv

(* Handlers do not change what a push has stored.                           *)
LEMMA StoredStep == QueueInv /\ [Next]_vars => StoredInv'
<1> SUFFICES ASSUME QueueInv, [Next]_vars PROVE StoredInv'
  OBVIOUS
<1>1. CASE logger_log
  BY <1>1 DEF logger_log, StoredInv
<1>2. CASE push_store
  <2>1. /\ pc' = "advance" /\ entry' = entry /\ head' = head /\ count' = count
        /\ buffer' = [buffer EXCEPT ![tail] = entry]
    BY <1>2 DEF push_store
  <2>2. tail \in Slots /\ buffer \in [Slots -> LogEntry \cup {NoEntry}]
    BY DEF QueueInv, LoggerInv, TypeOK
  <2>3. Uncounted = 0
    BY <1>2 DEF push_store, Uncounted
  <2>4. ~ raced => tail = (head + count) % LOG_BUFFER_SIZE
    BY <2>3 DEF QueueInv, LoggerInv, RingConsistent, TypeOK, Slots
  <2>5. raced' = raced
    BY <1>2 DEF push_store
  <2> QED BY <2>1, <2>2, <2>4, <2>5 DEF StoredInv
<1>3. CASE push_advance
  BY <1>3 DEF push_advance, QueueInv, StoredInv
<1>4. CASE interrupt_log
  <2>1. pc \notin Pushing
    BY <1>4 DEF interrupt_log, QueueInv, LoggerInv, GuardInv
  <2>2. pc' = pc
    BY <1>4 DEF interrupt_log
  <2> QED BY <2>1, <2>2 DEF Pushing, StoredInv
<1>5. CASE \/ enter_section \/ leave_section \/ logger_set_module_level
           \/ push_evict \/ push_count \/ logger_log_return
           \/ logger_service \/ pop_empty \/ pop_test \/ pop_level \/ pop_module
           \/ pop_head \/ pop_head_store \/ pop_count \/ pop_count_store
  BY <1>5 DEF enter_section, leave_section, logger_set_module_level, push_evict, push_count,
              logger_log_return, logger_service, pop_empty, pop_test, pop_level, pop_module,
              pop_head, pop_head_store, pop_count, pop_count_store, StoredInv
<1>6. CASE UNCHANGED vars
  BY <1>6 DEF vars, ring, QueueInv, StoredInv
<1> QED BY <1>1, <1>2, <1>3, <1>4, <1>5, <1>6 DEF Next

(* It holds always.                                                         *)
LEMMA QueueSafe == Spec => []QueueInv
<1>1. Init => QueueInv
  BY LoggerInit DEF QueueInv, StoredInv, Init
<1>2. QueueInv /\ [Next]_vars => QueueInv'
  BY StoredStep, TypeStep, GuardStep, RoomStep, CopyStep, RingStep DEF QueueInv, LoggerInv
<1> QED BY <1>1, <1>2, PTL DEF Spec

(* An entry is its level and its module.                                    *)
LEMMA TwoFields ==
  \A e \in LogEntry \cup {NoEntry} : e = [level |-> e.level, module |-> e.module]
<1>1. \A e \in LogEntry : e = [level |-> e.level, module |-> e.module]
  BY DEF LogEntry
<1>2. NoEntry = [level |-> NoEntry.level, module |-> NoEntry.module]
  BY DEF NoEntry
<1> QED
  BY <1>1, <1>2, Zenon

(* Every step of the logger is a step of the queue or leaves it alone: a    *)
(* push counts from the moment it has made room, a pop from its copy.       *)
LEMMA QueueStep == QueueInv /\ [Next]_vars => [raced' \/ Queue!QueueNext]_(Queue!QueueVars)
<1> SUFFICES ASSUME QueueInv, [Next]_vars, ~ raced'
             PROVE  Queue!QueueNext \/ (Pending' = Pending /\ Last' = Last)
  BY DEF Queue!QueueVars
<1>1. /\ head \in Slots /\ tail \in Slots /\ count \in Nat /\ count <= LOG_BUFFER_SIZE
      /\ buffer \in [Slots -> LogEntry \cup {NoEntry}] /\ N \in Nat /\ N > 0
  BY DEF QueueInv, LoggerInv, TypeOK, N
<1>2. \A h, n : RingSeq(h, n) = Window(buffer, h, n)
  BY DEF RingSeq, Window
<1>3. /\ Pending = (CASE pc \in {"store", "advance", "count"} -> Append(Window(buffer, head, count), entry)
                      [] pc \in {"pop_head", "pop_head_store"}   -> Window(buffer, Succ(head), count - 1)
                      [] pc \in {"pop_count", "pop_count_store"} -> Window(buffer, head, count - 1)
                      [] OTHER -> Window(buffer, head, count))
      /\ Pending' = (CASE pc' \in {"store", "advance", "count"} -> Append(Window(buffer', head', count'), entry')
                      [] pc' \in {"pop_head", "pop_head_store"}   -> Window(buffer', Succ(head'), count' - 1)
                      [] pc' \in {"pop_count", "pop_count_store"} -> Window(buffer', head', count' - 1)
                      [] OTHER -> Window(buffer', head', count'))
  BY Zenon DEF Pending, RingSeq, Window, Succ
<1>4. \A e : Queue!Push(e) <=>
        /\ Pending' = Append(IF Len(Pending) = LOG_BUFFER_SIZE THEN Tail(Pending) ELSE Pending, e)
        /\ Last' = Last
  BY DEF Queue!Push
<1>5. (\E e \in LogEntry : Queue!Push(e)) => Queue!QueueNext
  BY Zenon DEF Queue!QueueNext
<1>6. /\ Len(Window(buffer, head, count)) = count
      /\ Window(buffer, head, count) = <<>> <=> count = 0
  BY <1>1, WindowSeq
<1>7. /\ pc \in Pushing \cup {"idle", "pop"} \cup InPop
      /\ Last = (IF pc \in Popped THEN <<entry>> ELSE printed)
      /\ Last' = (IF pc' \in Popped THEN <<entry'>> ELSE printed')
  BY DEF QueueInv, LoggerInv, TypeOK, Pushing, InPop, Last
<1>0. ~ raced /\ (interrupt_log => ~ Spoils)
  BY RacedStays DEF QueueInv
<1>8. CASE \/ enter_section \/ leave_section \/ logger_set_module_level \/ logger_log
           \/ logger_log_return \/ logger_service \/ pop_empty \/ pop_test \/ pop_level
  <2>1. /\ pc \in {"idle", "release", "pop", "pop_level"}
        /\ pc' \in {"idle", "evict", "pop", "pop_level", "pop_module"}
        /\ UNCHANGED <<buffer, head, count, printed>>
    BY <1>8 DEF enter_section, leave_section, logger_set_module_level, logger_log,
                logger_log_return, logger_service, pop_empty, pop_test, pop_level, ring
  <2> QED BY <1>3, <1>7, <2>1 DEF Popped
<1>9. CASE push_evict
  <2>1. /\ pc = "evict" /\ pc' = "store" /\ entry' = entry /\ buffer' = buffer /\ printed' = printed
        /\ entry \in LogEntry
    BY <1>9 DEF push_evict, QueueInv, LoggerInv, RoomInv
  <2>2. Last' = Last /\ Pending = Window(buffer, head, count)
        /\ Pending' = Append(Window(buffer, head', count'), entry)
    BY <1>3, <1>7, <2>1 DEF Popped
  <2>3. CASE count = LOG_BUFFER_SIZE
    <3>1. head' = Succ(head) /\ count' = count - 1
      BY <1>9, <2>3 DEF push_evict, logger_buffer_is_full
    <3>2. Tail(Window(buffer, head, count)) = Window(buffer, Succ(head), count - 1)
      BY <1>1, <2>3, WindowTail
    <3> QED BY <1>4, <1>5, <1>6, <2>1, <2>2, <2>3, <3>1, <3>2
  <2>4. CASE count # LOG_BUFFER_SIZE
    <3>1. head' = head /\ count' = count
      BY <1>1, <1>9, <2>4 DEF push_evict, logger_buffer_is_full
    <3> QED BY <1>4, <1>5, <1>6, <2>1, <2>2, <2>4, <3>1
  <2> QED BY <2>3, <2>4
<1>10. CASE push_store
  <2>1. /\ pc = "store" /\ pc' = "advance" /\ UNCHANGED <<head, count, entry, printed>>
        /\ buffer' = [buffer EXCEPT ![tail] = entry]
    BY <1>10 DEF push_store
  <2>2. count < N /\ tail = (head + count) % N
    BY <1>0, <1>1, <2>1 DEF QueueInv, LoggerInv, RoomInv, RingConsistent, Uncounted, Slots, N
  <2>3. Window(buffer', head, count) = Window(buffer, head, count)
    <3>1. \A j \in Slots : j # (head + count) % N => buffer'[j] = buffer[j]
      BY <1>1, <2>1, <2>2
    <3> QED BY <1>1, <2>2, <3>1, WindowKept
  <2>4. Last' = Last
    BY <1>7, <2>1 DEF Popped
  <2> QED BY <1>3, <2>1, <2>3, <2>4, Zenon
<1>11. CASE push_advance
  BY <1>3, <1>7, <1>11 DEF push_advance, Popped
<1>12. CASE push_count
  <2>1. /\ pc = "count" /\ pc' = "release" /\ UNCHANGED <<buffer, head, entry, printed>>
        /\ count' = count + 1 /\ buffer[(head + count) % LOG_BUFFER_SIZE] = entry
    BY <1>0, <1>12 DEF push_count, QueueInv, StoredInv
  <2>2. Window(buffer, head, count + 1) = Append(Window(buffer, head, count), entry)
    BY <1>1, <2>1, WindowAppend, Zenon
  <2> QED BY <1>3, <1>7, <2>1, <2>2 DEF Popped
<1>13. CASE pop_module
  <2>1. /\ pc = "pop_module" /\ pc' = "pop_head" /\ UNCHANGED <<buffer, head, count, printed>>
        /\ entry' = [entry EXCEPT !.module = buffer[loaded].module]
    BY <1>13 DEF pop_module, ring
  <2>2. entry' = buffer[head] /\ count # 0
    <3>1. loaded = head /\ entry.level = buffer[head].level /\ count > 0
      BY <1>0, <2>1 DEF QueueInv, LoggerInv, CopyInv, RoomInv, InPop
    <3>2. entry' = [level |-> buffer[head].level, module |-> buffer[head].module]
      BY <2>1, <3>1 DEF QueueInv, LoggerInv, TypeOK
    <3>3. buffer[head] \in LogEntry \cup {NoEntry}
      BY <1>1
    <3>4. buffer[head] = [level |-> buffer[head].level, module |-> buffer[head].module]
      BY <3>3, TwoFields, Zenon
    <3> QED BY <1>1, <3>1, <3>2, <3>4
  <2>3. /\ Head(Window(buffer, head, count)) = buffer[head]
        /\ Tail(Window(buffer, head, count)) = Window(buffer, Succ(head), count - 1)
    <3>1. head \in Slots /\ count \in 1 .. LOG_BUFFER_SIZE
      BY <1>1, <2>2 DEF N
    <3> QED BY <3>1, WindowTail, Zenon
  <2>4. /\ Pending = Window(buffer, head, count) /\ Pending # <<>>
        /\ Pending' = Window(buffer, Succ(head), count - 1) /\ Last' = <<buffer[head]>>
    BY <1>3, <1>6, <1>7, <2>1, <2>2 DEF Popped
  <2>5. Pending # <<>> /\ Pending' = Tail(Pending) /\ Last' = <<Head(Pending)>>
    BY <2>3, <2>4
  <2> QED BY <2>5, Zenon DEF Queue!QueueNext, Queue!Pop
<1>14. CASE pop_head \/ pop_count
  <2>1. /\ \/ pc = "pop_head" /\ pc' = "pop_head_store"
           \/ pc = "pop_count" /\ pc' = "pop_count_store"
        /\ UNCHANGED <<buffer, head, count, entry, printed>>
    BY <1>14 DEF pop_head, pop_count, ring
  <2> QED BY <1>3, <1>7, <2>1 DEF Popped
<1>15. CASE pop_head_store
  <2>1. /\ pc = "pop_head_store" /\ pc' = "pop_count" /\ UNCHANGED <<buffer, count, entry, printed>>
        /\ head' = Succ(head)
    BY <1>0, <1>15 DEF pop_head_store, QueueInv, LoggerInv, CopyInv
  <2> QED BY <1>3, <1>7, <2>1 DEF Popped
<1>18. CASE pop_count_store
  <2>1. /\ pc = "pop_count_store" /\ pc' = "pop" /\ UNCHANGED <<buffer, head, entry>>
        /\ count' = count - 1 /\ printed' = <<entry>>
    BY <1>0, <1>18 DEF pop_count_store, QueueInv, LoggerInv, CopyInv
  <2> QED BY <1>3, <1>7, <2>1 DEF Popped
<1>16. CASE interrupt_log
  <2>1. PICK e \in LogEntry : buffer' = [buffer EXCEPT ![tail] = e]
    BY <1>16, Zenon DEF interrupt_log
  <2>2. /\ pc \in {"idle", "pop"} \cup InPop /\ pc # "pop_count_store"
        /\ UNCHANGED <<pc, entry, printed>>
    <3>1. pc \notin Pushing
      BY <1>16 DEF interrupt_log, QueueInv, LoggerInv, GuardInv
    <3>2. UNCHANGED <<pc, entry, printed>>
      BY <1>16 DEF interrupt_log
    <3> QED BY <1>0, <1>7, <1>16, <3>1, <3>2 DEF Spoils
  <2>3. Last' = Last
    BY <1>7, <2>2
  <2>4. tail = (head + count + Uncounted) % N
    BY <1>0, <1>1 DEF QueueInv, LoggerInv, RingConsistent, N
  <2>5. ASSUME NEW h \in Slots, NEW n \in Nat, n < N, tail = (h + n) % N
        PROVE  Window(buffer', h, n + 1) = Append(Window(buffer, h, n), e)
    <3>1. Window(buffer', h, n) = Window(buffer, h, n)
      <4>1. \A j \in Slots : j # (h + n) % N => buffer'[j] = buffer[j]
        BY <1>1, <2>1, <2>5
      <4>2. h \in Slots /\ n \in Nat /\ n < N
        BY <2>5
      <4> QED BY ONLY <4>1, <4>2, WindowKept
    <3>2. buffer'[(h + n) % LOG_BUFFER_SIZE] = e
      BY <1>1, <2>1, <2>5 DEF N
    <3> QED BY <2>5, <3>1, <3>2, WindowAppend, Zenon
  <2>6. CASE count = LOG_BUFFER_SIZE
    <3>1. head' = Succ(head) /\ count' = count
      BY <1>16, <2>6 DEF interrupt_log, logger_buffer_is_full
    <3>2. Tail(Window(buffer, head, count)) = Window(buffer, Succ(head), count - 1)
      BY <1>1, <2>6, WindowTail
    <3>6. pc \in {"idle", "pop", "pop_level"}
      BY <1>0, <1>1, <1>16, <2>2, <2>6 DEF Spoils, InPop, logger_buffer_is_full, N
    <3>7. Pending = Window(buffer, head, count) /\ Pending' = Window(buffer', head', count')
      BY <1>3, <2>2, <3>6
    <3>3. tail = (Succ(head) + (N - 1)) % N
      <4>0. Uncounted = 0
        BY <3>6 DEF Uncounted
      <4>1. head \in Nat /\ head < N /\ tail = (head + N) % N
        BY <1>1, <2>4, <2>6, <4>0 DEF Slots, N
      <4>2. (head + N) % N = Folded(head + N)
        BY <1>1, <4>1, ModFolds
      <4>3. /\ Succ(head) = (IF head + 1 < N THEN head + 1 ELSE 0)
            /\ Succ(head) \in Nat /\ Succ(head) < N
        BY <1>1, <4>1, SuccFolds
      <4>4. (Succ(head) + (N - 1)) % N = Folded(Succ(head) + (N - 1))
        BY <1>1, <4>3, ModFolds
      <4>5. Folded(head + N) = Folded(Succ(head) + (N - 1))
        BY <1>1, <4>1, <4>3 DEF Folded
      <4> QED BY <4>1, <4>2, <4>4, <4>5
    <3>4. Window(buffer', Succ(head), (N - 1) + 1) = Append(Window(buffer, Succ(head), N - 1), e)
      <4>1. Succ(head) \in Slots /\ N - 1 \in Nat /\ N - 1 < N
        BY <1>1, SuccFolds
      <4> QED BY <2>5, <3>3, <4>1
    <3>5. Pending' = Append(Tail(Pending), e) /\ Len(Pending) = LOG_BUFFER_SIZE
      BY <1>1, <1>6, <2>6, <3>1, <3>2, <3>4, <3>7 DEF N
    <3> QED BY <1>4, <1>5, <2>3, <3>5
  <2>7. ASSUME NEW h \in Slots, NEW n \in Nat, n < N, tail = (h + n) % N,
               Pending = Window(buffer, h, n), Pending' = Window(buffer', h, n + 1)
        PROVE  Queue!QueueNext
    <3>1. Pending' = Append(Pending, e)
      BY <2>5, <2>7
    <3>2. Len(Pending) # LOG_BUFFER_SIZE
      BY <1>1, <2>7, WindowSeq DEF N
    <3> QED BY <1>4, <1>5, <2>3, <3>1, <3>2
  <2>8. CASE count # LOG_BUFFER_SIZE
    <3>1. head' = head /\ count' = count + 1 /\ count < N
      BY <1>1, <1>16, <2>8 DEF interrupt_log, logger_buffer_is_full, N
    <3>2. CASE pc \in {"idle", "pop", "pop_level", "pop_module"}
      <4>1. Uncounted = 0 /\ tail = (head + count) % N
        BY <1>1, <2>4, <3>2 DEF Uncounted, Slots
      <4>2. Pending = Window(buffer, head, count) /\ Pending' = Window(buffer', head, count + 1)
        BY <1>3, <2>2, <3>1, <3>2
      <4> QED BY <1>1, <2>7, <3>1, <4>1, <4>2
    <3>3. CASE pc \in {"pop_head", "pop_head_store"}
      <4>1. Uncounted = 0 /\ tail = (head + count) % N /\ count > 0
        BY <1>1, <2>4, <3>3 DEF Uncounted, Slots, QueueInv, LoggerInv, RoomInv, InPop
      <4>2. tail = (Succ(head) + (count - 1)) % N
        <5>1. head \in Nat /\ head < N
          BY <1>1 DEF Slots, N
        <5>2. (head + count) % N = Folded(head + count)
          BY <1>1, <3>1, <5>1, ModFolds
        <5>3. /\ Succ(head) = (IF head + 1 < N THEN head + 1 ELSE 0)
              /\ Succ(head) \in Nat /\ Succ(head) < N
          BY <1>1, <5>1, SuccFolds
        <5>4. (Succ(head) + (count - 1)) % N = Folded(Succ(head) + (count - 1))
          <6>1. Succ(head) + (count - 1) \in Nat /\ Succ(head) + (count - 1) <= 2 * N
            BY <1>1, <3>1, <4>1, <5>3
          <6> QED BY <6>1, ModFolds
        <5>5. Folded(head + count) = Folded(Succ(head) + (count - 1))
          BY <1>1, <3>1, <4>1, <5>1, <5>3 DEF Folded
        <5> QED BY <4>1, <5>2, <5>4, <5>5
      <4>3. Pending = Window(buffer, Succ(head), count - 1)
            /\ Pending' = Window(buffer', Succ(head), count' - 1)
        BY <1>3, <2>2, <3>1, <3>3
      <4>4. count' - 1 = (count - 1) + 1 /\ count - 1 \in Nat /\ count - 1 < N
        BY <1>1, <3>1, <4>1
      <4>5. Succ(head) \in Slots
        BY <1>1, SuccFolds
      <4> QED BY <2>7, <4>2, <4>3, <4>4, <4>5
    <3>4. CASE pc = "pop_count"
      <4>1. Uncounted = -1 /\ count > 0
        BY <3>4 DEF Uncounted, QueueInv, LoggerInv, RoomInv, InPop
      <4>2. tail = (head + (count - 1)) % N
        <5>1. head + count + Uncounted = head + (count - 1)
          BY <1>1, <4>1 DEF Slots
        <5> QED BY <2>4, <5>1
      <4>3. Pending = Window(buffer, head, count - 1) /\ Pending' = Window(buffer', head, count' - 1)
        BY <1>3, <2>2, <3>1, <3>4
      <4>4. count' - 1 = (count - 1) + 1 /\ count - 1 \in Nat /\ count - 1 < N
        BY <1>1, <3>1, <4>1
      <4> QED BY <1>1, <2>7, <4>2, <4>3, <4>4
    <3> QED BY <2>2, <3>2, <3>3, <3>4 DEF InPop
  <2> QED BY <2>6, <2>8
<1>17. CASE UNCHANGED vars
  BY <1>3, <1>7, <1>17 DEF vars, ring
<1> QED BY <1>8, <1>9, <1>10, <1>11, <1>12, <1>13, <1>14, <1>15, <1>16, <1>17, <1>18 DEF Next

(* The ring is a queue that forgets its oldest entry, for every size of the *)
(* ring: messages are printed whole and in the order they were logged, and  *)
(* only a full ring loses one, the oldest.  Handlers may log between any    *)
(* two accesses of the main thread, those of a pop included; the queue is   *)
(* lost only if one pushes into a window of Spoils.                         *)
THEOREM QueueRefined == Spec => ImplementsQueue
<1>1. Init => Queue!QueueInit
  <2> SUFFICES ASSUME Init PROVE Pending = <<>> /\ Last = <<>>
    BY DEF Queue!QueueInit
  <2>1. Pending = Window(buffer, head, 0) /\ Last = <<>>
    BY DEF Init, Pending, Last, Popped, RingSeq, Window
  <2> QED BY <2>1, WindowSeq
<1> QED BY <1>1, QueueStep, QueueSafe, PTL DEF Spec, ImplementsQueue

=============================================================================

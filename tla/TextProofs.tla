----------------------------- MODULE TextProofs -----------------------------
(***************************************************************************)
(* Proofs for modules Numbers and Text: what the functions that write      *)
(* numbers and messages leave in their buffers, for words of any size, for *)
(* every number, every format and every argument.  What they write is      *)
(* defined by recursion over data, so the module begins with what makes a  *)
(* recursive definition usable in a proof.                                 *)
(***************************************************************************)
EXTENDS Text, WellFoundedInduction, TLAPS

-----------------------------------------------------------------------------
(* Induction and recursion over the natural numbers, from the fact that     *)
(* their order is well-founded.                                             *)

(* A set of natural numbers that is not empty has a least element.          *)
LEMMA Least ==
  ASSUME NEW T \in SUBSET Nat, T # {}
  PROVE  \E x \in T : \A y \in T : x <= y
<1> DEFINE R == OpToRel(<, Nat)
<1>1. \A x, y \in Nat : x < y => <<x, y>> \in R
  BY DEF OpToRel
<1>2. IsWellFoundedOn(R, Nat)
  BY NatLessThanWellFounded, Zenon
<1> HIDE DEF R
<1>3. PICK x \in T : \A y \in T : ~ (<<y, x>> \in R)
  BY <1>2, WFMin, Zenon
<1>4. \A y \in T : ~ (y < x)
  BY <1>1, <1>3, Zenon
<1> QED
  BY <1>4

(* Induction, for a set.                                                    *)
LEMMA SetInduction ==
  ASSUME NEW S, 0 \in S, \A n \in Nat : n \in S => n + 1 \in S
  PROVE  Nat \subseteq S
<1> SUFFICES ASSUME ~ (Nat \subseteq S) PROVE FALSE
  OBVIOUS
<1>1. PICK x \in Nat \ S : \A y \in Nat \ S : x <= y
  BY Least, Zenon
<1>2. x - 1 \in Nat /\ x - 1 \in S
  BY <1>1
<1> QED
  BY <1>2

(* Equations for a function on the natural numbers, as a function           *)
(* themselves: G[n][f] is what f[n] is to be.                               *)
Functional(S) == [Nat -> [[Nat -> S] -> S]]

(* The equation for n looks at earlier values only.                         *)
Earlier(G, S) ==
  \A n \in Nat : \A g, h \in [Nat -> S] :
     (\A m \in 0 .. n - 1 : g[m] = h[m]) => G[n][g] = G[n][h]

(* The functions that satisfy the equations below n.                        *)
Upto(G, S, n) == {g \in [Nat -> S] : \A m \in 0 .. n - 1 : g[m] = G[m][g]}

(* They agree there, ...                                                    *)
LEMMA UptoUnique ==
  ASSUME NEW S, NEW G \in Functional(S), Earlier(G, S), NEW n \in Nat,
         NEW g \in Upto(G, S, n), NEW h \in Upto(G, S, n)
  PROVE  \A m \in 0 .. n - 1 : g[m] = h[m]
<1> SUFFICES ASSUME NEW k \in 0 .. n - 1, g[k] # h[k] PROVE FALSE
  OBVIOUS
<1> DEFINE T == {m \in Nat : m < n /\ g[m] # h[m]}
<1>0. T \in SUBSET Nat /\ T # {}
  OBVIOUS
<1>1. PICK x \in T : \A y \in T : x <= y
  <2> HIDE DEF T
  <2> QED
    BY <1>0, Least
<1>2. \A m \in 0 .. x - 1 : g[m] = h[m]
  BY <1>1
<1>3. G[x][g] = G[x][h]
  BY <1>1, <1>2 DEF Earlier, Upto
<1> QED
  BY <1>1, <1>3 DEF Upto

(* ... and there are some.                                                  *)
LEMMA UptoExists ==
  ASSUME NEW S, S # {}, NEW G \in Functional(S), Earlier(G, S)
  PROVE  \A n \in Nat : Upto(G, S, n) # {}
<1> DEFINE T == {n \in Nat : Upto(G, S, n) # {}}
<1>1. 0 \in T
  <2> PICK s \in S : TRUE
    OBVIOUS
  <2> [n \in Nat |-> s] \in Upto(G, S, 0)
    BY DEF Upto
  <2> QED
    OBVIOUS
<1>2. ASSUME NEW n \in T PROVE n + 1 \in T
  <2> PICK g \in Upto(G, S, n) : TRUE
    OBVIOUS
  <2> DEFINE h == [g EXCEPT ![n] = G[n][g]]
  <2>1. g \in [Nat -> S] /\ G[n][g] \in S
    BY DEF Upto, Functional
  <2>2. h \in [Nat -> S]
    BY <2>1
  <2>3. \A m \in 0 .. n : \A k \in 0 .. m - 1 : g[k] = h[k]
    BY <2>1
  <2>4. \A m \in 0 .. n : G[m][g] = G[m][h]
    <3> HIDE DEF h
    <3> TAKE m \in 0 .. n
    <3>1. m \in Nat /\ \A k \in 0 .. m - 1 : g[k] = h[k]
      BY <2>3
    <3> QED
      BY <2>1, <2>2, <3>1 DEF Earlier
  <2>5. \A m \in 0 .. n : h[m] = G[m][g]
    BY <2>1 DEF Upto
  <2>6. h \in Upto(G, S, n + 1)
    <3> HIDE DEF h
    <3> QED
      BY <2>2, <2>4, <2>5 DEF Upto
  <2> QED
    BY <2>6
<1> HIDE DEF T
<1>3. Nat \subseteq T
  BY <1>1, <1>2, SetInduction
<1> QED
  BY <1>3 DEF T

(* So the equations have a solution: course-of-values recursion.            *)
LEMMA Recursion ==
  ASSUME NEW S, S # {}, NEW G \in Functional(S), Earlier(G, S)
  PROVE  \E f \in [Nat -> S] : \A n \in Nat : f[n] = G[n][f]
<1> DEFINE pick(n) == CHOOSE g \in Upto(G, S, n + 1) : TRUE
           f == [n \in Nat |-> pick(n)[n]]
<1>1. \A n \in Nat : pick(n) \in Upto(G, S, n + 1)
  BY UptoExists
<1>2. \A n \in Nat : pick(n) \in [Nat -> S]
  BY <1>1 DEF Upto
<1> HIDE DEF pick
<1>3. f \in [Nat -> S]
  BY <1>2
<1>4. \A n \in Nat : \A m \in 0 .. n : pick(m)[m] = pick(n)[m]
  <2> TAKE n \in Nat
  <2> TAKE m \in 0 .. n
  <2>1. pick(n) \in Upto(G, S, m + 1)
    BY <1>1 DEF Upto
  <2>2. m \in Nat /\ m + 1 \in Nat /\ m \in 0 .. (m + 1) - 1
    OBVIOUS
  <2>3. pick(m) \in Upto(G, S, m + 1)
    BY <1>1, <2>2
  <2> QED
    BY <2>1, <2>2, <2>3, UptoUnique
<1>5. ASSUME NEW n \in Nat PROVE f[n] = G[n][f]
  <2>1. \A m \in 0 .. n - 1 : f[m] = pick(n)[m]
    BY <1>4
  <2>2. G[n][f] = G[n][pick(n)]
    BY <1>2, <1>3, <2>1 DEF Earlier
  <2>3. pick(n)[n] = G[n][pick(n)]
    BY <1>1 DEF Upto
  <2> QED
    BY <2>2, <2>3
<1> QED
  BY <1>3, <1>5, Zenon

(* A function can be defined by recursion over 0 .. N, when the step is     *)
(* given as a function.                                                     *)
Steps(S, N) == [1 .. N -> [S -> S]]

(* What a function defined so satisfies.                                    *)
Solution(f, S, N, base, step) ==
  f \in [0 .. N -> S] /\ f[0] = base /\ \A n \in 1 .. N : f[n] = step[n][f[n - 1]]

(* There is one.                                                            *)
LEMMA FiniteRecursion ==
  ASSUME NEW S, NEW N \in Nat, NEW base \in S, NEW step \in Steps(S, N)
  PROVE  \E f : Solution(f, S, N, base, step)
<1> DEFINE T == {k \in Nat : k <= N => \E f : Solution(f, S, k, base, step)}
<1>1. 0 \in T
  <2> DEFINE f == [n \in 0 .. 0 |-> base]
  <2>1. Solution(f, S, 0, base, step)
    BY DEF Solution
  <2> HIDE DEF f
  <2> QED
    BY <2>1
<1>2. ASSUME NEW k \in Nat, k \in T PROVE k + 1 \in T
  <2> SUFFICES ASSUME k + 1 <= N PROVE \E f : Solution(f, S, k + 1, base, step)
    BY <1>2
  <2>1. PICK f : Solution(f, S, k, base, step)
    BY <1>2
  <2> DEFINE g == [n \in 0 .. k + 1 |-> IF n = k + 1 THEN step[k + 1][f[k]] ELSE f[n]]
  <2>2. step[k + 1][f[k]] \in S
    BY <2>1 DEF Solution, Steps
  <2>3. Solution(g, S, k + 1, base, step)
    BY <2>1, <2>2 DEF Solution
  <2> HIDE DEF g
  <2> QED
    BY <2>3
<1> HIDE DEF T
<1>3. N \in T
  BY <1>1, <1>2, SetInduction
<1> QED
  BY <1>3 DEF T

(* Whatever follows the recursion has its values where the steps lead.      *)
Follows(g, S, N, base, step) ==
  g[0] = base /\ \A n \in 1 .. N : g[n - 1] \in S => g[n] = step[n][g[n - 1]]

(* A function known to follow the recursion, as far as its values are of    *)
(* the right type, has values of that type everywhere.                      *)
LEMMA RecursionTyped ==
  ASSUME NEW S, NEW N \in Nat, NEW base \in S, NEW step \in Steps(S, N),
         NEW g, Follows(g, S, N, base, step)
  PROVE  \A n \in 0 .. N : g[n] \in S
<1> DEFINE T == {n \in Nat : n <= N => g[n] \in S}
<1>1. 0 \in T
  BY DEF Follows
<1>2. ASSUME NEW n \in Nat, n \in T PROVE n + 1 \in T
  <2> SUFFICES ASSUME n + 1 <= N PROVE g[n + 1] \in S
    OBVIOUS
  <2>1. g[n] \in S /\ n + 1 \in 1 .. N /\ (n + 1) - 1 = n
    BY <1>2
  <2>2. g[n + 1] = step[n + 1][g[n]]
    BY <2>1 DEF Follows
  <2> QED
    BY <2>1, <2>2 DEF Steps
<1> HIDE DEF T
<1>3. Nat \subseteq T
  BY <1>1, <1>2, SetInduction
<1> QED
  BY <1>3 DEF T

-----------------------------------------------------------------------------
(* Division and powers.                                                     *)

(* Multiplication keeps an order.                                           *)
LEMMA Times == \A a, b, c \in Nat : a <= b => a * c <= b * c
<1> TAKE a, b, c \in Nat
<1> SUFFICES ASSUME a <= b PROVE a * c <= b * c
  OBVIOUS
<1>1. PICK d \in Nat : b = a + d
  <2> b - a \in Nat /\ b = a + (b - a)
    OBVIOUS
  <2> QED
    OBVIOUS
<1>2. b * c = a * c + d * c /\ d * c \in Nat /\ a * c \in Nat
  BY <1>1
<1> QED
  BY <1>2

(* Quotient and remainder give the number back.                             *)
LEMMA Division ==
  \A a \in Nat, d \in Nat \ {0} : a = (a \div d) * d + (a % d) /\ a \div d \in Nat /\ a % d \in 0 .. d - 1
<1> TAKE a \in Nat, d \in Nat \ {0}
<1>1. a % d \in 0 .. d - 1 /\ a \div d \in Int
  OBVIOUS
<1>2. a = d * (a \div d) + (a % d)
  OBVIOUS
<1>3. PICK q \in Int, r \in 0 .. d - 1 : q = a \div d /\ r = a % d
  BY <1>1
<1>4. a = q * d + r
  BY <1>2, <1>3
<1>5. q >= 0
  <2> SUFFICES ASSUME q < 0 PROVE FALSE
    OBVIOUS
  <2>1. PICK p \in Nat : q = -(p + 1)
    <3> -q - 1 \in Nat /\ q = -((-q - 1) + 1)
      OBVIOUS
    <3> QED
      OBVIOUS
  <2>2. q * d = -(p * d + d) /\ p * d \in Nat
    BY <2>1
  <2> QED
    BY <1>4, <2>2
<1> QED
  BY <1>3, <1>4, <1>5

(* They are the only numbers that do.                                       *)
LEMMA DivisionUnique ==
  ASSUME NEW a \in Nat, NEW d \in Nat \ {0}, NEW k \in Nat, NEW t \in 0 .. d - 1, a = k * d + t
  PROVE  a \div d = k /\ a % d = t
<1>1. PICK j \in Nat, s \in 0 .. d - 1 : j = a \div d /\ s = a % d /\ a = j * d + s
  BY Division
<1>2. ~ (j < k)
  <2> SUFFICES ASSUME j < k PROVE FALSE
    OBVIOUS
  <2>1. (j + 1) * d <= k * d
    BY Times
  <2>2. (j + 1) * d = j * d + d
    OBVIOUS
  <2> QED
    BY <1>1, <2>1, <2>2
<1>3. ~ (k < j)
  <2> SUFFICES ASSUME k < j PROVE FALSE
    OBVIOUS
  <2>1. (k + 1) * d <= j * d
    BY Times
  <2>2. (k + 1) * d = k * d + d
    OBVIOUS
  <2> QED
    BY <1>1, <2>1, <2>2
<1>4. j = k
  BY <1>2, <1>3
<1> QED
  BY <1>1, <1>4

(* Dividing twice is dividing by the product: num >>= 4 in put_hex.         *)
LEMMA DivDiv ==
  ASSUME NEW a \in Nat, NEW p \in Nat \ {0}
  PROVE  (a \div 16) \div p = a \div (16 * p)
<1>1. PICK q \in Nat, r \in 0 .. 15 : q = a \div 16 /\ a = q * 16 + r
  BY Division
<1>2. PICK k \in Nat, t \in 0 .. p - 1 : k = q \div p /\ q = k * p + t
  BY Division
<1>3. 16 * p \in Nat \ {0} /\ 16 * t + r \in 0 .. (16 * p) - 1
  BY <1>1, <1>2
<1>4. a = k * (16 * p) + (16 * t + r)
  <2>1. (k * p + t) * 16 + r = k * (16 * p) + (16 * t + r)
    BY <1>1, <1>2
  <2> QED
    BY <1>1, <1>2, <2>1
<1>5. a \div (16 * p) = k
  <2> DEFINE d == 16 * p
             u == 16 * t + r
  <2> HIDE DEF d, u
  <2>1. d \in Nat \ {0} /\ u \in 0 .. d - 1 /\ a = k * d + u
    BY <1>3, <1>4 DEF d, u
  <2>2. a \div d = k
    BY <2>1, DivisionUnique
  <2> QED
    BY <2>2 DEF d
<1> QED
  BY <1>1, <1>2, <1>5

(* Dividing by ten.                                                         *)
LEMMA DivTen ==
  \A n \in Nat : /\ n \div 10 \in Nat /\ n = 10 * (n \div 10) + (n % 10) /\ n % 10 \in 0 .. 9
                 /\ (n # 0 => n \div 10 < n)
OBVIOUS

(* Division in C: the quotient is nearer to zero than the number, the       *)
(* remainder has its sign.                                                  *)
LEMMA QuotientFacts ==
  \A n \in Int : /\ Quotient(n) \in Int /\ Remainder(n) \in Int
                 /\ n = 10 * Quotient(n) + Remainder(n)
                 /\ n >= 0 => Quotient(n) >= 0 /\ Remainder(n) \in 0 .. 9 /\ (n # 0 => Quotient(n) < n)
                 /\ n < 0 => Quotient(n) <= 0 /\ -Remainder(n) \in 0 .. 9 /\ Quotient(n) > n
<1> TAKE n \in Int
<1>1. CASE n >= 0
  BY <1>1, DivTen DEF Quotient, Remainder
<1>2. CASE n < 0
  <2>1. -n \in Nat /\ -n # 0
    BY <1>2
  <2>2. PICK m \in Nat : m = -n
    BY <2>1
  <2>3. m \div 10 \in Nat /\ m = 10 * (m \div 10) + (m % 10) /\ m % 10 \in 0 .. 9 /\ m \div 10 < m
    BY <2>1, <2>2, DivTen
  <2>4. Quotient(n) = -(m \div 10)
    BY <1>2, <2>2 DEF Quotient
  <2> QED
    BY <1>2, <2>2, <2>3, <2>4 DEF Remainder
<1> QED
  BY <1>1, <1>2

(* The same for the numbers that are not negative, with names for both.     *)
LEMMA QuotientNat ==
  ASSUME NEW n \in Nat
  PROVE  \E q \in Nat, r \in 0 .. 9 :
           q = Quotient(n) /\ r = Remainder(n) /\ n = 10 * q + r /\ (n # 0 => q < n)
<1> DEFINE a == Quotient(n)
           b == Remainder(n)
<1>1. n \in Int /\ n >= 0
  OBVIOUS
<1>2. a \in Int /\ b \in Int /\ n = 10 * a + b /\ a >= 0 /\ b \in 0 .. 9 /\ (n # 0 => a < n)
  BY <1>1, QuotientFacts
<1> HIDE DEF a, b
<1>3. a \in Nat
  BY <1>2
<1>4. \E q \in Nat, r \in 0 .. 9 : q = a /\ r = b /\ n = 10 * q + r /\ (n # 0 => q < n)
  BY <1>2, <1>3
<1> QED
  BY <1>4 DEF a, b

(* The function inside Power.                                               *)
Powers(b) ==
  LET power[k \in Nat] == IF k = 0 THEN 1 ELSE b * power[k - 1]
  IN  power

(* Power satisfies its equations.                                           *)
LEMMA PowerStep ==
  ASSUME NEW b \in Nat
  PROVE  Power(b, 0) = 1 /\ \A n \in Nat : Power(b, n) \in Nat /\ Power(b, n + 1) = b * Power(b, n)
<1> DEFINE Solves(p) == p = [k \in Nat |-> IF k = 0 THEN 1 ELSE b * p[k - 1]]
           G == [k \in Nat |-> [p \in [Nat -> Nat] |-> IF k = 0 THEN 1 ELSE b * p[k - 1]]]
           p == Powers(b)
<1>1. G \in Functional(Nat)
  BY DEF Functional
<1>2. Earlier(G, Nat)
  BY DEF Earlier
<1>3. PICK f \in [Nat -> Nat] : \A n \in Nat : f[n] = G[n][f]
  <2> HIDE DEF G
  <2> QED
    BY <1>1, <1>2, Recursion
<1>4. Solves(f)
  BY <1>3
<1>5. Solves(p)
  BY <1>4, Zenon DEF Powers
<1>6. \A n : Power(b, n) = p[n]
  BY DEF Power, Powers
<1> HIDE DEF p
<1>7. p[0] = 1 /\ \A n \in Nat : p[n + 1] = b * p[n]
  BY <1>5
<1> DEFINE T == {n \in Nat : p[n] \in Nat}
<1>8. 0 \in T /\ \A n \in Nat : n \in T => n + 1 \in T
  BY <1>7
<1>9. Nat \subseteq T
  <2> HIDE DEF T
  <2> QED
    BY <1>8, SetInduction
<1> QED
  BY <1>6, <1>7, <1>9

(* The first power is the number itself.                                    *)
LEMMA PowerOne == \A b \in Nat : Power(b, 1) = b
<1> TAKE b \in Nat
<1>1. Power(b, 0 + 1) = b * Power(b, 0) /\ Power(b, 0) = 1
  BY PowerStep
<1> QED
  BY <1>1

(* The powers of a number other than zero are not zero.                     *)
LEMMA PowerNotZero == ASSUME NEW b \in Nat \ {0} PROVE \A n \in Nat : Power(b, n) \in Nat \ {0}
<1> DEFINE T == {n \in Nat : Power(b, n) \in Nat \ {0}}
<1>1. Power(b, 0) = 1 /\ \A n \in Nat : Power(b, n) \in Nat /\ Power(b, n + 1) = b * Power(b, n)
  BY PowerStep
<1>2. 0 \in T
  BY <1>1
<1>3. ASSUME NEW n \in Nat, n \in T PROVE n + 1 \in T
  <2>1. PICK P \in Nat \ {0} : P = Power(b, n)
    BY <1>3
  <2>2. b * P \in Nat \ {0}
    OBVIOUS
  <2> QED
    BY <1>1, <2>1, <2>2
<1> HIDE DEF T
<1>4. Nat \subseteq T
  BY <1>2, <1>3, SetInduction
<1> QED
  BY <1>4 DEF T

(* Exponents add.                                                           *)
LEMMA PowerAdd ==
  ASSUME NEW b \in Nat, NEW m \in Nat
  PROVE  \A n \in Nat : Power(b, m + n) = Power(b, m) * Power(b, n)
<1> DEFINE T == {n \in Nat : Power(b, m + n) = Power(b, m) * Power(b, n)}
<1>1. Power(b, 0) = 1 /\ \A n \in Nat : Power(b, n) \in Nat /\ Power(b, n + 1) = b * Power(b, n)
  BY PowerStep
<1>2. 0 \in T
  <2> m + 0 = m
    OBVIOUS
  <2> QED
    BY <1>1
<1>3. ASSUME NEW n \in Nat, n \in T PROVE n + 1 \in T
  <2>1. PICK P \in Nat, Q \in Nat : P = Power(b, m) /\ Q = Power(b, n)
    BY <1>1, Zenon
  <2>2. m + n \in Nat /\ m + (n + 1) = (m + n) + 1
    OBVIOUS
  <2>3. Power(b, m + (n + 1)) = b * (P * Q)
    BY <1>1, <1>3, <2>1, <2>2
  <2>4. b * (P * Q) = P * (b * Q)
    OBVIOUS
  <2> QED
    BY <1>1, <2>1, <2>3, <2>4
<1> HIDE DEF T
<1>4. Nat \subseteq T
  BY <1>2, <1>3, SetInduction
<1> QED
  BY <1>4 DEF T

(* The powers of ten.                                                       *)
LEMMA PowerPositive == \A d \in Nat : Power(10, d) \in Nat /\ Power(10, d) >= 1 /\ Power(10, d + 1) = 10 * Power(10, d)
<1> DEFINE T == {d \in Nat : Power(10, d) >= 1}
<1>1. Power(10, 0) = 1 /\ \A d \in Nat : Power(10, d) \in Nat /\ Power(10, d + 1) = 10 * Power(10, d)
  BY PowerStep
<1>2. 0 \in T /\ \A d \in Nat : d \in T => d + 1 \in T
  BY <1>1
<1> HIDE DEF T
<1>3. Nat \subseteq T
  BY <1>2, SetInduction
<1> QED
  BY <1>1, <1>3 DEF T

-----------------------------------------------------------------------------
(* Texts: turned round, joined, and taken for numbers.                      *)

(* Sequences with the same members are the same.                            *)
LEMMA SameSeq ==
  ASSUME NEW S, NEW a \in Seq(S), NEW b \in Seq(S), Len(a) = Len(b),
         \A k \in 1 .. Len(a) : a[k] = b[k]
  PROVE  a = b
OBVIOUS

(* A text turned round is a text as long.                                   *)
LEMMA ReverseType ==
  ASSUME NEW S, NEW s \in Seq(S)
  PROVE  Reverse(s) \in Seq(S) /\ Len(Reverse(s)) = Len(s)
BY DEF Reverse

(* What came first comes last, ...                                          *)
LEMMA ReverseCons ==
  ASSUME NEW S, NEW s \in Seq(S), NEW c \in S
  PROVE  Reverse(<<c>> \o s) = Reverse(s) \o <<c>>
<1> DEFINE u == <<c>> \o s
           w == Reverse(s)
           v == w \o <<c>>
<1>1. u \in Seq(S) /\ Len(u) = Len(s) + 1 /\ u[1] = c /\ \A k \in 1 .. Len(s) : u[k + 1] = s[k]
  OBVIOUS
<1>2. w \in Seq(S) /\ Len(w) = Len(s) /\ \A k \in 1 .. Len(s) : w[k] = s[Len(s) + 1 - k]
  BY DEF Reverse
<1>3. v \in Seq(S) /\ Len(v) = Len(s) + 1 /\ v[Len(s) + 1] = c /\ \A k \in 1 .. Len(s) : v[k] = w[k]
  <2> HIDE DEF w
  <2> QED
    BY <1>2
<1>4. Reverse(u) \in Seq(S) /\ Len(Reverse(u)) = Len(u) /\ \A k \in 1 .. Len(u) : Reverse(u)[k] = u[Len(u) + 1 - k]
  <2> HIDE DEF u
  <2> QED
    BY <1>1 DEF Reverse
<1> HIDE DEF u, v, w
<1>5. \A k \in 1 .. Len(s) + 1 : Reverse(u)[k] = v[k]
  <2> TAKE k \in 1 .. Len(s) + 1
  <2>1. CASE k = Len(s) + 1
    BY <1>1, <1>3, <1>4, <2>1
  <2>2. CASE k \in 1 .. Len(s)
    <3>1. Len(s) + 1 - k \in 1 .. Len(s) /\ (Len(s) + 1 - k) + 1 = Len(u) + 1 - k
      BY <1>1, <2>2
    <3> QED
      BY <1>1, <1>2, <1>3, <1>4, <2>2, <3>1, Zenon
  <2> QED
    BY <2>1, <2>2
<1>6. Reverse(u) = v
  BY <1>1, <1>3, <1>4, <1>5
<1> QED
  BY <1>6 DEF u, v, w

(* ... and what came last comes first.                                      *)
LEMMA ReverseSnoc ==
  ASSUME NEW S, NEW s \in Seq(S), NEW c \in S
  PROVE  Head(Reverse(s \o <<c>>)) = c /\ Tail(Reverse(s \o <<c>>)) = Reverse(s)
<1> DEFINE u == s \o <<c>>
           r == Reverse(u)
           w == Reverse(s)
<1>1. u \in Seq(S) /\ Len(u) = Len(s) + 1 /\ u[Len(s) + 1] = c /\ \A k \in 1 .. Len(s) : u[k] = s[k]
  OBVIOUS
<1>2. w \in Seq(S) /\ Len(w) = Len(s) /\ \A k \in 1 .. Len(s) : w[k] = s[Len(s) + 1 - k]
  BY DEF Reverse
<1>3. r \in Seq(S) /\ Len(r) = Len(u) /\ \A k \in 1 .. Len(u) : r[k] = u[Len(u) + 1 - k]
  <2> HIDE DEF u
  <2> QED
    BY <1>1 DEF Reverse
<1> HIDE DEF u, r, w
<1>4. r # <<>> /\ Head(r) = c
  BY <1>1, <1>3
<1>5. Tail(r) \in Seq(S) /\ Len(Tail(r)) = Len(s) /\ \A k \in 1 .. Len(s) : Tail(r)[k] = r[k + 1]
  BY <1>1, <1>3, <1>4
<1>6. \A k \in 1 .. Len(s) : Tail(r)[k] = w[k]
  <2> TAKE k \in 1 .. Len(s)
  <2>1. k + 1 \in 1 .. Len(u) /\ Len(u) + 1 - (k + 1) = Len(s) + 1 - k /\ Len(s) + 1 - k \in 1 .. Len(s)
    BY <1>1
  <2>2. Tail(r)[k] = r[k + 1]
    BY <1>5
  <2>3. r[k + 1] = u[Len(u) + 1 - (k + 1)]
    BY <1>3, <2>1, Zenon
  <2>4. u[Len(s) + 1 - k] = s[Len(s) + 1 - k]
    BY <1>1, <2>1, Zenon
  <2>5. w[k] = s[Len(s) + 1 - k]
    BY <1>2
  <2> QED
    BY <2>1, <2>2, <2>3, <2>4, <2>5, Zenon
<1>7. Tail(r) = w
  <2> DEFINE z == Tail(r)
  <2>1. z \in Seq(S) /\ w \in Seq(S) /\ Len(z) = Len(w) /\ \A k \in 1 .. Len(z) : z[k] = w[k]
    BY <1>2, <1>5, <1>6, Zenon
  <2> HIDE DEF z
  <2>2. z = w
    BY <2>1, SameSeq, Zenon
  <2> QED
    BY <2>2 DEF z
<1> QED
  BY <1>4, <1>7 DEF u, r, w

(* Two texts make a text.                                                   *)
LEMMA ConcatType ==
  ASSUME NEW a \in Seq(Int), NEW b \in Seq(Int)
  PROVE  a \o b \in Seq(Int) /\ Len(a \o b) = Len(a) + Len(b)
OBVIOUS

(* A sequence with one member more in front.                                *)
Cons(c, s) == <<c>> \o s

(* That member is the head, the sequence is the tail.                       *)
LEMMA HeadOfCons ==
  ASSUME NEW S, NEW x \in S, NEW s \in Seq(S)
  PROVE  LET l == <<x>> \o s IN l \in Seq(S) /\ l # <<>> /\ Head(l) = x /\ Tail(l) = s
<1> DEFINE l == <<x>> \o s
<1>1. l \in Seq(S) /\ Len(l) = Len(s) + 1 /\ l[1] = x /\ \A k \in 1 .. Len(s) : l[k + 1] = s[k]
  OBVIOUS
<1> HIDE DEF l
<1>2. l # <<>>
  BY <1>1
<1>3. Head(l) = x
  BY <1>1, <1>2
<1>4. Tail(l) = s
  <2> DEFINE t == Tail(l)
  <2>1. t \in Seq(S) /\ Len(t) = Len(s) /\ \A k \in 1 .. Len(s) : t[k] = l[k + 1]
    BY <1>1, <1>2
  <2> HIDE DEF t
  <2>2. \A k \in 1 .. Len(t) : t[k] = s[k]
    BY <1>1, <2>1
  <2>3. t = s
    BY <2>1, <2>2, SameSeq, Zenon
  <2> QED
    BY <2>3 DEF t
<1> QED
  BY <1>1, <1>2, <1>3, <1>4 DEF l

(* The characters of two texts put together.                                *)
LEMMA ConcatMembers ==
  ASSUME NEW a \in Seq(Int), NEW b \in Seq(Int)
  PROVE  /\ a \o b \in Seq(Int) /\ Len(a \o b) = Len(a) + Len(b)
         /\ \A k \in 1 .. Len(a) : (a \o b)[k] = a[k]
         /\ \A k \in 1 .. Len(b) : (a \o b)[Len(a) + k] = b[k]
OBVIOUS

(* Texts are put together in any grouping.                                  *)
LEMMA ThreeTexts ==
  ASSUME NEW a \in Seq(Int), NEW b \in Seq(Int), NEW c \in Seq(Int)
  PROVE  (a \o b) \o c = a \o (b \o c)
<1> DEFINE ab == a \o b
           bc == b \o c
           x == ab \o c
           y == a \o bc
           la == Len(a)
           lb == Len(b)
           lc == Len(c)
<1>1. /\ ab \in Seq(Int) /\ Len(ab) = la + lb
      /\ \A k \in 1 .. la : ab[k] = a[k]
      /\ \A k \in 1 .. lb : ab[la + k] = b[k]
  BY ConcatMembers, Zenon
<1>2. /\ bc \in Seq(Int) /\ Len(bc) = lb + lc
      /\ \A k \in 1 .. lb : bc[k] = b[k]
      /\ \A k \in 1 .. lc : bc[lb + k] = c[k]
  BY ConcatMembers, Zenon
<1>3. la \in Nat /\ lb \in Nat /\ lc \in Nat
  OBVIOUS
<1> HIDE DEF ab, bc
<1>4. /\ x \in Seq(Int) /\ Len(x) = Len(ab) + lc
      /\ \A k \in 1 .. Len(ab) : x[k] = ab[k]
      /\ \A k \in 1 .. lc : x[Len(ab) + k] = c[k]
  BY <1>1, ConcatMembers, Zenon
<1>5. /\ y \in Seq(Int) /\ Len(y) = la + Len(bc)
      /\ \A k \in 1 .. la : y[k] = a[k]
      /\ \A k \in 1 .. Len(bc) : y[la + k] = bc[k]
  BY <1>2, ConcatMembers, Zenon
<1> HIDE DEF x, y, la, lb, lc
<1>6. Len(x) = la + lb + lc /\ Len(y) = la + lb + lc
  BY <1>1, <1>2, <1>3, <1>4, <1>5
<1>7. ASSUME NEW k \in 1 .. la + lb + lc PROVE x[k] = y[k]
  <2>1. CASE k \in 1 .. la
    <3>1. k \in 1 .. Len(ab)
      BY <1>1, <1>3, <2>1
    <3> QED
      BY <1>1, <1>4, <1>5, <2>1, <3>1, Zenon
  <2>2. CASE k \notin 1 .. la /\ k <= la + lb
    <3>1. PICK j \in 1 .. lb : k = la + j
      <4> k - la \in 1 .. lb /\ k = la + (k - la)
        BY <1>3, <2>2
      <4> QED
        OBVIOUS
    <3>2. k \in 1 .. Len(ab) /\ j \in 1 .. Len(bc)
      BY <1>1, <1>2, <1>3, <3>1
    <3>3. x[k] = ab[k] /\ ab[k] = b[j]
      BY <1>1, <1>4, <3>1, <3>2, Zenon
    <3>4. y[k] = bc[j] /\ bc[j] = b[j]
      BY <1>2, <1>5, <3>1, <3>2, Zenon
    <3> QED
      BY <3>3, <3>4, Zenon
  <2>3. CASE ~ (k <= la + lb)
    <3>1. PICK j \in 1 .. lc : k = (la + lb) + j
      <4> k - (la + lb) \in 1 .. lc /\ k = (la + lb) + (k - (la + lb))
        BY <1>3, <2>3
      <4> QED
        OBVIOUS
    <3>2. lb + j \in 1 .. Len(bc) /\ k = la + (lb + j)
      BY <1>2, <1>3, <3>1
    <3>3. y[k] = bc[lb + j] /\ bc[lb + j] = c[j]
      BY <1>2, <1>5, <3>1, <3>2, Zenon
    <3>4. x[k] = c[j]
      BY <1>1, <1>4, <3>1, Zenon
    <3> QED
      BY <3>3, <3>4, Zenon
  <2> QED
    BY <2>1, <2>2, <2>3, Zenon
<1>8. x = y
  BY <1>4, <1>5, <1>6, <1>7, SameSeq, Zenon
<1> QED
  BY <1>8, Zenon DEF x, y, ab, bc

(* A character moves from the front of one text to the end of another.      *)
LEMMA ConsText ==
  ASSUME NEW t \in Seq(Int), NEW c \in Int, NEW y \in Seq(Int)
  PROVE  t \o Cons(c, y) = Append(t, c) \o y
<1> DEFINE o == <<c>>
<1>1. o \in Seq(Int) /\ Append(t, c) = t \o o
  OBVIOUS
<1>2. Cons(c, y) = o \o y
  BY DEF Cons
<1> HIDE DEF o
<1>3. (t \o o) \o y = t \o (o \o y)
  BY <1>1, ThreeTexts, Zenon
<1> QED
  BY <1>1, <1>2, <1>3

(* The same for lists of arguments, ...                                     *)
LEMMA ThreeLists ==
  ASSUME NEW a \in Seq(Seq(Int)), NEW b \in Seq(Seq(Int)), NEW c \in Seq(Seq(Int))
  PROVE  (a \o b) \o c = a \o (b \o c)
OBVIOUS

(* ... of which the first moves.                                            *)
LEMMA ConsArguments ==
  ASSUME NEW t \in Seq(Seq(Int)), NEW c \in Seq(Int), NEW y \in Seq(Seq(Int))
  PROVE  t \o Cons(c, y) = Append(t, c) \o y
<1> DEFINE o == <<c>>
<1>1. o \in Seq(Seq(Int)) /\ Append(t, c) = t \o o
  OBVIOUS
<1>2. Cons(c, y) = o \o y
  BY DEF Cons
<1> HIDE DEF o
<1>3. (t \o o) \o y = t \o (o \o y)
  BY <1>1, ThreeLists, Zenon
<1> QED
  BY <1>1, <1>2, <1>3

(* The empty sequence adds nothing.                                         *)
LEMMA ConcatEmpty ==
  ASSUME NEW S, NEW a \in Seq(S)
  PROVE  a \o <<>> = a /\ <<>> \o a = a
OBVIOUS

(* The function inside Value.                                               *)
Values(s, base) ==
  LET value[n \in 0 .. Len(s)] ==
        IF n = 0 THEN 0 ELSE value[n - 1] * base + Digit(s[n])
  IN  value

(* It satisfies its equations, and its values are numbers.                  *)
LEMMA ValuesEquations ==
  ASSUME NEW base \in Int, NEW s \in Seq(Int)
  PROVE  /\ Values(s, base)[0] = 0
         /\ \A n \in 1 .. Len(s) :
              Values(s, base)[n] = Values(s, base)[n - 1] * base + Digit(s[n])
         /\ \A n \in 0 .. Len(s) : Values(s, base)[n] \in Int
<1> DEFINE nil == 0
           N == Len(s)
           S == Int
           Step(n, t) == t * base + Digit(s[n])
           step == [n \in 1 .. N |-> [t \in S |-> Step(n, t)]]
           Solves(f) == f = [n \in 0 .. N |-> IF n = 0 THEN nil ELSE Step(n, f[n - 1])]
<1>1. nil \in S /\ N \in Nat /\ \A n \in 1 .. N : \A t \in S : Step(n, t) \in S
  BY DEF Digit, ZERO
<1>2. Values(s, base) = CHOOSE g : Solves(g)
  BY DEF Values
<1> SUFFICES /\ Values(s, base)[0] = nil
             /\ \A n \in 1 .. N : Values(s, base)[n] = Step(n, Values(s, base)[n - 1])
             /\ \A n \in 0 .. N : Values(s, base)[n] \in S
  OBVIOUS
<1> HIDE DEF Step, nil, N, S
<1>3. step \in Steps(S, N)
  BY <1>1 DEF Steps
<1>4. PICK f : Solution(f, S, N, nil, step)
  <2> HIDE DEF step
  <2> QED
    BY <1>1, <1>3, FiniteRecursion
<1>5. Solves(f)
  <2>1. ASSUME NEW n \in 1 .. N PROVE f[n] = Step(n, f[n - 1])
    <3>1. f[n - 1] \in S /\ f[n] = step[n][f[n - 1]]
      BY <1>1, <1>4 DEF Solution
    <3> QED
      BY <3>1
  <2> QED
    BY <1>1, <1>4, <2>1 DEF Solution
<1>6. Solves(Values(s, base))
  BY <1>2, <1>5, Zenon
<1> HIDE DEF Values
<1>7. Values(s, base)[0] = nil /\ \A n \in 1 .. N : Values(s, base)[n] = Step(n, Values(s, base)[n - 1])
  BY <1>1, <1>6
<1>8. Follows(Values(s, base), S, N, nil, step)
  BY <1>1, <1>7 DEF Follows
<1>9. \A n \in 0 .. N : Values(s, base)[n] \in S
  <2> HIDE DEF step
  <2> QED
    BY <1>1, <1>3, <1>8, RecursionTyped
<1> QED
  BY <1>7, <1>9

(* Value is its last value.                                                 *)
LEMMA ValueIs == \A s, base : Value(s, base) = Values(s, base)[Len(s)]
BY DEF Value, Values

(* What a text is taken for does not depend on what follows it.             *)
LEMMA ValuesPrefix ==
  ASSUME NEW base \in Int, NEW s \in Seq(Int), NEW t \in Seq(Int)
  PROVE  \A n \in 0 .. Len(s) : Values(s \o t, base)[n] = Values(s, base)[n]
<1> DEFINE u == s \o t
           T == {n \in Nat : n <= Len(s) => Values(u, base)[n] = Values(s, base)[n]}
<1>1. u \in Seq(Int) /\ Len(u) = Len(s) + Len(t) /\ \A n \in 1 .. Len(s) : u[n] = s[n]
  OBVIOUS
<1> HIDE DEF u
<1>2. 0 \in T
  BY <1>1, ValuesEquations
<1>3. ASSUME NEW n \in Nat, n \in T PROVE n + 1 \in T
  <2> SUFFICES ASSUME n + 1 <= Len(s) PROVE Values(u, base)[n + 1] = Values(s, base)[n + 1]
    OBVIOUS
  <2>1. n + 1 \in 1 .. Len(s) /\ (n + 1) - 1 = n
    OBVIOUS
  <2>2. n + 1 \in 1 .. Len(u)
    <3>1. Len(s) \in Nat /\ Len(t) \in Nat
      OBVIOUS
    <3> QED
      BY <1>1, <2>1, <3>1
  <2>3. Values(u, base)[n] = Values(s, base)[n]
    BY <1>3
  <2>4. u[n + 1] = s[n + 1]
    BY <1>1, <2>1, Zenon
  <2>5. Values(s, base)[n + 1] = Values(s, base)[(n + 1) - 1] * base + Digit(s[n + 1])
    BY <2>1, ValuesEquations, Zenon
  <2>6. Values(u, base)[n + 1] = Values(u, base)[(n + 1) - 1] * base + Digit(u[n + 1])
    BY <1>1, <2>2, ValuesEquations, Zenon
  <2> QED
    BY <2>1, <2>3, <2>4, <2>5, <2>6, Zenon
<1> HIDE DEF T
<1>4. Nat \subseteq T
  BY <1>2, <1>3, SetInduction, Zenon
<1> QED
  BY <1>4 DEF T, u

(* A text behind another one.                                               *)
LEMMA ValueConcat ==
  ASSUME NEW base \in Nat, NEW s \in Seq(Int), NEW t \in Seq(Int)
  PROVE  Value(s \o t, base) = Value(s, base) * Power(base, Len(t)) + Value(t, base)
<1> DEFINE u == s \o t
           V == Values(s, base)[Len(s)]
           T == {n \in Nat : n <= Len(t) =>
                   Values(u, base)[Len(s) + n] = V * Power(base, n) + Values(t, base)[n]}
<1>1. u \in Seq(Int) /\ Len(u) = Len(s) + Len(t) /\ \A n \in 1 .. Len(t) : u[Len(s) + n] = t[n]
  OBVIOUS
<1>0. base \in Int /\ Len(s) \in Nat /\ Len(t) \in Nat
  OBVIOUS
<1>2. Values(u, base)[Len(s)] = V
  BY <1>0, ValuesPrefix
<1> HIDE DEF u
<1>3. V \in Int
  BY <1>0, ValuesEquations
<1> HIDE DEF V
<1>4. 0 \in T
  <2>1. Values(t, base)[0] = 0
    BY <1>0, ValuesEquations
  <2>2. Power(base, 0) = 1
    BY PowerStep
  <2> QED
    BY <1>0, <1>2, <1>3, <2>1, <2>2
<1>5. ASSUME NEW n \in Nat, n \in T PROVE n + 1 \in T
  <2> SUFFICES ASSUME n + 1 <= Len(t)
               PROVE  Values(u, base)[Len(s) + (n + 1)] = V * Power(base, n + 1) + Values(t, base)[n + 1]
    OBVIOUS
  <2> DEFINE k == Len(s) + n
             P == Power(base, n)
             v == Values(t, base)[n]
             d == Digit(t[n + 1])
  <2>1. k + 1 \in 1 .. Len(u) /\ (k + 1) - 1 = k /\ u[k + 1] = t[n + 1]
    <3>1. n + 1 \in 1 .. Len(t) /\ k + 1 = Len(s) + (n + 1) /\ k \in Nat
      BY <1>0
    <3>2. u[Len(s) + (n + 1)] = t[n + 1]
      BY <1>1, <3>1
    <3> QED
      BY <1>0, <1>1, <3>1, <3>2
  <2>2. Values(u, base)[k + 1] = Values(u, base)[k] * base + d
    BY <1>0, <1>1, <2>1, ValuesEquations, Zenon
  <2>3. n + 1 \in 1 .. Len(t) /\ (n + 1) - 1 = n /\ n \in 0 .. Len(t)
    OBVIOUS
  <2>4. Values(t, base)[n + 1] = v * base + d /\ v \in Int
    BY <2>3, ValuesEquations
  <2>5. d \in Int
    BY <2>3 DEF Digit, ZERO
  <2>6. P \in Nat /\ Power(base, n + 1) = base * P
    BY PowerStep, Zenon
  <2>7. Values(u, base)[k] = V * P + v
    BY <1>5
  <2> HIDE DEF k, P, v, d
  <2>8. (V * P + v) * base + d = V * (base * P) + (v * base + d)
    BY <1>3, <2>4, <2>5, <2>6
  <2>9. Len(s) + (n + 1) = k + 1
    BY DEF k
  <2> QED
    BY <2>2, <2>4, <2>6, <2>7, <2>8, <2>9
<1> HIDE DEF T
<1>6. Nat \subseteq T
  BY <1>4, <1>5, SetInduction, Zenon
<1>7. Values(u, base)[Len(u)] = V * Power(base, Len(t)) + Values(t, base)[Len(t)]
  BY <1>0, <1>1, <1>6 DEF T
<1> QED
  BY <1>7, ValueIs, Zenon DEF u, V

(* No characters read zero.                                                 *)
LEMMA ValueEmpty == \A base \in Int : Value(<<>>, base) = 0
<1>1. <<>> \in Seq(Int) /\ Len(<<>>) = 0
  OBVIOUS
<1> QED
  BY <1>1, ValueIs, ValuesEquations, Zenon

(* A text reads as a number.                                                *)
LEMMA ValueInt == \A s \in Seq(Int), base \in Int : Value(s, base) \in Int
BY ValueIs, ValuesEquations

(* One character reads as its digit.                                        *)
LEMMA ValueOne == \A c \in Int, base \in Int : Value(<<c>>, base) = Digit(c)
<1> TAKE c \in Int, base \in Int
<1> DEFINE s == <<c>>
<1>1. s \in Seq(Int) /\ Len(s) = 1 /\ s[1] = c /\ 1 \in 1 .. Len(s)
  OBVIOUS
<1> HIDE DEF s
<1>2. Values(s, base)[0] = 0 /\ Values(s, base)[1] = Values(s, base)[1 - 1] * base + Digit(s[1])
  BY <1>1, ValuesEquations, Zenon
<1>3. Digit(c) \in Int
  BY DEF Digit, ZERO
<1>4. Values(s, base)[1] = 0 * base + Digit(s[1])
  BY <1>2
<1>5. Value(s, base) = Digit(c)
  <2>1. 0 * base = 0
    OBVIOUS
  <2>2. Values(s, base)[1] = Digit(c)
    BY <1>1, <1>3, <1>4, <2>1
  <2> QED
    BY <1>1, <2>2, ValueIs, Zenon
<1> QED
  BY <1>5 DEF s

(* One more character at the end.                                           *)
LEMMA ValueSnoc ==
  ASSUME NEW base \in Nat, NEW s \in Seq(Int), NEW c \in Int
  PROVE  Value(s \o <<c>>, base) = Value(s, base) * base + Digit(c)
<1> DEFINE t == <<c>>
<1>1. t \in Seq(Int) /\ Len(t) = 1 /\ base \in Int
  OBVIOUS
<1>2. Value(t, base) = Digit(c)
  BY <1>1, ValueOne
<1> HIDE DEF t
<1>3. Value(s \o t, base) = Value(s, base) * Power(base, Len(t)) + Value(t, base)
  BY <1>1, ValueConcat, Zenon
<1>4. Value(s \o t, base) = Value(s, base) * base + Digit(c)
  BY <1>1, <1>2, <1>3, PowerOne
<1> QED
  BY <1>4 DEF t

(* Zeros read zero, however many put_u64 writes.                            *)
LEMMA Zeros ==
  ASSUME NEW z \in Nat
  PROVE  LET s == [k \in 1 .. z |-> ZERO] IN s \in Seq(Int) /\ Len(s) = z /\ Value(s, 10) = 0
<1> DEFINE s == [k \in 1 .. z |-> ZERO]
           T == {n \in Nat : n <= z => Values(s, 10)[n] = 0}
<1>1. s \in Seq(Int) /\ Len(s) = z /\ \A n \in 1 .. z : s[n] = ZERO
  BY DEF ZERO
<1> HIDE DEF s
<1>2. 0 \in T
  BY <1>1, ValuesEquations
<1>3. ASSUME NEW n \in Nat, n \in T PROVE n + 1 \in T
  <2> SUFFICES ASSUME n + 1 <= z PROVE Values(s, 10)[n + 1] = 0
    OBVIOUS
  <2>1. n + 1 \in 1 .. Len(s) /\ (n + 1) - 1 = n /\ s[n + 1] = ZERO
    BY <1>1
  <2>2. Values(s, 10)[n + 1] = Values(s, 10)[n] * 10 + Digit(ZERO)
    <3>1. 10 \in Int /\ n \in Nat
      OBVIOUS
    <3>2. Values(s, 10)[n + 1] = Values(s, 10)[(n + 1) - 1] * 10 + Digit(s[n + 1])
      BY <1>1, <2>1, <3>1, ValuesEquations, Zenon
    <3> QED
      BY <2>1, <3>2
  <2>3. Values(s, 10)[n] = 0
    BY <1>3
  <2>4. Digit(ZERO) = 0
    BY DEF Digit, ZERO
  <2> QED
    BY <2>2, <2>3, <2>4
<1> HIDE DEF T
<1>4. Nat \subseteq T
  BY <1>2, <1>3, SetInduction
<1>5. Value(s, 10) = 0
  BY <1>1, <1>4, ValueIs DEF T
<1> QED
  BY <1>1, <1>5 DEF s

-----------------------------------------------------------------------------
(* The digits of a number.                                                  *)

(* The digits of the numbers of one sign.                                   *)
LEMMA DigitsOneSign ==
  ASSUME NEW e \in {1, -1}
  PROVE  \E f \in [Nat -> Seq(Int)] :
           \A n \in Nat : f[n] = IF n = 0 THEN <<>> ELSE <<Remainder(e * n) + ZERO>> \o f[n \div 10]
<1> DEFINE S == Seq(Int)
           c(n) == Remainder(e * n) + ZERO
           G == [n \in Nat |-> [f \in [Nat -> S] |-> IF n = 0 THEN <<>> ELSE <<c(n)>> \o f[n \div 10]]]
<1>1. \A n \in Nat : c(n) \in Int
  <2> TAKE n \in Nat
  <2>1. e * n \in Int
    OBVIOUS
  <2> QED
    BY <2>1, QuotientFacts DEF ZERO
<1> HIDE DEF c
<1>2. <<>> \in S /\ \A n \in Nat : \A s \in S : <<c(n)>> \o s \in S
  BY <1>1
<1> HIDE DEF S
<1>3. G \in Functional(S)
  BY <1>2, DivTen DEF Functional
<1>4. Earlier(G, S)
  BY DivTen DEF Earlier
<1>5. PICK f \in [Nat -> S] : \A n \in Nat : f[n] = G[n][f]
  <2> HIDE DEF G
  <2> QED
    BY <1>2, <1>3, <1>4, Recursion
<1>6. \A n \in Nat : f[n] = IF n = 0 THEN <<>> ELSE <<c(n)>> \o f[n \div 10]
  BY <1>5
<1> QED
  BY <1>5, <1>6, Zenon DEF c, S

(* Digits satisfies its equations, on both sides of zero.                   *)
LEMMA DigitsEquation ==
  /\ Digits[0] = <<>>
  /\ \A n \in Int : n # 0 => Digits[n] = <<Remainder(n) + ZERO>> \o Digits[Quotient(n)]
<1> DEFINE nil == <<>>
           cons(n, s) == <<Remainder(n) + ZERO>> \o s
           Solves(d) == d = [n \in Int |-> IF n = 0 THEN nil ELSE cons(n, d[Quotient(n)])]
<1>1. PICK p \in [Nat -> Seq(Int)] : \A n \in Nat : p[n] = IF n = 0 THEN nil ELSE cons(1 * n, p[n \div 10])
  BY DigitsOneSign
<1>2. PICK q \in [Nat -> Seq(Int)] : \A n \in Nat : q[n] = IF n = 0 THEN nil ELSE cons((-1) * n, q[n \div 10])
  BY DigitsOneSign, Zenon
<1>3. Digits = CHOOSE d : Solves(d)
  BY DEF Digits
<1> SUFFICES Digits[0] = nil /\ \A n \in Int : n # 0 => Digits[n] = cons(n, Digits[Quotient(n)])
  BY Zenon
<1> HIDE DEF nil, cons
<1> DEFINE d == [n \in Int |-> IF n >= 0 THEN p[n] ELSE q[-n]]
<1>4. ASSUME NEW n \in Int PROVE d[n] = IF n = 0 THEN nil ELSE cons(n, d[Quotient(n)])
  <2>1. CASE n >= 0
    <3>1. n \in Nat /\ 1 * n = n /\ Quotient(n) = n \div 10 /\ n \div 10 >= 0 /\ n \div 10 \in Int
      BY <2>1, DivTen DEF Quotient
    <3> QED
      BY <1>1, <3>1
  <2>2. CASE n < 0
    <3>1. PICK m \in Nat : m = -n /\ m # 0
      BY <2>2
    <3>2. (-1) * m = n /\ Quotient(n) = -(m \div 10) /\ m \div 10 \in Nat
      BY <2>2, <3>1, DivTen DEF Quotient
    <3>3. d[n] = q[m]
      BY <2>2, <3>1
    <3>4. q[m] = cons(n, q[m \div 10])
      BY <1>2, <3>1, <3>2, Zenon
    <3>5. d[Quotient(n)] = q[m \div 10]
      <4>1. CASE m \div 10 = 0
        BY <1>1, <1>2, <3>2, <4>1
      <4>2. CASE m \div 10 > 0
        <5>1. PICK k \in Nat : k = m \div 10 /\ k > 0
          BY <3>2, <4>2
        <5> QED
          BY <3>2, <5>1
      <4> QED
        BY <3>2, <4>1, <4>2
    <3> QED
      BY <2>2, <3>3, <3>4, <3>5
  <2> QED
    BY <2>1, <2>2
<1>5. Solves(d)
  <2>1. d = [n \in Int |-> d[n]]
    OBVIOUS
  <2> HIDE DEF d
  <2> QED
    BY <1>4, <2>1, Zenon
<1> HIDE DEF d
<1>6. Solves(Digits)
  BY <1>3, <1>5, Zenon
<1> DEFINE g == Digits
<1>7. g = [n \in Int |-> IF n = 0 THEN nil ELSE cons(n, g[Quotient(n)])]
  BY <1>6, Zenon
<1> HIDE DEF g
<1>8. g[0] = nil
  BY <1>7
<1>9. \A n \in Int : n # 0 => g[n] = cons(n, g[Quotient(n)])
  BY <1>7, Zenon
<1> QED
  BY <1>8, <1>9 DEF g

(* Digits are characters.                                                   *)
LEMMA DigitsType == \A n \in Int : Digits[n] \in Seq(Int)
<1> DEFINE T == {k \in Nat : \A n \in Int : -k <= n /\ n <= k => Digits[n] \in Seq(Int)}
<1>0. Digits[0] \in Seq(Int)
  <2>1. Digits[0] = <<>>
    BY DigitsEquation
  <2> QED
    BY <2>1
<1>1. 0 \in T
  BY <1>0
<1>2. ASSUME NEW k \in Nat, k \in T PROVE k + 1 \in T
  <2> SUFFICES ASSUME NEW n \in Int, -(k + 1) <= n, n <= k + 1 PROVE Digits[n] \in Seq(Int)
    OBVIOUS
  <2>1. CASE n = 0
    BY <1>0, <2>1
  <2>2. CASE n # 0
    <3> DEFINE q == Quotient(n)
               c == Remainder(n) + ZERO
    <3>1. q \in Int /\ -k <= q /\ q <= k /\ c \in Int
      BY <2>2, QuotientFacts DEF ZERO
    <3>2. Digits[n] = <<c>> \o Digits[q]
      BY <2>2, DigitsEquation
    <3> HIDE DEF q, c
    <3>3. Digits[q] \in Seq(Int)
      BY <1>2, <3>1
    <3> QED
      BY <3>1, <3>2, <3>3
  <2> QED
    BY <2>1, <2>2
<1> HIDE DEF T
<1>3. Nat \subseteq T
  BY <1>1, <1>2, SetInduction
<1> TAKE n \in Int
<1>4. CASE n >= 0
  <2>1. n \in Nat /\ -n <= n /\ n <= n
    BY <1>4
  <2> QED
    BY <1>3, <2>1 DEF T
<1>5. CASE n < 0
  <2>1. PICK k \in Nat : -k <= n /\ n <= k
    BY <1>5
  <2> QED
    BY <1>3, <2>1 DEF T
<1> QED
  BY <1>4, <1>5

(* The digits turned round are the numeral of the number.                   *)
LEMMA DigitsNumeral ==
  \A n \in Nat : /\ Value(Reverse(Digits[n]), 10) = n
                 /\ n > 0 => /\ IsNumeral(Reverse(Digits[n]))
                             /\ Reverse(Digits[n])[1] # ZERO
<1> DEFINE R(n) == Reverse(Digits[n])
           Good(n) == /\ Value(R(n), 10) = n
                      /\ \A j \in 1 .. Len(R(n)) : R(n)[j] \in ZERO .. ZERO + 9
                      /\ n > 0 => R(n) # <<>> /\ R(n)[1] # ZERO
           T == {k \in Nat : \A n \in Nat : n <= k => Good(n)}
<1>0. \A n \in Nat : R(n) \in Seq(Int)
  BY DigitsType, ReverseType
<1>1. Good(0) /\ R(0) = <<>>
  <2>1. Digits[0] = <<>>
    BY DigitsEquation
  <2>2. R(0) = <<>>
    BY <2>1 DEF Reverse
  <2>3. Value(R(0), 10) = 0
    BY <2>2, ValueEmpty
  <2> HIDE DEF R
  <2> QED
    BY <2>2, <2>3
<1>2. 0 \in T
  <2> HIDE DEF Good
  <2> QED
    BY <1>1
<1>3. ASSUME NEW k \in Nat, k \in T PROVE k + 1 \in T
  <2> SUFFICES ASSUME NEW n \in Nat, n <= k + 1 PROVE Good(n)
    OBVIOUS
  <2>1. CASE n = 0
    <3> HIDE DEF Good
    <3> QED
      BY <1>1, <2>1
  <2>2. CASE n # 0
    <3>0. PICK q \in Nat, r \in 0 .. 9 : q = Quotient(n) /\ r = Remainder(n) /\ n = 10 * q + r /\ (n # 0 => q < n)
      BY QuotientNat
    <3>1. q \in Nat /\ r \in 0 .. 9 /\ n = 10 * q + r /\ q <= k
      BY <2>2, <3>0
    <3>i. n \in Int /\ q \in Int
      BY <3>1
    <3>2. Digits[n] = <<r + ZERO>> \o Digits[q]
      BY <2>2, <3>0, <3>i, DigitsEquation, Zenon
    <3> DEFINE c == r + ZERO
    <3>3. c \in ZERO .. ZERO + 9 /\ c \in Int /\ Digit(c) = r /\ (r # 0 => c # ZERO)
      BY <3>1 DEF Digit, ZERO
    <3> HIDE DEF c
    <3>4. R(n) = R(q) \o <<c>>
      <4> DEFINE t == Digits[q]
      <4>1. t \in Seq(Int) /\ Digits[n] = <<c>> \o t
        BY <3>i, <3>2, DigitsType DEF c
      <4> HIDE DEF t
      <4>2. Reverse(<<c>> \o t) = Reverse(t) \o <<c>>
        BY <3>3, <4>1, ReverseCons
      <4> QED
        BY <4>1, <4>2 DEF t
    <3>5. Good(q)
      BY <1>3, <3>1
    <3>6. Value(R(n), 10) = n
      <4> DEFINE u == R(q)
      <4>0. u \in Seq(Int)
        BY <1>0, <3>1
      <4>1. Value(u \o <<c>>, 10) = Value(u, 10) * 10 + Digit(c)
        <5> HIDE DEF u
        <5> QED
          BY <3>3, <4>0, ValueSnoc
      <4>2. Value(R(q), 10) = q
        BY <3>5
      <4> HIDE DEF R
      <4>3. Value(R(n), 10) = Value(R(q) \o <<c>>, 10)
        BY <3>4, Zenon
      <4> QED
        BY <3>1, <3>3, <4>1, <4>2, <4>3
    <3>7. \A j \in 1 .. Len(R(n)) : R(n)[j] \in ZERO .. ZERO + 9
      <4>1. \A j \in 1 .. Len(R(q)) : R(q)[j] \in ZERO .. ZERO + 9
        BY <3>5
      <4> DEFINE u == R(q)
      <4>2. u \in Seq(Int) /\ R(n) = u \o <<c>>
        BY <1>0, <3>1, <3>4
      <4> HIDE DEF R
      <4> HIDE DEF u
      <4>3. \A j \in 1 .. Len(u) + 1 : (u \o <<c>>)[j] = IF j <= Len(u) THEN u[j] ELSE c
        BY <3>3, <4>2
      <4>4. Len(u \o <<c>>) = Len(u) + 1
        BY <4>2
      <4> QED
        BY <3>3, <4>1, <4>2, <4>3, <4>4 DEF u
    <3>8. R(n) # <<>> /\ R(n)[1] # ZERO
      <4>1. CASE q = 0
        <5>1. R(q) = <<>> /\ r # 0
          BY <1>1, <2>2, <3>1, <4>1
        <5> HIDE DEF R
        <5>2. R(n) = <<c>>
          BY <3>3, <3>4, <5>1
        <5> QED
          BY <3>3, <5>1, <5>2
      <4>2. CASE q > 0
        <5> HIDE DEF R
        <5>1. R(q) # <<>> /\ R(q)[1] # ZERO /\ R(q) \in Seq(Int)
          BY <1>0, <3>5, <4>2
        <5> QED
          BY <3>3, <3>4, <5>1
      <4> QED
        BY <3>1, <4>1, <4>2
    <3> QED
      BY <3>6, <3>7, <3>8
  <2> QED
    BY <2>1, <2>2
<1> HIDE DEF T
<1>4. Nat \subseteq T
  BY <1>2, <1>3, SetInduction
<1> TAKE n \in Nat
<1>5. Good(n)
  <2> HIDE DEF Good
  <2>1. n \in T /\ n <= n
    BY <1>4
  <2> QED
    BY <2>1 DEF T
<1> HIDE DEF R
<1>6. n > 0 => IsNumeral(R(n))
  <2>1. DOMAIN R(n) = 1 .. Len(R(n))
    BY <1>0
  <2> QED
    BY <1>5, <2>1 DEF IsNumeral
<1> QED
  BY <1>5, <1>6 DEF R

(* A number below a power of ten has no more digits than that has zeros.    *)
LEMMA DigitsShort ==
  \A d \in Nat : \A n \in Int : -Power(10, d) < n /\ n < Power(10, d) => Len(Digits[n]) <= d
<1> DEFINE T == {d \in Nat : \A n \in Int : -Power(10, d) < n /\ n < Power(10, d) => Len(Digits[n]) <= d}
<1>0. Len(Digits[0]) = 0
  <2>1. Digits[0] = <<>>
    BY DigitsEquation
  <2> QED
    BY <2>1
<1>1. 0 \in T
  <2>1. Power(10, 0) = 1
    BY PowerStep
  <2> QED
    BY <1>0, <2>1
<1>2. ASSUME NEW d \in Nat, d \in T PROVE d + 1 \in T
  <2>1. PICK P \in Nat : P = Power(10, d) /\ Power(10, d + 1) = 10 * P
    BY PowerPositive
  <2> SUFFICES ASSUME NEW n \in Int, -(10 * P) < n, n < 10 * P PROVE Len(Digits[n]) <= d + 1
    BY <2>1
  <2>2. CASE n = 0
    BY <1>0, <2>2
  <2>3. CASE n # 0
    <3> DEFINE q == Quotient(n)
               r == Remainder(n)
               c == r + ZERO
    <3>0. /\ q \in Int /\ r \in Int /\ n = 10 * q + r
          /\ n >= 0 => q >= 0 /\ r \in 0 .. 9
          /\ n < 0 => q <= 0 /\ -r \in 0 .. 9
      BY QuotientFacts
    <3>2. Digits[n] = <<c>> \o Digits[q]
      BY <2>3, DigitsEquation
    <3> HIDE DEF q, r
    <3>1. q \in Int /\ -P < q /\ q < P /\ c \in Int
      BY <3>0 DEF ZERO
    <3> HIDE DEF q, c
    <3>3. Len(Digits[q]) <= d /\ Digits[q] \in Seq(Int)
      BY <1>2, <2>1, <3>1, DigitsType
    <3> QED
      BY <3>1, <3>2, <3>3
  <2> QED
    BY <2>2, <2>3
<1> HIDE DEF T
<1>3. Nat \subseteq T
  BY <1>1, <1>2, SetInduction
<1> QED
  BY <1>3 DEF T

(* One that is no smaller has more.                                         *)
LEMMA DigitsLong == \A d \in Nat : \A n \in Nat : n >= Power(10, d) => Len(Digits[n]) > d
<1> DEFINE T == {d \in Nat : \A n \in Nat : n >= Power(10, d) => Len(Digits[n]) > d}
<1>0. ASSUME NEW n \in Nat, n > 0
      PROVE  Digits[n] \in Seq(Int) /\ Len(Digits[n]) = Len(Digits[Quotient(n)]) + 1 /\ Len(Digits[Quotient(n)]) \in Nat
  <2> DEFINE q == Quotient(n)
             c == Remainder(n) + ZERO
  <2>1. q \in Int /\ c \in Int
    BY QuotientFacts DEF ZERO
  <2>2. Digits[n] = <<c>> \o Digits[q]
    <3>1. n \in Int /\ n # 0
      BY <1>0
    <3> QED
      BY <3>1, DigitsEquation
  <2>3. Digits[q] \in Seq(Int)
    BY <2>1, DigitsType
  <2> HIDE DEF q, c
  <2>4. Digits[n] \in Seq(Int) /\ Len(Digits[n]) = Len(Digits[q]) + 1 /\ Len(Digits[q]) \in Nat
    BY <2>1, <2>2, <2>3
  <2> QED
    BY <2>4 DEF q
<1>1. 0 \in T
  <2>1. Power(10, 0) = 1
    BY PowerStep
  <2> QED
    BY <1>0, <2>1
<1>2. ASSUME NEW d \in Nat, d \in T PROVE d + 1 \in T
  <2>1. PICK P \in Nat : P = Power(10, d) /\ Power(10, d + 1) = 10 * P /\ P >= 1
    BY PowerPositive
  <2> SUFFICES ASSUME NEW n \in Nat, n >= 10 * P PROVE Len(Digits[n]) > d + 1
    BY <2>1
  <2>2. n > 0 /\ Quotient(n) \in Nat /\ Quotient(n) >= P
    <3>1. PICK q \in Nat, r \in 0 .. 9 : q = Quotient(n) /\ n = 10 * q + r
      BY QuotientNat
    <3> QED
      BY <2>1, <3>1
  <2>3. Len(Digits[Quotient(n)]) > d
    BY <1>2, <2>1, <2>2
  <2> QED
    BY <1>0, <2>2, <2>3
<1> HIDE DEF T
<1>3. Nat \subseteq T
  BY <1>1, <1>2, SetInduction
<1> QED
  BY <1>3 DEF T

-----------------------------------------------------------------------------
(* Words, and what the functions of terminal.c write for them.              *)

(* The size of a word.                                                      *)
LEMMA WordSize ==
  /\ WORD \in Nat /\ WORD >= 2 /\ WORD <= Power(10, BITS)
  /\ Power(2, BITS - 1) \in Nat /\ WORD = 2 * Power(2, BITS - 1) /\ Power(2, BITS - 1) >= 1
<1> DEFINE T == {n \in Nat : Power(2, n) >= 1 /\ Power(2, n) <= Power(10, n)}
<1>1. Power(2, 0) = 1 /\ Power(10, 0) = 1 /\ \A n \in Nat : Power(2, n) \in Nat /\ Power(2, n + 1) = 2 * Power(2, n)
  BY PowerStep
<1>2. 0 \in T /\ \A n \in Nat : n \in T => n + 1 \in T
  BY <1>1, PowerPositive
<1>3. Nat \subseteq T
  <2> HIDE DEF T
  <2> QED
    BY <1>2, SetInduction
<1>4. PICK b \in Nat : BITS = b + 1 /\ BITS \in Nat
  <2>1. BITS \in Nat /\ BITS - 1 \in Nat /\ BITS = (BITS - 1) + 1
    BY NumbersAssumption
  <2> QED
    BY <2>1, Zenon
<1>5. Power(2, b) \in Nat /\ Power(2, b) >= 1 /\ Power(2, b + 1) = 2 * Power(2, b) /\ Power(2, b + 1) <= Power(10, b + 1)
  BY <1>1, <1>3
<1>6. BITS - 1 = b
  BY <1>4
<1> QED
  BY <1>4, <1>5, <1>6 DEF WORD

(* DIGITS is what its comment says.                                         *)
LEMMA DigitsOfWord ==
  DIGITS \in 1 .. BITS /\ Power(10, DIGITS - 1) <= WORD - 1 /\ WORD - 1 < Power(10, DIGITS)
<1> DEFINE T == {d \in Nat : WORD - 1 < Power(10, d)}
<1>0. BITS \in Nat
  BY NumbersAssumption
<1>1. BITS \in T
  BY <1>0, WordSize, PowerPositive
<1>2. PICK d \in T : \A e \in T : d <= e
  <2> T \in SUBSET Nat
    OBVIOUS
  <2> HIDE DEF T
  <2> QED
    BY <1>1, Least
<1>3. d # 0
  <2>1. Power(10, 0) = 1
    BY PowerStep
  <2> QED
    BY <2>1, <1>2, WordSize
<1>4. d - 1 \in Nat /\ d - 1 \notin T
  BY <1>2, <1>3
<1>5. d \in 1 .. BITS /\ Power(10, d - 1) <= WORD - 1 /\ WORD - 1 < Power(10, d)
  BY <1>0, <1>1, <1>2, <1>3, <1>4, WordSize, PowerPositive
<1> QED
  BY <1>5, Zenon DEF DIGITS

(* Width finds the first power of ten above a word.                         *)
LEMMA WidthOfWord ==
  ASSUME NEW num \in UInts
  PROVE  /\ Width(num) \in 1 .. DIGITS /\ num < Power(10, Width(num))
         /\ \A j \in 1 .. Width(num) - 1 : num >= Power(10, j)
<1> DEFINE T == {d \in Nat : d >= 1 /\ num < Power(10, d)}
<1>0. DIGITS \in Nat /\ DIGITS >= 1 /\ num \in Nat /\ num < Power(10, DIGITS)
  BY NumbersAssumption, WordSize, DigitsOfWord, PowerPositive DEF UInts
<1>1. DIGITS \in T
  BY <1>0
<1>2. PICK d \in T : \A e \in T : d <= e
  <2> T \in SUBSET Nat
    OBVIOUS
  <2> HIDE DEF T
  <2> QED
    BY <1>1, Least
<1>3. d \in 1 .. DIGITS /\ num < Power(10, d) /\ \A j \in 1 .. d - 1 : num >= Power(10, j)
  BY <1>0, <1>1, <1>2, PowerPositive
<1> QED
  BY <1>3, Zenon DEF Width

(* uint_to_string writes the numeral of its argument, in Width characters.  *)
LEMMA UintLength ==
  ASSUME NEW num \in UInts
  PROVE  /\ uint_to_string(num) \in Seq(Int) /\ Len(uint_to_string(num)) = Width(num)
         /\ IsNumeral(uint_to_string(num)) /\ Value(uint_to_string(num), 10) = num
<1>0. num \in Nat /\ DIGITS \in Nat
  BY NumbersAssumption, WordSize, DigitsOfWord DEF UInts
<1>w. PICK w \in Nat : w = Width(num) /\ w >= 1 /\ num < Power(10, w) /\ \A j \in 1 .. w - 1 : num >= Power(10, j)
  BY <1>0, WidthOfWord
<1>1. CASE num = 0
  <2>1. w = 1
    <3>1. \A j \in Nat : Power(10, j) >= 1
      BY PowerPositive
    <3> QED
      <4>1. ~ (w > 1)
        <5> SUFFICES ASSUME w > 1 PROVE FALSE
          OBVIOUS
        <5>1. 1 \in 1 .. w - 1
          BY <1>w
        <5>2. num >= Power(10, 1) /\ Power(10, 1) = 10
          BY <1>w, <5>1, PowerOne
        <5> QED
          BY <1>1, <5>2
      <4> QED
        BY <1>w, <4>1
  <2> DEFINE s == <<ZERO>>
  <2>2. s \in Seq(Int) /\ Len(s) = 1 /\ s # <<>> /\ s[1] = ZERO /\ DOMAIN s = {1}
    BY DEF ZERO
  <2>3. Value(s, 10) = 0
    <3>1. Digit(ZERO) = 0 /\ ZERO \in Int
      BY DEF Digit, ZERO
    <3> QED
      BY <3>1, ValueOne
  <2> HIDE DEF s
  <2>4. IsNumeral(s)
    BY <2>2 DEF IsNumeral, ZERO
  <2>5. uint_to_string(num) = s
    BY <1>1 DEF uint_to_string, s
  <2> QED
    BY <1>w, <1>1, <2>1, <2>2, <2>3, <2>4, <2>5, Zenon
<1>2. CASE num > 0
  <2>1. uint_to_string(num) = Reverse(Digits[num])
    BY <1>0, <1>2 DEF uint_to_string
  <2>2. Digits[num] \in Seq(Int) /\ Len(Digits[num]) \in Nat
    BY <1>0, DigitsType
  <2>3. Len(Digits[num]) <= w
    <3>1. Power(10, w) \in Nat /\ num \in Int /\ -Power(10, w) < num
      BY <1>0, <1>w, PowerPositive
    <3> QED
      BY <1>w, <3>1, DigitsShort
  <2>4. Len(Digits[num]) >= w
    <3>1. CASE w = 1
      <4>1. Len(Digits[num]) > 0
        BY <1>0, <1>2, DigitsLong, PowerStep
      <4> QED
        BY <2>2, <3>1, <4>1
    <3>2. CASE w > 1
      <4>1. PICK v \in Nat : v = w - 1 /\ v \in 1 .. w - 1
        BY <1>w, <3>2
      <4>2. Len(Digits[num]) > v
        BY <1>0, <1>w, <4>1, DigitsLong
      <4> QED
        BY <1>w, <2>2, <4>1, <4>2
    <3> QED
      BY <1>w, <3>1, <3>2
  <2> QED
    BY <1>0, <1>w, <1>2, <2>1, <2>2, <2>3, <2>4, ReverseType, DigitsNumeral
<1> QED
  BY <1>0, <1>1, <1>2

(* The lengths and readings of what the functions of terminal.c write.      *)
LEMMA IntRange ==
  ASSUME NEW num \in Ints
  PROVE  /\ num \in Int /\ INT_MIN \in Int /\ Negate(num) \in Int
         /\ -Power(10, DIGITS) < num /\ num < Power(10, DIGITS)
         /\ -Power(10, DIGITS) < Negate(num) /\ Negate(num) < Power(10, DIGITS)
         /\ DIGITS \in Nat
         /\ num # INT_MIN => Negate(num) = -num
<1>1. PICK h \in Nat : h = Power(2, BITS - 1) /\ WORD = 2 * h /\ h >= 1
  BY WordSize
<1>2. DIGITS \in Nat
  BY NumbersAssumption, DigitsOfWord
<1>3. PICK P \in Nat : P = Power(10, DIGITS) /\ 2 * h - 1 < P
  BY <1>1, <1>2, DigitsOfWord, PowerPositive
<1>4. INT_MIN = -h /\ num \in -h .. h - 1
  BY <1>1 DEF INT_MIN, Ints
<1> QED
  BY <1>1, <1>2, <1>3, <1>4 DEF Negate

(* int_to_string writes no more than a sign and DIGITS digits, and except   *)
(* for INT_MIN the numeral of its argument.                                 *)
LEMMA IntString ==
  ASSUME NEW num \in Ints
  PROVE  /\ int_to_string(num) \in Seq(Int) /\ Len(int_to_string(num)) <= DIGITS + 1
         /\ num # INT_MIN => Reads(int_to_string(num), num)
<1>1. CASE num = 0
  <2> DEFINE s == <<ZERO>>
  <2>1. s \in Seq(Int) /\ Len(s) = 1 /\ s # <<>> /\ s[1] = ZERO /\ DOMAIN s = {1}
    BY DEF ZERO
  <2>2. Value(s, 10) = 0
    <3>1. Digit(ZERO) = 0 /\ ZERO \in Int
      BY DEF Digit, ZERO
    <3> QED
      BY <3>1, ValueOne
  <2> HIDE DEF s
  <2>3. IsNumeral(s)
    BY <2>1 DEF IsNumeral, ZERO
  <2>4. int_to_string(num) = s
    BY <1>1 DEF int_to_string, s
  <2>5. Reads(s, num)
    BY <1>1, <2>2, <2>3 DEF Reads
  <2>6. DIGITS \in Nat /\ s \in Seq(Int) /\ Len(s) = 1
    BY <2>1, IntRange
  <2> QED
    BY <2>4, <2>5, <2>6
<1>2. CASE num > 0
  <2> DEFINE s == Digits[num]
             r == Reverse(s)
  <2>1. num \in Nat /\ s \in Seq(Int)
    BY <1>2, IntRange, DigitsType
  <2>2. Len(s) <= DIGITS
    BY IntRange, DigitsShort
  <2>3. IsNumeral(r) /\ Value(r, 10) = num
    BY <1>2, <2>1, DigitsNumeral
  <2>4. int_to_string(num) = r
    BY <1>2, <2>1 DEF int_to_string
  <2> HIDE DEF s
  <2>5. r \in Seq(Int) /\ Len(r) = Len(s)
    BY <2>1, ReverseType
  <2> HIDE DEF r
  <2>6. Reads(r, num)
    BY <1>2, <2>1, <2>3 DEF Reads
  <2> QED
    BY <2>1, <2>2, <2>4, <2>5, <2>6, IntRange
<1>3. CASE num < 0
  <2> DEFINE m == Negate(num)
             s == Digits[m]
             u == s \o <<MINUS>>
             r == Reverse(u)
  <2>1. m \in Int /\ s \in Seq(Int)
    BY IntRange, DigitsType
  <2>2. Len(s) <= DIGITS
    BY IntRange, DigitsShort
  <2>3. int_to_string(num) = r
    BY <1>3 DEF int_to_string
  <2>4. num # INT_MIN => IsNumeral(Reverse(s)) /\ Value(Reverse(s), 10) = -num
    <3> SUFFICES ASSUME num # INT_MIN PROVE IsNumeral(Reverse(s)) /\ Value(Reverse(s), 10) = -num
      OBVIOUS
    <3>1. m = -num
      BY IntRange
    <3>2. m \in Nat /\ m > 0
      BY <1>3, <2>1, <3>1, IntRange
    <3> HIDE DEF m
    <3> QED
      BY <3>1, <3>2, DigitsNumeral
  <2> HIDE DEF s
  <2>5. MINUS \in Int
    BY DEF MINUS
  <2>6. u \in Seq(Int) /\ Len(u) = Len(s) + 1
    BY <2>1, <2>5
  <2>7. Head(r) = MINUS /\ Tail(r) = Reverse(s)
    BY <2>1, <2>5, ReverseSnoc
  <2>8. r \in Seq(Int) /\ Len(r) = Len(s) + 1
    <3> HIDE DEF u
    <3> QED
      BY <2>6, ReverseType
  <2> HIDE DEF r, u
  <2>9. num # INT_MIN => Reads(r, num)
    <3> SUFFICES ASSUME num # INT_MIN PROVE Reads(r, num)
      OBVIOUS
    <3>1. IsNumeral(Tail(r)) /\ Value(Tail(r), 10) = -num
      BY <2>4, <2>7, Zenon
    <3>2. -(-num) = num
      BY IntRange
    <3> QED
      BY <1>3, <2>7, <3>1, <3>2 DEF Reads
  <2> QED
    BY <2>1, <2>2, <2>3, <2>8, <2>9, IntRange
<1> QED
  BY <1>1, <1>2, <1>3, IntRange

(* A word is as many nibbles as put_hex writes.                             *)
LEMMA WordOfNibbles == BITS \div 4 \in Nat /\ WORD = Power(16, BITS \div 4)
<1> DEFINE T == {n \in Nat : Power(2, 4 * n) = Power(16, n)}
<1>1. \A b \in Nat : Power(b, 0) = 1 /\ \A n \in Nat : Power(b, n) \in Nat /\ Power(b, n + 1) = b * Power(b, n)
  BY PowerStep
<1>2. 0 \in T
  BY <1>1
<1>3. ASSUME NEW n \in Nat, n \in T PROVE n + 1 \in T
  <2>1. PICK k \in Nat : k = 4 * n
    OBVIOUS
  <2>2. k + 1 \in Nat /\ k + 2 \in Nat /\ k + 3 \in Nat /\ 4 * (n + 1) = ((k + 3) + 1) /\ k + 3 = (k + 2) + 1 /\ k + 2 = (k + 1) + 1
    BY <2>1
  <2>3. PICK P \in Nat : P = Power(2, k)
    BY <1>1
  <2>4. Power(2, k + 1) = 2 * P
    BY <1>1, <2>3
  <2>5. Power(2, k + 2) = 4 * P
    BY <1>1, <2>2, <2>4
  <2>6. Power(2, k + 3) = 8 * P
    BY <1>1, <2>2, <2>5
  <2>7. Power(2, 4 * (n + 1)) = 16 * P
    <3>1. Power(2, (k + 3) + 1) = 2 * Power(2, k + 3)
      BY <1>1, <2>2
    <3>2. Power(2, (k + 3) + 1) = 16 * P
      BY <2>6, <3>1
    <3> QED
      BY <2>2, <3>2, Zenon
  <2>8. Power(16, n + 1) = 16 * P
    BY <1>1, <1>3, <2>1, <2>3
  <2> QED
    BY <2>7, <2>8
<1> HIDE DEF T
<1>4. Nat \subseteq T
  BY <1>2, <1>3, SetInduction
<1>5. PICK n \in Nat : n = BITS \div 4 /\ BITS = 4 * n
  <2>1. BITS \div 4 \in Nat /\ BITS = 4 * (BITS \div 4)
    BY NumbersAssumption
  <2> QED
    BY <2>1, Zenon
<1> QED
  BY <1>4, <1>5 DEF T, WORD

(* The characters of the nibbles.                                           *)
LEMMA HexChars ==
  /\ \A d \in 0 .. 15 : HexChar(d, 65) \in Int /\ Digit(HexChar(d, 65)) = d
  /\ \A d \in 0 .. 15 : HexChar(d, 97) \in Int
BY DEF HexChar, Digit, ZERO

(* n nibbles are n characters.                                              *)
LEMMA HexType ==
  ASSUME NEW num \in Nat, NEW n \in Nat, NEW letter \in {65, 97}
  PROVE  HexDigits(num, n, letter) \in Seq(Int) /\ Len(HexDigits(num, n, letter)) = n
<1>1. \A j \in 1 .. n : HexChar((num \div Power(16, j - 1)) % 16, letter) \in Int
  <2> TAKE j \in 1 .. n
  <2>1. PICK p \in Nat \ {0} : p = Power(16, j - 1)
    BY PowerNotZero
  <2>2. PICK q \in Nat : q = num \div p
    BY Division
  <2>3. q % 16 \in 0 .. 15
    OBVIOUS
  <2> QED
    BY <2>1, <2>2, <2>3, HexChars
<1> QED
  BY <1>1 DEF HexDigits

(* The last nibble, then those of the number shifted by four.               *)
LEMMA HexCons ==
  ASSUME NEW num \in Nat, NEW n \in Nat
  PROVE  HexDigits(num, n + 1, 65) = <<HexChar(num % 16, 65)>> \o HexDigits(num \div 16, n, 65)
<1> DEFINE c == HexChar(num % 16, 65)
           q == num \div 16
           s == HexDigits(q, n, 65)
           u == HexDigits(num, n + 1, 65)
<1>1. q \in Nat /\ c \in Int
  BY HexChars
<1> HIDE DEF q, c
<1>2. s \in Seq(Int) /\ Len(s) = n /\ u \in Seq(Int) /\ Len(u) = n + 1
  <2>1. n + 1 \in Nat /\ 65 \in {65, 97}
    OBVIOUS
  <2>2. s \in Seq(Int) /\ Len(s) = n
    BY <1>1, <2>1, HexType
  <2>3. u \in Seq(Int) /\ Len(u) = n + 1
    BY <2>1, HexType
  <2> QED
    BY <2>2, <2>3
<1>3. u[1] = c
  <2>1. Power(16, 0) = 1 /\ num \div 1 = num /\ 1 \in 1 .. n + 1 /\ 1 - 1 = 0
    BY PowerStep
  <2> QED
    BY <2>1 DEF HexDigits, c
<1>4. ASSUME NEW j \in 1 .. n PROVE u[j + 1] = s[j]
  <2>1. PICK p \in Nat \ {0} : p = Power(16, j - 1)
    BY PowerNotZero
  <2>2. (j + 1) - 1 = (j - 1) + 1 /\ j - 1 \in Nat /\ j + 1 \in 1 .. n + 1
    OBVIOUS
  <2>3. Power(16, (j + 1) - 1) = 16 * p
    BY <2>1, <2>2, PowerStep
  <2>4. q \div p = num \div (16 * p)
    BY DivDiv, Zenon DEF q
  <2>5. u[j + 1] = HexChar((num \div (16 * p)) % 16, 65)
    BY <2>2, <2>3 DEF HexDigits
  <2>6. s[j] = HexChar((q \div p) % 16, 65)
    BY <2>1 DEF HexDigits
  <2> QED
    BY <2>4, <2>5, <2>6
<1> HIDE DEF s, u
<1> DEFINE v == <<c>> \o s
<1>5. v \in Seq(Int) /\ Len(v) = n + 1 /\ v[1] = c /\ \A j \in 1 .. n : v[j + 1] = s[j]
  BY <1>1, <1>2
<1> HIDE DEF v
<1>6. \A k \in 1 .. n + 1 : u[k] = v[k]
  <2> TAKE k \in 1 .. n + 1
  <2>1. CASE k = 1
    BY <1>3, <1>5, <2>1
  <2>2. CASE k # 1
    <3>1. PICK j \in 1 .. n : k = j + 1
      <4>1. k - 1 \in 1 .. n /\ k = (k - 1) + 1
        BY <2>2
      <4> QED
        BY <4>1
    <3> QED
      BY <1>4, <1>5, <3>1, Zenon
  <2> QED
    BY <2>1, <2>2
<1>7. u = v
  BY <1>2, <1>5, <1>6
<1> QED
  BY <1>7 DEF u, v, s, q, c

(* n nibbles are enough for a number below the n-th power of sixteen.       *)
LEMMA HexReads ==
  \A n \in Nat : \A num \in Nat : num < Power(16, n) => Value(Reverse(HexDigits(num, n, 65)), 16) = num
<1> DEFINE T == {n \in Nat : \A num \in Nat : num < Power(16, n) => Value(Reverse(HexDigits(num, n, 65)), 16) = num}
<1>1. 0 \in T
  <2> SUFFICES ASSUME NEW num \in Nat, num < Power(16, 0)
               PROVE  Value(Reverse(HexDigits(num, 0, 65)), 16) = num
    OBVIOUS
  <2>1. num = 0
    BY PowerStep
  <2> DEFINE r == Reverse(HexDigits(num, 0, 65))
  <2>2. r \in Seq(Int) /\ Len(r) = 0
    <3> DEFINE s == HexDigits(num, 0, 65)
    <3>1. s \in Seq(Int) /\ Len(s) = 0
      BY HexType
    <3> HIDE DEF s
    <3>2. Reverse(s) \in Seq(Int) /\ Len(Reverse(s)) = 0
      BY <3>1, ReverseType, Zenon
    <3> QED
      BY <3>2 DEF s
  <2> HIDE DEF r
  <2>3. r = <<>>
    BY <2>2
  <2> QED
    BY <2>1, <2>3, ValueEmpty DEF r
<1>2. ASSUME NEW n \in Nat, n \in T PROVE n + 1 \in T
  <2> SUFFICES ASSUME NEW num \in Nat, num < Power(16, n + 1)
               PROVE  Value(Reverse(HexDigits(num, n + 1, 65)), 16) = num
    OBVIOUS
  <2>1. PICK P \in Nat : P = Power(16, n) /\ Power(16, n + 1) = 16 * P
    BY PowerStep, Zenon
  <2>2. PICK q \in Nat, d \in 0 .. 15 : q = num \div 16 /\ d = num % 16 /\ num = 16 * q + d
    OBVIOUS
  <2>3. q < P
    BY <2>1, <2>2
  <2> DEFINE c == HexChar(d, 65)
             s == HexDigits(q, n, 65)
  <2>4. c \in Int /\ Digit(c) = d
    BY HexChars
  <2>5. HexDigits(num, n + 1, 65) = <<c>> \o s
    BY <2>2, HexCons, Zenon
  <2>6. s \in Seq(Int) /\ Value(Reverse(s), 16) = q
    BY <1>2, <2>1, <2>3, HexType
  <2> HIDE DEF c, s
  <2>7. Reverse(<<c>> \o s) = Reverse(s) \o <<c>> /\ Reverse(s) \in Seq(Int)
    BY <2>4, <2>6, ReverseCons, ReverseType
  <2>8. Value(Reverse(s) \o <<c>>, 16) = Value(Reverse(s), 16) * 16 + Digit(c)
    BY <2>4, <2>7, ValueSnoc
  <2>9. Value(Reverse(HexDigits(num, n + 1, 65)), 16) = Value(Reverse(s) \o <<c>>, 16)
    BY <2>5, <2>7, Zenon
  <2> QED
    BY <2>2, <2>4, <2>6, <2>8, <2>9
<1> HIDE DEF T
<1>3. Nat \subseteq T
  BY <1>1, <1>2, SetInduction
<1> QED
  BY <1>3 DEF T

(* put_hex writes all nibbles of a word behind 0x.                          *)
LEMMA HexString ==
  ASSUME NEW num \in UInts
  PROVE  LET s == <<ZERO, 120>> \o Reverse(HexDigits(num, BITS \div 4, 65))
         IN  s \in Seq(Int) /\ Value(SubSeq(s, 3, Len(s)), 16) = num
<1> DEFINE r == Reverse(HexDigits(num, BITS \div 4, 65))
           p == <<ZERO, 120>>
           s == p \o r
<1>1. num \in Nat /\ num < Power(16, BITS \div 4) /\ BITS \div 4 \in Nat
  BY WordSize, WordOfNibbles DEF UInts
<1>2. Value(r, 16) = num
  BY <1>1, HexReads
<1>3. r \in Seq(Int)
  <2> DEFINE h == HexDigits(num, BITS \div 4, 65)
  <2>1. h \in Seq(Int)
    BY <1>1, HexType
  <2> HIDE DEF h
  <2>2. Reverse(h) \in Seq(Int)
    BY <2>1, ReverseType
  <2> QED
    BY <2>2 DEF h
<1>4. p \in Seq(Int) /\ Len(p) = 2
  BY DEF ZERO
<1> HIDE DEF r, p
<1>5. s \in Seq(Int) /\ Len(s) = Len(r) + 2
  <2>1. p \o r \in Seq(Int) /\ Len(p \o r) = Len(p) + Len(r)
    BY <1>3, <1>4, ConcatType, Zenon
  <2> QED
    BY <1>3, <1>4, <2>1
<1>6. SubSeq(s, 3, Len(s)) = r
  BY <1>3, <1>4, <1>5
<1> QED
  BY <1>2, <1>5, <1>6, Zenon DEF r, p

(* The halves of a number of two words.                                     *)
LEMMA Halves ==
  ASSUME NEW num \in 0 .. WORD * WORD - 1
  PROVE  /\ num \in Nat /\ num \div WORD \in UInts /\ num % WORD \in UInts
         /\ num = (num \div WORD) * WORD + (num % WORD)
<1>1. WORD \in Nat \ {0} /\ WORD * WORD \in Nat
  BY WordSize
<1>2. num \in Nat /\ num < WORD * WORD
  BY <1>1
<1>3. PICK q \in Nat, r \in 0 .. WORD - 1 : q = num \div WORD /\ r = num % WORD /\ num = q * WORD + r
  BY <1>1, <1>2, Division
<1>4. q < WORD
  <2> SUFFICES ASSUME WORD <= q PROVE FALSE
    BY <1>1
  <2>1. WORD * WORD <= q * WORD
    BY <1>1, Times
  <2> QED
    BY <1>1, <1>2, <1>3, <2>1
<1> QED
  BY <1>1, <1>2, <1>3, <1>4 DEF UInts

(* What put_u64 writes reads as its halves, the upper one shifted by the    *)
(* digits of a word.                                                        *)
LEMMA U64Reads ==
  ASSUME NEW num \in 0 .. WORD * WORD - 1
  PROVE  /\ PutU64(num) \in Seq(Int)
         /\ Value(PutU64(num), 10) = (num \div WORD) * Power(10, DIGITS) + (num % WORD)
<1> DEFINE up == num \div WORD
           lo == num % WORD
           a == uint_to_string(up)
           z == [k \in 1 .. Padding(lo) |-> ZERO]
           b == uint_to_string(lo)
           w == Width(lo)
<1>1. up \in UInts /\ lo \in UInts
  BY Halves
<1>2. up \in Nat /\ lo \in Nat
  BY <1>1, WordSize DEF UInts
<1> PutU64(num) = IF up = 0 THEN b ELSE a \o z \o b
  BY DEF PutU64
<1> HIDE DEF up, lo
<1>3. a \in Seq(Int) /\ Value(a, 10) = up
  BY <1>1, UintLength
<1>4. b \in Seq(Int) /\ Value(b, 10) = lo /\ Len(b) = w
  BY <1>1, UintLength
<1>5. DIGITS \in Nat /\ w \in 1 .. DIGITS
  BY <1>1, NumbersAssumption, DigitsOfWord, WidthOfWord
<1>6. z \in Seq(Int) /\ Len(z) = DIGITS - w /\ Value(z, 10) = 0
  <2>1. Padding(lo) = DIGITS - w /\ DIGITS - w \in Nat
    BY <1>5 DEF Padding
  <2> QED
    BY <2>1, Zeros
<1>7. PICK P \in Nat, Q \in Nat : P = Power(10, DIGITS - w) /\ Q = Power(10, w) /\ P * Q = Power(10, DIGITS)
  <2>1. DIGITS - w \in Nat /\ w \in Nat /\ (DIGITS - w) + w = DIGITS
    BY <1>5
  <2>2. Power(10, (DIGITS - w) + w) = Power(10, DIGITS - w) * Power(10, w)
    BY <2>1, PowerAdd
  <2>3. PICK P \in Nat, Q \in Nat : P = Power(10, DIGITS - w) /\ Q = Power(10, w)
    BY <2>1, PowerStep, Zenon
  <2>4. P * Q = Power(10, DIGITS)
    BY <2>1, <2>2, <2>3
  <2> QED
    BY <2>3, <2>4
<1> HIDE DEF a, b, z, w
<1>8. CASE up = 0
  <2>1. 0 * Power(10, DIGITS) = 0
    BY <1>7
  <2> QED
    BY <1>2, <1>4, <1>8, <2>1 DEF up, lo
<1>9. CASE up # 0
  <2>1. a \o z \in Seq(Int) /\ (a \o z) \o b \in Seq(Int)
    BY <1>3, <1>4, <1>6, ConcatType
  <2>2. Value((a \o z) \o b, 10) = Value(a \o z, 10) * Q + lo
    BY <1>4, <1>7, <2>1, ValueConcat, Zenon
  <2>3. Value(a \o z, 10) = up * P + 0
    BY <1>3, <1>6, <1>7, ValueConcat
  <2>4. (up * P + 0) * Q + lo = up * (P * Q) + lo
    BY <1>2
  <2>5. PutU64(num) = (a \o z) \o b
    BY <1>9
  <2>6. Value(PutU64(num), 10) = up * Power(10, DIGITS) + lo
    BY <1>7, <2>2, <2>3, <2>4, <2>5, Zenon
  <2> QED
    BY <2>1, <2>5, <2>6 DEF up, lo
<1> QED
  BY <1>8, <1>9

(* The text of a larger number reads larger: either the lower half grows,   *)
(* or the upper half does, which counts for more than any lower half.       *)
LEMMA U64Monotonic ==
  ASSUME NEW num \in 0 .. WORD * WORD - 1, num < WORD * WORD - 1
  PROVE  Value(PutU64(num), 10) < Value(PutU64(num + 1), 10)
<1>1. PICK W \in Nat \ {0} : W = WORD
  BY WordSize
<1>2. PICK P \in Nat : P = Power(10, DIGITS) /\ W - 1 < P
  BY <1>1, NumbersAssumption, DigitsOfWord, PowerPositive
<1>3. num + 1 \in 0 .. W * W - 1 /\ num \in 0 .. W * W - 1 /\ num \in Nat /\ num + 1 \in Nat
  BY <1>1
<1>4. PICK q \in Nat, r \in 0 .. W - 1 : q = num \div W /\ r = num % W /\ num = q * W + r
  BY <1>3, Division, Zenon
<1>5. Value(PutU64(num), 10) = q * P + r
  BY <1>1, <1>2, <1>3, <1>4, U64Reads, Zenon
<1>6. Value(PutU64(num + 1), 10) = ((num + 1) \div W) * P + ((num + 1) % W)
  BY <1>1, <1>2, <1>3, U64Reads
<1>7. CASE r < W - 1
  <2>1. num + 1 = q * W + (r + 1) /\ r + 1 \in 0 .. W - 1
    BY <1>4, <1>7
  <2>2. (num + 1) \div W = q /\ (num + 1) % W = r + 1
    BY <1>3, <2>1, DivisionUnique, Zenon
  <2>3. q * P \in Nat
    OBVIOUS
  <2> QED
    BY <1>5, <1>6, <2>2, <2>3
<1>8. CASE r = W - 1
  <2>1. num + 1 = (q + 1) * W + 0 /\ 0 \in 0 .. W - 1 /\ q + 1 \in Nat
    BY <1>4, <1>8
  <2>2. (num + 1) \div W = q + 1 /\ (num + 1) % W = 0
    BY <1>3, <2>1, DivisionUnique, Zenon
  <2>3. (q + 1) * P = q * P + P /\ q * P \in Nat
    OBVIOUS
  <2> QED
    BY <1>2, <1>5, <1>6, <1>8, <2>2, <2>3
<1> QED
  BY <1>7, <1>8

-----------------------------------------------------------------------------
(* What a format expands to.                                                *)

(* What the last characters of a format make of the arguments left for them.*)
Lefts == Seq(Seq(Int))

(* The function inside Expansion.                                           *)
From(f) ==
  LET from[n \in 0 .. Len(f)] ==
        [left \in Seq(Seq(Int)) |->
           LET c == f[Len(f) + 1 - n]
               d == f[Len(f) + 2 - n]
           IN  IF n = 0 THEN <<>>
               ELSE IF c # PERCENT \/ n = 1 THEN <<c>> \o from[n - 1][left]
               ELSE IF d \notin {CHAR_S, CHAR_D, CHAR_X} THEN <<d>> \o from[n - 2][left]
               ELSE IF left = <<>> THEN <<-1>>
               ELSE Head(left) \o from[n - 2][Tail(left)]]
  IN  from

(* Expansion is its last value.                                             *)
LEMMA ExpansionFrom == \A f, a : Expansion(f, a) = From(f)[Len(f)][a]
BY DEF Expansion, From

(* One step of the expansion, given the expansion of fewer characters.      *)
Turn(f, n, left, g) ==
  LET c == f[Len(f) + 1 - n]
      d == f[Len(f) + 2 - n]
  IN  IF n = 0 THEN <<>>
      ELSE IF c # PERCENT \/ n = 1 THEN Cons(c, g[n - 1][left])
      ELSE IF d \notin {CHAR_S, CHAR_D, CHAR_X} THEN Cons(d, g[n - 2][left])
      ELSE IF left = <<>> THEN <<-1>>
      ELSE Head(left) \o g[n - 2][Tail(left)]

(* A step makes texts out of texts.                                         *)
LEMMA TurnType ==
  ASSUME NEW f \in Seq(Int), NEW n \in 0 .. Len(f), NEW left \in Lefts,
         NEW g, \A k \in 0 .. n - 1 : \A l \in Lefts : g[k][l] \in Seq(Int)
  PROVE  Turn(f, n, left, g) \in Seq(Int)
<1>0. \A c \in Int, s \in Seq(Int) : Cons(c, s) \in Seq(Int)
  BY DEF Cons
<1>1. <<>> \in Seq(Int) /\ <<-1>> \in Seq(Int)
  OBVIOUS
<1> DEFINE c == f[Len(f) + 1 - n]
           d == f[Len(f) + 2 - n]
<1>2. CASE n = 0
  BY <1>1, <1>2 DEF Turn
<1>3. CASE n = 1
  <2>1. c \in Int /\ g[n - 1][left] \in Seq(Int)
    BY <1>3
  <2> QED
    BY <1>0, <1>3, <2>1 DEF Turn
<1>4. CASE n > 1
  <2>1. c \in Int /\ d \in Int /\ g[n - 1][left] \in Seq(Int) /\ \A l \in Lefts : g[n - 2][l] \in Seq(Int)
    BY <1>4
  <2>2. left # <<>> => Head(left) \o g[n - 2][Tail(left)] \in Seq(Int)
    <3> SUFFICES ASSUME left # <<>> PROVE Head(left) \o g[n - 2][Tail(left)] \in Seq(Int)
      OBVIOUS
    <3>1. Head(left) \in Seq(Int) /\ Tail(left) \in Lefts
      BY DEF Lefts
    <3> QED
      BY <2>1, <3>1
  <2> HIDE DEF c, d
  <2>3. \/ Turn(f, n, left, g) = Cons(c, g[n - 1][left])
        \/ Turn(f, n, left, g) = Cons(d, g[n - 2][left])
        \/ Turn(f, n, left, g) = <<-1>>
        \/ left # <<>> /\ Turn(f, n, left, g) = Head(left) \o g[n - 2][Tail(left)]
    <3>1. n # 0
      BY <1>4
    <3> QED
      BY <3>1, Zenon DEF Turn, c, d
  <2> QED
    BY <1>0, <1>1, <2>1, <2>2, <2>3, Zenon
<1> QED
  BY <1>2, <1>3, <1>4

(* It looks at fewer characters of the format only.                         *)
LEMMA TurnEarlier ==
  ASSUME NEW f, NEW n \in Nat, NEW left \in Lefts, NEW g, NEW h,
         \A k \in 0 .. n - 1 : g[k] = h[k]
  PROVE  Turn(f, n, left, g) = Turn(f, n, left, h)
<1>1. CASE n = 0
  BY <1>1 DEF Turn
<1>2. CASE n = 1
  <2>1. g[n - 1] = h[n - 1]
    BY <1>2
  <2> QED
    BY <1>2, <2>1 DEF Turn
<1>3. CASE n > 1
  <2>1. g[n - 1] = h[n - 1] /\ g[n - 2] = h[n - 2]
    BY <1>3
  <2> QED
    BY <2>1 DEF Turn
<1> QED
  BY <1>1, <1>2, <1>3

(* The expansion satisfies its equations.                                   *)
LEMMA FromEquation ==
  ASSUME NEW f \in Seq(Int)
  PROVE  \A n \in 0 .. Len(f) : \A left \in Lefts : From(f)[n][left] = Turn(f, n, left, From(f))
<1> DEFINE S == [Lefts -> Seq(Int)]
           none == [left \in Lefts |-> <<>>]
           G == [n \in Nat |-> [g \in [Nat -> S] |->
                   IF n > Len(f) THEN none ELSE [left \in Lefts |-> Turn(f, n, left, g)]]]
           Solves(g) == g = [n \in 0 .. Len(f) |-> [left \in Lefts |-> Turn(f, n, left, g)]]
<1>1. From(f) = CHOOSE g : Solves(g)
  BY DEF From, Turn, Cons, Lefts
<1>2. none \in S
  OBVIOUS
<1>3. G \in Functional(S)
  <2>1. ASSUME NEW n \in Nat, NEW g \in [Nat -> S], ~ (n > Len(f))
        PROVE  [left \in Lefts |-> Turn(f, n, left, g)] \in S
    <3>1. n \in 0 .. Len(f) /\ \A k \in 0 .. n - 1 : \A l \in Lefts : g[k][l] \in Seq(Int)
      BY <2>1
    <3>2. \A left \in Lefts : Turn(f, n, left, g) \in Seq(Int)
      <4> HIDE DEF S, none, G, Solves
      <4> QED
        BY <3>1, TurnType, Zenon
    <3> QED
      BY <3>2
  <2> HIDE DEF none, S
  <2> QED
    BY <1>2, <2>1 DEF Functional
<1>4. Earlier(G, S)
  <2> SUFFICES ASSUME NEW n \in Nat, NEW g \in [Nat -> S], NEW h \in [Nat -> S],
                      \A m \in 0 .. n - 1 : g[m] = h[m]
               PROVE  G[n][g] = G[n][h]
    BY Zenon DEF Earlier
  <2>1. \A left \in Lefts : Turn(f, n, left, g) = Turn(f, n, left, h)
    <3> HIDE DEF S, none, G, Solves
    <3> QED
      BY TurnEarlier, Zenon
  <2> HIDE DEF none, S, Solves
  <2> QED
    BY <2>1
<1>5. PICK s \in [Nat -> S] : \A n \in Nat : s[n] = G[n][s]
  <2> HIDE DEF G, S
  <2> QED
    BY <1>2, <1>3, <1>4, Recursion
<1> DEFINE r == [n \in 0 .. Len(f) |-> s[n]]
<1>6. Solves(r)
  <2>1. ASSUME NEW n \in 0 .. Len(f) PROVE r[n] = [left \in Lefts |-> Turn(f, n, left, r)]
    <3>1. n \in Nat /\ ~ (n > Len(f)) /\ \A k \in 0 .. n - 1 : s[k] = r[k]
      OBVIOUS
    <3>2. \A left \in Lefts : Turn(f, n, left, s) = Turn(f, n, left, r)
      <4> HIDE DEF r, S, none, G, Solves
      <4> QED
        BY <3>1, TurnEarlier, Zenon
    <3>3. s[n] = [left \in Lefts |-> Turn(f, n, left, s)]
      <4> HIDE DEF S, none
      <4> QED
        BY <1>5, <3>1
    <3>4. r[n] = s[n]
      OBVIOUS
    <3> HIDE DEF r
    <3> QED
      BY <3>2, <3>3, <3>4
  <2>2. r = [n \in 0 .. Len(f) |-> r[n]]
    OBVIOUS
  <2> HIDE DEF r
  <2> QED
    BY <2>1, <2>2
<1> HIDE DEF r
<1>7. Solves(From(f))
  BY <1>1, <1>6, Zenon
<1> DEFINE g == From(f)
<1>8. g = [n \in 0 .. Len(f) |-> [left \in Lefts |-> Turn(f, n, left, g)]]
  BY <1>7, Zenon
<1> HIDE DEF g
<1>9. \A n \in 0 .. Len(f) : \A left \in Lefts : g[n][left] = Turn(f, n, left, g)
  <2> TAKE n \in 0 .. Len(f)
  <2>1. g[n] = [left \in Lefts |-> Turn(f, n, left, g)]
    BY <1>8, Zenon
  <2> QED
    BY <2>1, Zenon
<1> QED
  BY <1>9 DEF g

(* So it consists of texts.                                                 *)
LEMMA FromType ==
  ASSUME NEW f \in Seq(Int)
  PROVE  \A n \in 0 .. Len(f) : \A left \in Lefts : From(f)[n][left] \in Seq(Int)
<1> DEFINE T == {k \in Nat : \A n \in 0 .. Len(f) : n <= k => \A left \in Lefts : From(f)[n][left] \in Seq(Int)}
<1>1. ASSUME NEW n \in 0 .. Len(f), \A k \in 0 .. n - 1 : \A l \in Lefts : From(f)[k][l] \in Seq(Int)
      PROVE  \A left \in Lefts : From(f)[n][left] \in Seq(Int)
  <2> TAKE left \in Lefts
  <2>1. Turn(f, n, left, From(f)) \in Seq(Int)
    BY <1>1, TurnType
  <2> QED
    BY <2>1, FromEquation
<1>2. 0 \in T
  <2>1. ASSUME NEW n \in 0 .. Len(f), n <= 0 PROVE \A left \in Lefts : From(f)[n][left] \in Seq(Int)
    <3>1. \A k \in 0 .. n - 1 : FALSE
      BY <2>1
    <3> QED
      BY <1>1, <3>1, Zenon
  <2> QED
    BY <2>1
<1>3. ASSUME NEW k \in Nat, k \in T PROVE k + 1 \in T
  <2>1. ASSUME NEW n \in 0 .. Len(f), n <= k + 1 PROVE \A left \in Lefts : From(f)[n][left] \in Seq(Int)
    <3>1. \A m \in 0 .. n - 1 : m \in 0 .. Len(f) /\ m <= k
      BY <2>1
    <3>2. \A m \in 0 .. n - 1 : \A left \in Lefts : From(f)[m][left] \in Seq(Int)
      BY <1>3, <3>1
    <3> QED
      BY <1>1, <3>2
  <2> QED
    BY <2>1
<1> HIDE DEF T
<1>4. Nat \subseteq T
  BY <1>2, <1>3, SetInduction, Zenon
<1> TAKE n \in 0 .. Len(f)
<1>5. n \in T /\ n <= n
  BY <1>4
<1> QED
  BY <1>5 DEF T

(* What a format is still to write from a position on.                      *)
After(f, p, left) == From(f)[Len(f) + 1 - p][left]

(* It is a text.                                                            *)
LEMMA AfterType ==
  ASSUME NEW f \in Seq(Int), NEW p \in 1 .. Len(f) + 1, NEW left \in Lefts
  PROVE  After(f, p, left) \in Seq(Int)
<1>1. Len(f) + 1 - p \in 0 .. Len(f)
  OBVIOUS
<1> QED
  BY <1>1, FromType DEF After

(* The expansion, read forwards from a position of the format.              *)
LEMMA AfterTurn ==
  ASSUME NEW f \in Seq(Int), NEW p \in 1 .. Len(f) + 1, NEW left \in Lefts
  PROVE  After(f, p, left) =
           IF p = Len(f) + 1 THEN <<>>
           ELSE IF f[p] # PERCENT \/ p = Len(f) THEN Cons(f[p], After(f, p + 1, left))
           ELSE IF f[p + 1] \notin {CHAR_S, CHAR_D, CHAR_X} THEN Cons(f[p + 1], After(f, p + 2, left))
           ELSE IF left = <<>> THEN <<-1>>
           ELSE Head(left) \o After(f, p + 2, Tail(left))
<1> DEFINE n == Len(f) + 1 - p
<1>1. /\ n \in 0 .. Len(f) /\ (n = 0 <=> p = Len(f) + 1) /\ (n = 1 <=> p = Len(f))
      /\ Len(f) + 1 - n = p /\ Len(f) + 2 - n = p + 1
      /\ Len(f) + 1 - (p + 1) = n - 1 /\ Len(f) + 1 - (p + 2) = n - 2
  OBVIOUS
<1> HIDE DEF n
<1>2. From(f)[n][left] = Turn(f, n, left, From(f))
  BY <1>1, FromEquation
<1>3. After(f, p, left) = From(f)[n][left]
  BY DEF After, n
<1>4. /\ \A l : After(f, p + 1, l) = From(f)[n - 1][l]
      /\ \A l : After(f, p + 2, l) = From(f)[n - 2][l]
  BY <1>1, Zenon DEF After
<1> QED
  BY <1>1, <1>2, <1>3, <1>4, Zenon DEF Turn

(* At the end of the format nothing is left to write.                       *)
LEMMA AfterEnd ==
  ASSUME NEW f \in Seq(Int), NEW left \in Lefts
  PROVE  After(f, Len(f) + 1, left) = <<>>
<1>1. Len(f) + 1 \in 1 .. Len(f) + 1
  OBVIOUS
<1> QED
  BY <1>1, AfterTurn, Zenon

(* A character that begins no directive, or a percent sign at the very end, *)
(* stands for itself.                                                       *)
LEMMA AfterLiteral ==
  ASSUME NEW f \in Seq(Int), NEW p \in 1 .. Len(f), NEW left \in Lefts,
         f[p] # PERCENT \/ p = Len(f)
  PROVE  After(f, p, left) = Cons(f[p], After(f, p + 1, left))
<1>1. p \in 1 .. Len(f) + 1 /\ p # Len(f) + 1
  OBVIOUS
<1> QED
  BY <1>1, AfterTurn, Zenon

(* An unknown directive stands for its character.                           *)
LEMMA AfterDefault ==
  ASSUME NEW f \in Seq(Int), NEW p \in 1 .. Len(f) - 1, NEW left \in Lefts,
         f[p] = PERCENT, f[p + 1] \notin {CHAR_S, CHAR_D, CHAR_X}
  PROVE  After(f, p, left) = Cons(f[p + 1], After(f, p + 2, left))
<1>1. p \in 1 .. Len(f) + 1 /\ p # Len(f) + 1 /\ p # Len(f)
  OBVIOUS
<1> QED
  BY <1>1, AfterTurn, Zenon

(* A directive stands for the argument fetched for it.                      *)
LEMMA AfterArgument ==
  ASSUME NEW f \in Seq(Int), NEW p \in 1 .. Len(f) - 1, NEW left \in Lefts, NEW a \in Seq(Int),
         f[p] = PERCENT, f[p + 1] \in {CHAR_S, CHAR_D, CHAR_X}
  PROVE  After(f, p, <<a>> \o left) = a \o After(f, p + 2, left)
<1> DEFINE l == <<a>> \o left
<1>1. p \in 1 .. Len(f) + 1 /\ p # Len(f) + 1 /\ p # Len(f)
  OBVIOUS
<1>2. l \in Lefts /\ l # <<>> /\ Head(l) = a /\ Tail(l) = left
  BY HeadOfCons, Zenon DEF Lefts
<1> HIDE DEF l
<1>3. After(f, p, l) = Head(l) \o After(f, p + 2, Tail(l))
  BY <1>1, <1>2, AfterTurn, Zenon
<1>4. After(f, p, l) = a \o After(f, p + 2, left)
  BY <1>2, <1>3, Zenon
<1> QED
  BY <1>4, Zenon DEF l

(* From the first position on, it is the expansion.                         *)
LEMMA ExpansionAfter == ASSUME NEW f \in Seq(Int), NEW a PROVE Expansion(f, a) = After(f, 1, a)
<1>1. Len(f) + 1 - 1 = Len(f)
  OBVIOUS
<1> QED
  BY <1>1, ExpansionFrom DEF After

-----------------------------------------------------------------------------
(* The state of Text.                                                       *)

(* The text is what has been written of the expansion, whatever arguments   *)
(* will follow; as long as there is room, what the argument being copied    *)
(* and the format still hold is all that is missing.                        *)
Missing(f, p, r, b) == r \o After(f, p, b)

(* The text is a beginning of the expansion, whatever arguments are fetched *)
(* later; while there is room, exactly what is missing follows it.  This is *)
(* what the loops of simple_format_string maintain.                         *)
Written ==
  \A b \in Lefts : \E z \in Seq(Int) :
     /\ Expansion(format, taken \o b) = text \o z
     /\ Room => z = Missing(format, src, rest, b)

(* The types of the variables.                                              *)
TextType ==
  /\ text \in Seq(Int) /\ rest \in Seq(Int) /\ taken \in Lefts
  /\ format \in Seq(Int) /\ src \in 1 .. Len(format) + 1
  /\ mode \in {"scan", "copy", "hex", "done"}
  /\ call \in {"none", "put_i32", "put_u32", "put_u64", "put_hex", "format"}

(* Before the call nothing is written, after that of a number its text.     *)
NumberWritten ==
  /\ call # "format" => mode = "done"
  /\ call = "none" => text = <<>> /\ rest = <<>> /\ taken = <<>> /\ src = 1
  /\ call = "put_i32" => arg \in Ints /\ text = int_to_string(arg)
  /\ call = "put_u32" => arg \in UInts /\ text = uint_to_string(arg)
  /\ call = "put_u64" => arg \in 0 .. WORD * WORD - 1 /\ text = PutU64(arg)
  /\ call = "put_hex" =>
       arg \in UInts /\ text = <<ZERO, 120>> \o Reverse(HexDigits(arg, BITS \div 4, 65))

(* While a message is put together, and after that.                         *)
MessageWritten ==
  call = "format" =>
    /\ Len(text) <= buffer_size - 1
    /\ mode = "scan" => rest = <<>>
    /\ mode = "done" => rest = <<>> /\ (~ Room \/ src = Len(format) + 1)
    /\ Written

(* The inductive invariant.                                                 *)
TextInv == TextType /\ NumberWritten /\ MessageWritten

(* It holds before the call.                                                *)
LEMMA TextStarts == TextInit => TextInv
<1> SUFFICES ASSUME TextInit PROVE TextInv
  OBVIOUS
<1>1. <<>> \in Seq(Int) /\ <<>> \in Lefts /\ Len(<<>>) = 0
  BY DEF Lefts
<1>2. TextType
  BY <1>1 DEF TextInit, TextType
<1>3. NumberWritten
  BY DEF TextInit, NumberWritten
<1>4. MessageWritten
  BY DEF TextInit, MessageWritten
<1> QED
  BY <1>2, <1>3, <1>4 DEF TextInv

(* A character goes into the text.                                          *)
LEMMA OneMore ==
  ASSUME TextType, Written, Room, rest = <<>>, NEW c \in Int, NEW p \in 1 .. Len(format) + 1,
         \A b \in Lefts : After(format, src, b) = Cons(c, After(format, p, b)),
         text' = Append(text, c), src' = p, UNCHANGED <<format, rest, taken>>
  PROVE  Written'
<1> SUFFICES ASSUME NEW b \in Lefts
             PROVE  \E z \in Seq(Int) : /\ Expansion(format, taken \o b) = text' \o z
                                        /\ z = Missing(format, p, rest, b)
  BY Zenon DEF Written
<1> DEFINE y == After(format, p, b)
<1>1. y \in Seq(Int)
  BY AfterType, Zenon DEF TextType
<1>2. PICK z \in Seq(Int) : Expansion(format, taken \o b) = text \o z /\ z = Missing(format, src, rest, b)
  BY DEF Written
<1>3. After(format, src, b) = Cons(c, y) /\ Cons(c, y) \in Seq(Int)
  BY <1>1 DEF Cons
<1>4. z = Cons(c, y)
  BY <1>2, <1>3, ConcatEmpty DEF Missing
<1>5. text \o Cons(c, y) = text' \o y
  <2>1. text \in Seq(Int) /\ y \in Seq(Int)
    BY <1>1 DEF TextType
  <2> HIDE DEF y
  <2>2. text \o Cons(c, y) = Append(text, c) \o y
    BY <2>1, ConsText, Zenon
  <2> QED
    BY <2>2
<1>6. Missing(format, p, rest, b) = y
  BY <1>1, ConcatEmpty DEF Missing
<1> HIDE DEF y
<1> QED
  BY <1>1, <1>2, <1>4, <1>5, <1>6, Zenon

(* An argument is fetched: what is missing now begins with it.              *)
LEMMA Fetched ==
  ASSUME TextType, Written, Room, rest = <<>>, NEW out \in Seq(Int), NEW how, Fetch(out, how),
         src \in 1 .. Len(format) - 1, format[src] = PERCENT,
         format[src + 1] \in {CHAR_S, CHAR_D, CHAR_X}
  PROVE  Written'
<1> SUFFICES ASSUME NEW b \in Lefts
             PROVE  \E z \in Seq(Int) : /\ Expansion(format, taken' \o b) = text \o z
                                        /\ z = Missing(format, src + 2, out, b)
  BY Zenon DEF Written, Fetch
<1> DEFINE l == Cons(out, b)
           y == After(format, src + 2, b)
<1>1. src + 2 \in 1 .. Len(format) + 1 /\ y \in Seq(Int)
  <2>1. src + 2 \in 1 .. Len(format) + 1 /\ format \in Seq(Int)
    BY DEF TextType
  <2> QED
    BY <2>1, AfterType, Zenon
<1>2. l \in Lefts
  BY DEF Lefts, Cons
<1>3. taken' \o b = taken \o l
  <2>1. taken \in Seq(Seq(Int)) /\ b \in Seq(Seq(Int)) /\ taken' = Append(taken, out)
    BY DEF TextType, Lefts, Fetch
  <2>2. taken \o Cons(out, b) = Append(taken, out) \o b
    BY <2>1, ConsArguments, Zenon
  <2> QED
    BY <2>1, <2>2
<1>4. PICK z \in Seq(Int) : Expansion(format, taken \o l) = text \o z /\ z = Missing(format, src, rest, l)
  <2> HIDE DEF l
  <2> QED
    BY <1>2 DEF Written
<1>5. After(format, src, l) = out \o y
  <2>1. format \in Seq(Int) /\ l = <<out>> \o b
    BY DEF TextType, Cons
  <2>2. After(format, src, <<out>> \o b) = out \o y
    BY <2>1, AfterArgument, Zenon
  <2> QED
    BY <2>1, <2>2, Zenon
<1>6. out \o y \in Seq(Int)
  BY <1>1, ConcatType
<1>7. z = out \o y
  BY <1>4, <1>5, <1>6, ConcatEmpty DEF Missing
<1>8. Missing(format, src + 2, out, b) = out \o y
  BY DEF Missing
<1> QED
  BY <1>3, <1>4, <1>7, <1>8, Zenon

(* A character of the argument goes into the text.                          *)
LEMMA Copied ==
  ASSUME TextType, Written, Room, rest # <<>>,
         text' = Append(text, Head(rest)), rest' = Tail(rest), UNCHANGED <<format, src, taken>>
  PROVE  Written'
<1> SUFFICES ASSUME NEW b \in Lefts
             PROVE  \E z \in Seq(Int) : /\ Expansion(format, taken \o b) = text' \o z
                                        /\ z = Missing(format, src, rest', b)
  BY Zenon DEF Written
<1> DEFINE c == Head(rest)
           t == Tail(rest)
           y == After(format, src, b)
           w == t \o y
           o == <<c>>
<1>1. y \in Seq(Int)
  BY AfterType DEF TextType
<1>2. c \in Int /\ t \in Seq(Int)
  BY DEF TextType
<1>3. rest = o \o t
  BY DEF TextType
<1>4. PICK z \in Seq(Int) : Expansion(format, taken \o b) = text \o z /\ z = Missing(format, src, rest, b)
  BY DEF Written
<1>5. Missing(format, src, rest, b) = rest \o y /\ Missing(format, src, rest', b) = w
  BY DEF Missing
<1> HIDE DEF y, t, c
<1>6. o \in Seq(Int) /\ Cons(c, w) = o \o w
  BY <1>2 DEF Cons
<1> HIDE DEF o
<1>7. w \in Seq(Int) /\ rest \o y = Cons(c, w)
  <2>1. (o \o t) \o y = o \o (t \o y)
    BY <1>1, <1>2, <1>6, ThreeTexts, Zenon
  <2>2. t \o y \in Seq(Int)
    BY <1>1, <1>2, ConcatType
  <2> QED
    BY <1>3, <1>6, <2>1, <2>2
<1> HIDE DEF w
<1>8. text \o Cons(c, w) = text' \o w
  <2>1. text' = Append(text, c) /\ text \in Seq(Int)
    BY DEF c, TextType
  <2>2. text \o Cons(c, w) = Append(text, c) \o w
    BY <1>2, <1>7, <2>1, ConsText, Zenon
  <2> QED
    BY <2>1, <2>2
<1> QED
  BY <1>4, <1>5, <1>7, <1>8, Zenon

(* The buffer is full: what is missing no longer matters.                   *)
LEMMA CutOff ==
  ASSUME Written, ~ Room, UNCHANGED <<format, text, taken>>
  PROVE  Written'
<1>1. ~ Room'
  BY DEF Room
<1> QED
  BY <1>1 DEF Written

(* The digits written for %x are characters.                                *)
LEMMA HexArgument ==
  ASSUME NEW num \in UInts
  PROVE  Reverse(HexDigits(num, HexLength(num), 97)) \in Seq(Int)
<1> DEFINE T == {n \in Nat : n >= 1 /\ num < Power(16, n)}
           m == BITS \div 4
<1>1. m \in T /\ m \in Nat /\ num \in Nat
  <2>1. BITS \div 4 >= 1
    BY NumbersAssumption
  <2> QED
    BY <2>1, WordSize, WordOfNibbles DEF UInts
<1>2. PICK n \in T : \A k \in T : n <= k
  <2> T \in SUBSET Nat
    OBVIOUS
  <2> HIDE DEF T
  <2> QED
    BY <1>1, Least
<1>3. n \in 1 .. m /\ num < Power(16, n) /\ \A k \in 1 .. n - 1 : num >= Power(16, k)
  <2>1. n \in Nat /\ n >= 1 /\ n <= m /\ num < Power(16, n)
    BY <1>1, <1>2
  <2>2. ASSUME NEW k \in 1 .. n - 1 PROVE num >= Power(16, k)
    <3>1. k \in Nat /\ ~ (n <= k) /\ k >= 1
      BY <2>1
    <3>2. k \notin T
      BY <1>2, <3>1, Zenon
    <3>3. ~ (num < Power(16, k))
      BY <3>1, <3>2
    <3>4. Power(16, k) \in Nat
      BY <3>1, PowerNotZero
    <3> HIDE DEF T
    <3> QED
      BY <1>1, <3>3, <3>4
  <2> QED
    BY <1>1, <2>1, <2>2
<1>4. HexLength(num) \in 1 .. BITS \div 4
  BY <1>3, Zenon DEF HexLength
<1> DEFINE h == HexDigits(num, HexLength(num), 97)
<1>5. h \in Seq(Int)
  BY <1>1, <1>4, HexType
<1> HIDE DEF h
<1>6. Reverse(h) \in Seq(Int)
  BY <1>5, ReverseType
<1> QED
  BY <1>6 DEF h

(* The functions of terminal.c write texts.                                 *)
LEMMA PutText ==
  /\ \A num \in Ints : int_to_string(num) \in Seq(Int)
  /\ \A num \in UInts : uint_to_string(num) \in Seq(Int)
  /\ \A num \in UInts : <<ZERO, 120>> \o Reverse(HexDigits(num, BITS \div 4, 65)) \in Seq(Int)
  /\ \A num \in 0 .. WORD * WORD - 1 : PutU64(num) \in Seq(Int)
BY IntString, UintLength, HexString, U64Reads

(* A call of one of them establishes the invariant.                         *)
LEMMA Puts ==
  ASSUME TextInv, call = "none",
         \/ \E num \in Ints : put_i32(num)
         \/ \E num \in UInts : put_u32(num) \/ put_hex(num)
         \/ \E num \in 0 .. WORD * WORD - 1 : put_u64(num)
  PROVE  TextInv'
<1>1. PICK f, num, out : Called(f, num, out) /\ out \in Seq(Int)
                         /\ \/ f = "put_i32" /\ num \in Ints /\ out = int_to_string(num)
                            \/ f = "put_u32" /\ num \in UInts /\ out = uint_to_string(num)
                            \/ f = "put_u64" /\ num \in 0 .. WORD * WORD - 1 /\ out = PutU64(num)
                            \/ f = "put_hex" /\ num \in UInts
                               /\ out = <<ZERO, 120>> \o Reverse(HexDigits(num, BITS \div 4, 65))
  BY PutText, Zenon DEF put_i32, put_u32, put_u64, put_hex
<1>2. /\ call' = f /\ arg' = num /\ text' = out
      /\ format' = format /\ src' = src /\ mode' = mode /\ rest' = rest /\ taken' = taken
  BY <1>1 DEF Called, formatVars
<1>3. TextType'
  BY <1>1, <1>2 DEF TextInv, TextType
<1>4. NumberWritten'
  BY <1>1, <1>2 DEF TextInv, NumberWritten
<1>5. MessageWritten'
  BY <1>1, <1>2 DEF MessageWritten
<1> QED
  BY <1>3, <1>4, <1>5 DEF TextInv

(* So does the call of simple_format_string, which has written nothing.     *)
LEMMA FormatStarts ==
  ASSUME TextInv, call = "none", simple_format_string
  PROVE  TextInv'
<1>1. /\ call' = "format" /\ mode' = "scan" /\ format' \in Seq(Int)
      /\ text' = <<>> /\ rest' = <<>> /\ taken' = <<>> /\ src' = 1
  BY TextAssumption DEF TextInv, NumberWritten, simple_format_string
<1>2. <<>> \in Seq(Int) /\ <<>> \in Lefts /\ Len(<<>>) = 0
  BY DEF Lefts
<1>3. TextType'
  BY <1>1, <1>2 DEF TextType
<1>4. NumberWritten'
  BY <1>1 DEF NumberWritten
<1>5. Written'
  <2> SUFFICES ASSUME NEW b \in Lefts
               PROVE  \E z \in Seq(Int) : /\ Expansion(format', <<>> \o b) = <<>> \o z
                                          /\ z = Missing(format', 1, <<>>, b)
    BY <1>1 DEF Written
  <2> DEFINE y == After(format', 1, b)
  <2>1. y \in Seq(Int)
    <3>1. 1 \in 1 .. Len(format') + 1
      BY <1>1
    <3> QED
      BY <1>1, <3>1, AfterType
  <2>2. Expansion(format', <<>> \o b) = y
    BY <1>1, ConcatEmpty, ExpansionAfter DEF Lefts
  <2>3. Missing(format', 1, <<>>, b) = <<>> \o y
    BY DEF Missing
  <2> HIDE DEF y
  <2>4. <<>> \o y = y
    BY <2>1, ConcatEmpty
  <2> QED
    BY <2>1, <2>2, <2>3, <2>4
<1>6. MessageWritten'
  <2>1. Len(text') <= buffer_size - 1
    BY <1>1, <1>2, TextAssumption
  <2> QED
    BY <1>1, <1>5, <2>1 DEF MessageWritten
<1> QED
  BY <1>3, <1>4, <1>6 DEF TextInv

(* What the steps of simple_format_string leave alone.                      *)
LEMMA MessageStep ==
  ASSUME TextInv, call = "format", call' = call, format' = format,
         text' \in Seq(Int), Len(text') <= buffer_size - 1, rest' \in Seq(Int), taken' \in Lefts,
         src' \in 1 .. Len(format) + 1, mode' \in {"scan", "copy", "hex", "done"},
         mode' = "scan" => rest' = <<>>,
         mode' = "done" => rest' = <<>> /\ (~ Room \/ src = Len(format) + 1) /\ text' = text /\ src' = src,
         Written'
  PROVE  TextInv'
<1>1. TextType'
  BY DEF TextInv, TextType
<1>2. NumberWritten'
  BY DEF NumberWritten
<1>3. mode' = "done" => (~ Room' \/ src' = Len(format') + 1)
  BY DEF Room
<1>4. MessageWritten'
  BY <1>3 DEF MessageWritten
<1> QED
  BY <1>1, <1>2, <1>4 DEF TextInv

(* Its steps preserve the invariant.                                        *)
LEMMA MessageMoves ==
  ASSUME TextInv,
         literal \/ case_s \/ case_d \/ case_x \/ case_default
         \/ copy \/ copy_end \/ hex_digit \/ hex_end \/ terminate
  PROVE  TextInv'
<1>0. call = "format"
  BY DEF TextInv, NumberWritten, literal, case_s, case_d, case_x, case_default, copy, copy_end,
         hex_digit, hex_end, terminate, Scanning
<1>1. TextType /\ Written /\ Len(text) <= buffer_size - 1 /\ (mode = "scan" => rest = <<>>)
  BY <1>0 DEF TextInv, MessageWritten
<1>2. /\ text \in Seq(Int) /\ rest \in Seq(Int) /\ taken \in Lefts /\ format \in Seq(Int)
      /\ src \in 1 .. Len(format) + 1
  BY <1>1 DEF TextType
<1>3. Room => Len(text) + 1 <= buffer_size - 1
  BY <1>2, TextAssumption DEF Room
<1>4. \A c \in Int : Append(text, c) \in Seq(Int) /\ Len(Append(text, c)) = Len(text) + 1
  BY <1>2
<1>5. ASSUME literal PROVE TextInv'
  <2>1. /\ mode = "scan" /\ src \in 1 .. Len(format) /\ Room /\ (format[src] # PERCENT \/ src = Len(format))
        /\ rest = <<>>
    BY <1>1, <1>2, <1>5 DEF literal, Scanning, Directive
  <2>2. /\ text' = Append(text, format[src]) /\ src' = src + 1 /\ format[src] \in Int
        /\ call' = call /\ format' = format /\ mode' = mode /\ rest' = rest /\ taken' = taken
    BY <1>2, <1>5, <2>1 DEF literal
  <2>3. src + 1 \in 1 .. Len(format) + 1
    BY <1>2, <2>1
  <2>4. \A b \in Lefts : After(format, src, b) = Cons(format[src], After(format, src + 1, b))
    BY <1>2, <2>1, AfterLiteral
  <2>5. Written'
    BY <1>1, <2>1, <2>2, <2>3, <2>4, OneMore
  <2> QED
    BY <1>0, <1>2, <1>3, <1>4, <2>1, <2>2, <2>3, <2>5, MessageStep
<1>6. ASSUME case_default PROVE TextInv'
  <2>1. /\ mode = "scan" /\ src \in 1 .. Len(format) - 1 /\ Room /\ format[src] = PERCENT
        /\ format[src + 1] \notin {CHAR_S, CHAR_D, CHAR_X} /\ rest = <<>>
    BY <1>1, <1>2, <1>6 DEF case_default, Scanning, Directive
  <2>2. /\ text' = Append(text, format[src + 1]) /\ src' = src + 2 /\ format[src + 1] \in Int
        /\ call' = call /\ format' = format /\ mode' = mode /\ rest' = rest /\ taken' = taken
    BY <1>2, <1>6, <2>1 DEF case_default
  <2>3. src + 2 \in 1 .. Len(format) + 1
    BY <1>2, <2>1
  <2>4. \A b \in Lefts : After(format, src, b) = Cons(format[src + 1], After(format, src + 2, b))
    BY <1>2, <2>1, AfterDefault
  <2>5. Written'
    BY <1>1, <2>1, <2>2, <2>3, <2>4, OneMore
  <2> QED
    BY <1>0, <1>2, <1>3, <1>4, <2>1, <2>2, <2>3, <2>5, MessageStep
<1>7. ASSUME case_s \/ case_d \/ case_x PROVE TextInv'
  <2>1. /\ mode = "scan" /\ src \in 1 .. Len(format) - 1 /\ Room /\ format[src] = PERCENT
        /\ format[src + 1] \in {CHAR_S, CHAR_D, CHAR_X} /\ rest = <<>>
    BY <1>1, <1>2, <1>7 DEF case_s, case_d, case_x, Scanning, Directive
  <2>2. PICK out \in Seq(Int), how \in {"copy", "hex"} : Fetch(out, how)
    <3>1. CASE case_s
      BY <3>1, TextAssumption DEF case_s
    <3>2. CASE case_d
      BY <3>2, TextAssumption, IntString DEF case_d
    <3>3. CASE case_x
      BY <3>3, TextAssumption, HexArgument DEF case_x
    <3> QED
      BY <1>7, <3>1, <3>2, <3>3
  <2>3. Written'
    BY <1>1, <2>1, <2>2, Fetched
  <2>4. /\ rest' = out /\ taken' = Append(taken, out) /\ mode' = how /\ src' = src + 2
        /\ call' = call /\ format' = format /\ text' = text
    BY <2>2 DEF Fetch
  <2>5. Append(taken, out) \in Lefts /\ src + 2 \in 1 .. Len(format) + 1
    BY <1>2, <2>1 DEF Lefts
  <2> QED
    BY <1>0, <1>1, <1>2, <2>2, <2>3, <2>4, <2>5, MessageStep
<1>8. ASSUME copy \/ (hex_digit /\ Room) PROVE TextInv'
  <2>1. /\ mode \in {"copy", "hex"} /\ rest # <<>> /\ Room
        /\ text' = Append(text, Head(rest)) /\ rest' = Tail(rest)
        /\ call' = call /\ format' = format /\ src' = src /\ mode' = mode /\ taken' = taken
    BY <1>8 DEF copy, hex_digit
  <2>2. Head(rest) \in Int /\ Tail(rest) \in Seq(Int)
    BY <1>2, <2>1
  <2>3. Written'
    BY <1>1, <2>1, Copied
  <2> QED
    BY <1>0, <1>2, <1>3, <1>4, <2>1, <2>2, <2>3, MessageStep
<1>9. ASSUME (copy_end \/ hex_digit) /\ ~ Room PROVE TextInv'
  <2>1. /\ text' = text /\ call' = call /\ format' = format /\ src' = src /\ taken' = taken
        /\ \/ mode' = "scan" /\ rest' = <<>>
           \/ mode' = "hex" /\ rest # <<>> /\ rest' = Tail(rest)
    BY <1>9 DEF copy_end, hex_digit
  <2>2. rest' \in Seq(Int)
    <3>1. rest # <<>> => Tail(rest) \in Seq(Int)
      BY <1>2
    <3>2. <<>> \in Seq(Int)
      OBVIOUS
    <3> QED
      BY <2>1, <3>1, <3>2, Zenon
  <2>3. Written'
    BY <1>1, <1>9, <2>1, CutOff
  <2> QED
    BY <1>0, <1>1, <1>2, <2>1, <2>2, <2>3, MessageStep
<1>10. ASSUME (copy_end /\ rest = <<>>) \/ hex_end PROVE TextInv'
  <2>1. /\ text' = text /\ call' = call /\ format' = format /\ src' = src /\ taken' = taken
        /\ mode' = "scan" /\ rest' = rest /\ rest = <<>>
    BY <1>10 DEF copy_end, hex_end
  <2>2. Written'
    BY <1>1, <2>1 DEF Written, Room
  <2> QED
    BY <1>0, <1>1, <1>2, <2>1, <2>2, MessageStep
<1>11. ASSUME terminate PROVE TextInv'
  <2>1. /\ text' = text /\ call' = call /\ format' = format /\ src' = src /\ taken' = taken
        /\ mode' = "done" /\ rest' = rest /\ rest = <<>> /\ (~ Room \/ ~ (src <= Len(format)))
    BY <1>1, <1>11 DEF terminate, Scanning
  <2>2. Written'
    BY <1>1, <2>1 DEF Written, Room
  <2>3. ~ (src <= Len(format)) => src = Len(format) + 1
    BY <1>2
  <2> QED
    BY <1>0, <1>1, <1>2, <2>1, <2>2, <2>3, MessageStep
<1> QED
  BY <1>5, <1>6, <1>7, <1>8, <1>9, <1>10, <1>11 DEF copy_end

(* All steps do.                                                            *)
LEMMA TextMoves == TextInv /\ [TextNext]_textVars => TextInv'
<1> SUFFICES ASSUME TextInv, [TextNext]_textVars PROVE TextInv'
  OBVIOUS
<1>1. CASE UNCHANGED textVars
  <2>1. UNCHANGED <<call, arg, text, format, src, mode, rest, taken>>
    BY <1>1, Zenon DEF textVars, formatVars
  <2>2. TextType'
    BY <2>1, Zenon DEF TextInv, TextType
  <2>3. NumberWritten'
    BY <2>1, Zenon DEF TextInv, NumberWritten
  <2>4. Written' = Written /\ Room' = Room
    BY <2>1, Zenon DEF Written, Room
  <2>5. MessageWritten'
    BY <2>1, <2>4, Zenon DEF TextInv, MessageWritten
  <2> QED
    BY <2>2, <2>3, <2>5, Zenon DEF TextInv
<1>2. CASE TextNext
  BY <1>2, Puts, FormatStarts, MessageMoves DEF TextNext
<1> QED
  BY <1>1, <1>2

(* For words of any size, any room in the buffer and all formats and        *)
(* arguments: the text is what the functions of terminal.c write for their  *)
(* argument, or a beginning of the message simple_format_string is asked    *)
(* for, with exactly the rest of the message still to come while there is   *)
(* room.                                                                    *)
THEOREM TextInvariance == TextSpec => []TextInv
BY TextStarts, TextMoves, PTL DEF TextSpec

(* Words of any size, every format and every size of the buffer: the texts  *)
(* of int_to_string and uint_to_string fit the buffers of their callers,    *)
(* terminating zero included, and simple_format_string never writes past    *)
(* buffer_size.                                                             *)
THEOREM BuffersSuffice == TextSpec => []FitsBuffer
<1>1. TextInv => FitsBuffer
  <2> SUFFICES ASSUME TextInv PROVE FitsBuffer
    OBVIOUS
  <2>1. text \in Seq(Int) /\ Len(text) \in Nat /\ DIGITS \in Nat /\ buffer_size \in Nat
    BY NumbersAssumption, TextAssumption, DigitsOfWord DEF TextInv, TextType
  <2>2. call = "put_i32" => Len(text) <= DIGITS + 1
    BY IntString DEF TextInv, NumberWritten
  <2>3. call = "put_u32" => Len(text) <= DIGITS
    <3> SUFFICES ASSUME call = "put_u32" PROVE Len(text) <= DIGITS
      OBVIOUS
    <3>1. arg \in UInts /\ text = uint_to_string(arg)
      BY DEF TextInv, NumberWritten
    <3>2. Len(text) = Width(arg) /\ Width(arg) \in 1 .. DIGITS
      BY <3>1, UintLength, WidthOfWord
    <3> QED
      BY <2>1, <3>2
  <2>4. call = "format" => Len(text) <= buffer_size - 1
    BY DEF TextInv, MessageWritten
  <2> QED
    BY <2>1, <2>2, <2>3, <2>4 DEF FitsBuffer, INT_BUFFER, UINT_BUFFER
<1> QED
  BY <1>1, TextInvariance, PTL

(* Words of any size: put_i32, put_u32 and put_hex write every word but the *)
(* smallest negative one as the numeral a reader takes for it.              *)
THEOREM WordsReadBack == TextSpec => []NumeralsRight
<1>1. TextInv => NumeralsRight
  <2> SUFFICES ASSUME TextInv PROVE NumeralsRight
    OBVIOUS
  <2>1. call = "put_i32" /\ arg # INT_MIN => Reads(text, arg)
    BY IntString DEF TextInv, NumberWritten
  <2>2. call = "put_u32" => Reads(text, arg)
    <3> SUFFICES ASSUME call = "put_u32" PROVE Reads(text, arg)
      OBVIOUS
    <3>1. arg \in UInts /\ text = uint_to_string(arg)
      BY DEF TextInv, NumberWritten
    <3>2. IsNumeral(text) /\ Value(text, 10) = arg
      BY <3>1, UintLength
    <3>3. ~ (arg < 0)
      BY <3>1, WordSize DEF UInts
    <3> QED
      BY <3>2, <3>3 DEF Reads
  <2>3. call = "put_hex" => Value(SubSeq(text, 3, Len(text)), 16) = arg
    BY HexString, Zenon DEF TextInv, NumberWritten
  <2> QED
    BY <2>1, <2>2, <2>3 DEF NumeralsRight
<1> QED
  BY <1>1, TextInvariance, PTL

(* Words of any size: of two consecutive numbers of two words, put_u64      *)
(* writes the larger one so that it reads larger; no two numbers are        *)
(* written alike.                                                           *)
THEOREM LargerLarger == TextSpec => []LargerReadsLarger
<1>1. TextInv => LargerReadsLarger
  BY U64Monotonic DEF TextInv, NumberWritten, LargerReadsLarger
<1> QED
  BY <1>1, TextInvariance, PTL

(* Every format, all arguments and every size of the buffer: when           *)
(* simple_format_string returns, the message is the expansion of its        *)
(* format, cut only where the buffer ends.                                  *)
THEOREM MessagesExpand == TextSpec => []CutExpansion
<1>1. TextInv => CutExpansion
  <2> SUFFICES ASSUME TextInv, call = "format", mode = "done"
               PROVE  LET all == Expansion(format, taken)
                      IN  text = IF Len(all) < buffer_size THEN all ELSE SubSeq(all, 1, buffer_size - 1)
    BY DEF CutExpansion
  <2> DEFINE all == Expansion(format, taken)
             nil == <<>>
  <2>1. /\ text \in Seq(Int) /\ taken \in Lefts /\ format \in Seq(Int) /\ rest = nil
        /\ Len(text) <= buffer_size - 1 /\ (~ Room \/ src = Len(format) + 1) /\ buffer_size \in Nat
    BY TextAssumption DEF TextInv, TextType, MessageWritten
  <2>2. nil \in Lefts /\ nil \in Seq(Int) /\ taken \o nil = taken
    BY <2>1, ConcatEmpty DEF Lefts
  <2>3. PICK z \in Seq(Int) : all = text \o z /\ (Room => z = Missing(format, src, rest, nil))
    <3>1. Written
      BY DEF TextInv, MessageWritten
    <3> HIDE DEF nil
    <3> QED
      BY <2>2, <3>1, Zenon DEF Written
  <2>4. Room => z = nil
    <3> SUFFICES ASSUME Room PROVE z = nil
      OBVIOUS
    <3>1. After(format, src, nil) = nil
      BY <2>1, <2>2, AfterEnd
    <3>2. nil \o nil = nil
      OBVIOUS
    <3> HIDE DEF nil
    <3> QED
      BY <2>1, <2>3, <3>1, <3>2 DEF Missing
  <2>5. CASE Room
    <3>1. all = text
      BY <2>1, <2>3, <2>4, <2>5, ConcatEmpty
    <3>2. Len(text) < buffer_size
      BY <2>1
    <3> QED
      BY <3>1, <3>2
  <2>6. CASE ~ Room
    <3> HIDE DEF all
    <3>1. Len(text) = buffer_size - 1 /\ Len(all) = Len(text) + Len(z)
      BY <2>1, <2>3, <2>6 DEF Room
    <3>2. CASE Len(all) < buffer_size
      <4>1. Len(z) = 0
        BY <2>1, <2>3, <3>1, <3>2
      <4>2. z = <<>>
        BY <2>3, <4>1
      <4>3. all = text
        BY <2>1, <2>3, <4>2, ConcatEmpty
      <4> QED
        BY <3>2, <4>3 DEF all
    <3>3. CASE ~ (Len(all) < buffer_size)
      <4>1. SubSeq(text \o z, 1, Len(text)) = text
        BY <2>1
      <4>2. SubSeq(all, 1, buffer_size - 1) = text
        BY <2>3, <3>1, <4>1
      <4> QED
        BY <3>3, <4>2 DEF all
    <3> QED
      BY <3>2, <3>3
  <2> QED
    BY <2>5, <2>6
<1> QED
  BY <1>1, TextInvariance, PTL
=============================================================================

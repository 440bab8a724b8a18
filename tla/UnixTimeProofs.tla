--------------------------- MODULE UnixTimeProofs ---------------------------
(***************************************************************************)
(* Proofs about UnixTime, for any width of a word and any precision of a   *)
(* second: times before 1970 are negated exactly, a text is read as what   *)
(* it means or is an error, and a time reads back from what is written.    *)
(* The digits' values are recursive functions: what is said of them rests  *)
(* on lemma Induct, an induction over a set of natural numbers.            *)
(***************************************************************************)
EXTENDS UnixTime, WellFoundedInduction, TLAPS

\* The least of a set of natural numbers.
LEMMA Least ==
  ASSUME NEW T, T \subseteq Nat, T # {}
  PROVE  \E x \in T : \A y \in T : x <= y
<1>1. PICK x \in T : \A y \in T : ~ (<<y, x>> \in OpToRel(<, Nat))
  BY NatLessThanWellFounded, WFMin
<1>2. \A y \in T : ~(y < x)
  BY <1>1 DEF OpToRel
<1> QED
  BY <1>2

\* What holds of zero, and of the successor of each number it holds of, holds of all.
LEMMA Induct ==
  ASSUME NEW T, 0 \in T, \A n \in Nat : n \in T => n + 1 \in T
  PROVE  \A n \in Nat : n \in T
<1> DEFINE R == {n \in Nat : n \notin T}
<1> SUFFICES ASSUME R # {} PROVE FALSE
  OBVIOUS
<1>1. PICK x \in R : \A y \in R : x <= y
  BY Least
<1>2. x # 0
  OBVIOUS
<1>3. x - 1 \in Nat /\ ~(x <= x - 1)
  BY <1>2
<1>4. x - 1 \in T
  BY <1>1, <1>3
<1> QED
  BY <1>3, <1>4

\* A function defined by recursion on the natural numbers exists.
Recurs(f, S, start, F) ==
  f \in [Nat -> S] /\ f[0] = start /\ \A n \in Nat : f[n + 1] = F[n][f[n]]

\* There is one, for any step.
LEMMA Recursion ==
  ASSUME NEW S, NEW start \in S, NEW F \in [Nat -> [S -> S]]
  PROVE  \E f : Recurs(f, S, start, F)
<1> DEFINE Run(g, n) == /\ g \in [0 .. n -> S] /\ g[0] = start
                        /\ \A i \in 0 .. n - 1 : g[i + 1] = F[i][g[i]]
<1>1. \A n \in Nat : \E g : Run(g, n)
  <2> DEFINE T == {n \in Nat : \E g : Run(g, n)}
  <2>1. 0 \in T
    <3>1. Run([i \in 0 .. 0 |-> start], 0)
      OBVIOUS
    <3> QED
      BY <3>1
  <2>2. ASSUME NEW n \in Nat, n \in T
        PROVE  n + 1 \in T
    <3>1. PICK g : Run(g, n)
      BY <2>2
    <3> DEFINE h == [i \in 0 .. n + 1 |-> IF i = n + 1 THEN F[n][g[n]] ELSE g[i]]
    <3>2. g[n] \in S /\ F[n][g[n]] \in S
      BY <3>1
    <3>3. h \in [0 .. n + 1 -> S]
      BY <3>1, <3>2
    <3>4. h[0] = start
      BY <3>1
    <3>5. \A i \in 0 .. (n + 1) - 1 : h[i + 1] = F[i][h[i]]
      <4> TAKE i \in 0 .. (n + 1) - 1
      <4>1. CASE i = n
        BY <4>1
      <4>2. CASE i # n
        <5>1. i \in 0 .. n - 1
          BY <4>2
        <5> QED
          BY <3>1, <5>1
      <4> QED
        BY <4>1, <4>2
    <3> HIDE DEF h
    <3>6. Run(h, n + 1)
      BY <3>3, <3>4, <3>5
    <3> QED
      BY <3>6
  <2> HIDE DEF T
  <2>3. \A n \in Nat : n \in T
    BY <2>1, <2>2, Induct
  <2> QED
    BY <2>3 DEF T
<1>2. ASSUME NEW n \in Nat, NEW g, NEW h, Run(g, n), Run(h, n + 1)
      PROVE  h[n] = g[n]
  <2> DEFINE T == {i \in Nat : i <= n => h[i] = g[i]}
  <2>1. 0 \in T
    BY <1>2
  <2>2. ASSUME NEW i \in Nat, i \in T
        PROVE  i + 1 \in T
    <3>1. CASE i + 1 <= n
      <4>1. i \in 0 .. n - 1 /\ i \in 0 .. (n + 1) - 1
        BY <3>1
      <4>2. h[i] = g[i]
        BY <2>2, <3>1
      <4>3. g[i + 1] = F[i][g[i]] /\ h[i + 1] = F[i][h[i]]
        BY <1>2, <4>1
      <4> QED
        BY <4>2, <4>3
    <3>2. CASE ~(i + 1 <= n)
      BY <3>2
    <3> QED
      BY <3>1, <3>2
  <2> HIDE DEF T
  <2>3. \A i \in Nat : i \in T
    BY <2>1, <2>2, Induct
  <2> QED
    BY <2>3 DEF T
<1> DEFINE G == [n \in Nat |-> CHOOSE g : Run(g, n)]
           f == [n \in Nat |-> G[n][n]]
<1>3. \A n \in Nat : Run(G[n], n)
  BY <1>1
<1> HIDE DEF G
<1>4. f \in [Nat -> S]
  BY <1>3
<1>5. f[0] = start
  BY <1>3
<1>6. ASSUME NEW n \in Nat
      PROVE  f[n + 1] = F[n][f[n]]
  <2>1. Run(G[n], n) /\ Run(G[n + 1], n + 1)
    BY <1>3
  <2>2. G[n + 1][n] = G[n][n]
    BY <1>2, <2>1
  <2>3. n \in 0 .. (n + 1) - 1
    OBVIOUS
  <2>4. G[n + 1][n + 1] = F[n][G[n + 1][n]]
    BY <2>1, <2>3
  <2> QED
    BY <2>2, <2>4
<1> QED
  BY <1>4, <1>5, <1>6 DEF Recurs

\* The recursive functions of the model satisfy their equations.
LEMMA Pow10Steps ==
  /\ Pow10 \in [Nat -> Nat \ {0}]
  /\ Pow10[0] = 1
  /\ \A n \in Nat : Pow10[n + 1] = 10 * Pow10[n]
<1> DEFINE S == Nat \ {0}
           F == [n \in Nat |-> [x \in S |-> 10 * x]]
           Body(f) == [n \in Nat |-> IF n = 0 THEN 1 ELSE 10 * f[n - 1]]
<1>1. \E f : f = Body(f)
  <2>1. F \in [Nat -> [S -> S]] /\ 1 \in S
    OBVIOUS
  <2>5. PICK f : Recurs(f, S, 1, F)
    <3> HIDE DEF F
    <3> QED
      BY <2>1, Recursion
  <2>2. f \in [Nat -> S] /\ f[0] = 1 /\ \A n \in Nat : f[n + 1] = F[n][f[n]]
    BY <2>5 DEF Recurs
  <2>3. \A n \in Nat : f[n] = Body(f)[n]
    <3> TAKE n \in Nat
    <3>1. CASE n = 0
      BY <2>2, <3>1
    <3>2. CASE n # 0
      <4>1. n - 1 \in Nat /\ (n - 1) + 1 = n
        BY <3>2
      <4>2. f[(n - 1) + 1] = F[n - 1][f[n - 1]]
        BY <2>2, <4>1
      <4> QED
        BY <2>2, <3>2, <4>1, <4>2
    <3> QED
      BY <3>1, <3>2
  <2>4. f = Body(f)
    BY <2>2, <2>3
  <2> QED
    BY <2>4
<1>2. Pow10 = CHOOSE f : f = Body(f)
  BY DEF Pow10
<1>3. Pow10 = Body(Pow10)
  BY <1>1, <1>2
<1> HIDE DEF F
<1>4. Pow10[0] = 1 /\ \A n \in Nat : Pow10[n + 1] = 10 * Pow10[n]
  BY <1>3
<1>5. \A n \in Nat : Pow10[n] \in S
  <2> DEFINE T == {n \in Nat : Pow10[n] \in S}
  <2>1. 0 \in T
    BY <1>4
  <2>2. \A n \in Nat : n \in T => n + 1 \in T
    BY <1>4
  <2> HIDE DEF T
  <2>3. \A n \in Nat : n \in T
    BY <2>1, <2>2, Induct
  <2> QED
    BY <2>3 DEF T
<1>6. Pow10 \in [Nat -> S]
  BY <1>3, <1>5
<1> QED
  BY <1>4, <1>6

\* A text of digits, or of other numbers.
Numeric(b) == \A i \in Nat : DigitAt(b, i) \in Nat

\* The value of digits, one after the other.
LEMMA PaddedSteps ==
  ASSUME NEW b, Numeric(b)
  PROVE  /\ Padded(b, 0) = 0
         /\ \A n \in Nat : /\ Padded(b, n) \in Nat
                           /\ Padded(b, n + 1) = 10 * Padded(b, n) + DigitAt(b, n + 1)
<1> DEFINE F == [n \in Nat |-> [x \in Nat |-> 10 * x + DigitAt(b, n + 1)]]
           Body(f) == [n \in Nat |-> IF n = 0 THEN 0 ELSE 10 * f[n - 1] + DigitAt(b, n)]
           value == CHOOSE f : f = Body(f)
<1>0. \A i \in Nat : DigitAt(b, i) \in Nat
  BY DEF Numeric
<1>1. \E f : f = Body(f)
  <2>1. F \in [Nat -> [Nat -> Nat]]
    BY <1>0
  <2>5. PICK f : Recurs(f, Nat, 0, F)
    <3> HIDE DEF F
    <3> QED
      BY <2>1, Recursion
  <2>2. f \in [Nat -> Nat] /\ f[0] = 0 /\ \A n \in Nat : f[n + 1] = F[n][f[n]]
    BY <2>5 DEF Recurs
  <2>3. \A n \in Nat : f[n] = Body(f)[n]
    <3> TAKE n \in Nat
    <3>1. CASE n = 0
      BY <2>2, <3>1
    <3>2. CASE n # 0
      <4>1. n - 1 \in Nat /\ (n - 1) + 1 = n
        BY <3>2
      <4>2. f[(n - 1) + 1] = F[n - 1][f[n - 1]]
        BY <2>2, <4>1
      <4> QED
        BY <2>2, <3>2, <4>1, <4>2
    <3> QED
      BY <3>1, <3>2
  <2>4. f = Body(f)
    BY <2>2, <2>3
  <2> QED
    BY <2>4
<1>2. \A n : Padded(b, n) = value[n]
  BY DEF Padded
<1>3. value = Body(value)
  BY <1>1
<1> HIDE DEF F, value
<1>4. value[0] = 0 /\ \A n \in Nat : value[n + 1] = 10 * value[n] + DigitAt(b, n + 1)
  BY <1>3
<1>5. \A n \in Nat : value[n] \in Nat
  <2> DEFINE T == {n \in Nat : value[n] \in Nat}
  <2>1. 0 \in T
    BY <1>4
  <2>2. \A n \in Nat : n \in T => n + 1 \in T
    BY <1>0, <1>4
  <2> HIDE DEF T
  <2>3. \A n \in Nat : n \in T
    BY <2>1, <2>2, Induct
  <2> QED
    BY <2>3 DEF T
<1> QED
  BY <1>2, <1>4, <1>5

\* Multiplication keeps the order.
LEMMA Times1 == ASSUME NEW a \in Int, NEW b \in Int, NEW d \in Nat, a <= b PROVE a * d <= b * d
<1>1. b - a \in Nat
  OBVIOUS
<1>2. (b - a) * d \in Nat
  BY <1>1
<1>3. (b - a) * d = b * d - a * d
  OBVIOUS
<1> QED
  BY <1>2, <1>3

\* A quotient and its rest are the only ones.
LEMMA DivMod ==
  ASSUME NEW q \in Int, NEW d \in Nat \ {0}, NEW r \in 0 .. d - 1
  PROVE  (q * d + r) \div d = q /\ (q * d + r) % d = r
<1> DEFINE n == q * d + r
           p == n \div d
           s == n % d
<1>1. n \in Int /\ n = q * d + r
  OBVIOUS
<1> HIDE DEF n
<1>2. p \in Int /\ s \in 0 .. d - 1 /\ n = d * p + s
  BY <1>1
<1> HIDE DEF p, s
<1>3. ~(p + 1 <= q)
  <2> SUFFICES ASSUME p + 1 <= q PROVE FALSE
    OBVIOUS
  <2>1. (p + 1) * d <= q * d
    BY <1>2, Times1
  <2>2. (p + 1) * d = d * p + d
    BY <1>2
  <2> QED
    BY <1>1, <1>2, <2>1, <2>2
<1>4. ~(q + 1 <= p)
  <2> SUFFICES ASSUME q + 1 <= p PROVE FALSE
    OBVIOUS
  <2>1. (q + 1) * d <= p * d
    BY <1>2, Times1
  <2>2. (q + 1) * d = q * d + d /\ p * d = d * p
    BY <1>2
  <2> QED
    BY <1>1, <1>2, <2>1, <2>2
<1>5. p = q
  BY <1>2, <1>3, <1>4
<1>6. d * p = q * d
  BY <1>2, <1>5
<1>7. s = r
  BY <1>1, <1>2, <1>6
<1> QED
  BY <1>5, <1>7 DEF p, s, n

\* A quotient and its rest, by another name.
LEMMA QuotientRest ==
  ASSUME NEW n, NEW q \in Int, NEW d \in Nat \ {0}, NEW r \in 0 .. d - 1, n = q * d + r
  PROVE  n \div d = q /\ n % d = r
BY DivMod

---------------------------------------------------------------------------
\* Powers of ten, and sums that wrap.

\* Dividing by a power of ten, a digit at a time.
LEMMA DivTen ==
  ASSUME NEW n \in Nat, NEW p \in Nat \ {0}
  PROVE  n \div p = 10 * (n \div (10 * p)) + ((n \div p) % 10)
<1> DEFINE a == n \div p
           r == n % p
           b == a \div 10
           c == a % 10
<1>1. a \in Nat /\ r \in 0 .. p - 1 /\ n = p * a + r
  OBVIOUS
<1>2. b \in Nat /\ c \in 0 .. 9 /\ a = 10 * b + c
  BY <1>1
<1> HIDE DEF a, r
<1> HIDE DEF b, c
<1>3. p * c <= p * 9 /\ p * c \in Nat
  <2>1. c * p <= 9 * p
    BY <1>2, Times1
  <2> QED
    BY <1>2, <2>1
<1>4. p * c + r \in 0 .. 10 * p - 1
  BY <1>1, <1>3
<1>5. n = b * (10 * p) + (p * c + r)
  <2>1. p * (10 * b + c) = b * (10 * p) + p * c
    BY <1>2
  <2> QED
    BY <1>1, <1>2, <2>1
<1>6. n \div (10 * p) = b
  <2>1. 10 * p \in Nat \ {0}
    OBVIOUS
  <2> DEFINE d == 10 * p
             s == p * c + r
  <2>2. d \in Nat \ {0} /\ s \in 0 .. d - 1
    BY <1>4, <2>1
  <2>3. n = b * d + s
    BY <1>5
  <2> HIDE DEF d, s
  <2>4. n \div d = b
    BY <1>2, <2>2, <2>3, DivMod
  <2> QED
    BY <2>4 DEF d
<1> QED
  BY <1>2, <1>6 DEF a, b, c

\* A step of a sum that wraps.
LEMMA WrapStep ==
  ASSUME NEW x \in Nat, NEW d \in Nat, NEW w \in Nat \ {0}
  PROVE  (10 * (x % w) + d) % w = (10 * x + d) % w
<1> DEFINE q == x \div w
           s == x % w
           y == 10 * s + d
           u == y \div w
           v == y % w
<1>1. q \in Nat /\ s \in Nat /\ x = w * q + s
  OBVIOUS
<1> HIDE DEF q, s
<1>2. y \in Nat /\ y = 10 * s + d
  BY <1>1
<1> HIDE DEF y
<1>3. u \in Nat /\ v \in 0 .. w - 1 /\ y = w * u + v
  BY <1>2
<1> HIDE DEF u, v
<1>4. 10 * x + d = (10 * q + u) * w + v
  <2>1. 10 * (w * q + s) + d = 10 * q * w + (10 * s + d) /\ (10 * q + u) * w = 10 * q * w + w * u
    BY <1>1, <1>3
  <2> QED
    BY <1>1, <1>2, <1>3, <2>1
<1>5. ((10 * q + u) * w + v) % w = v
  <2>1. 10 * q + u \in Int
    BY <1>1, <1>3
  <2> QED
    BY <1>3, <2>1, DivMod
<1> QED
  BY <1>4, <1>5 DEF v, y, s

\* Powers of ten grow, and multiply.
LEMMA Pow10Add ==
  ASSUME NEW m \in Nat, NEW n \in Nat
  PROVE  Pow10[m + n] = Pow10[m] * Pow10[n]
<1> DEFINE T == {k \in Nat : Pow10[m + k] = Pow10[m] * Pow10[k]}
<1>1. 0 \in T
  BY Pow10Steps
<1>2. ASSUME NEW k \in Nat, k \in T
      PROVE  k + 1 \in T
  <2>1. Pow10[m + (k + 1)] = 10 * Pow10[m + k]
    BY Pow10Steps
  <2>2. Pow10[m + k] = Pow10[m] * Pow10[k]
    BY <1>2
  <2>3. Pow10[k + 1] = 10 * Pow10[k] /\ Pow10[m] \in Nat /\ Pow10[k] \in Nat
    BY Pow10Steps
  <2>4. 10 * (Pow10[m] * Pow10[k]) = Pow10[m] * (10 * Pow10[k])
    BY <2>3
  <2> QED
    BY <2>1, <2>2, <2>3, <2>4
<1> HIDE DEF T
<1>3. \A k \in Nat : k \in T
  BY <1>1, <1>2, Induct
<1> QED
  BY <1>3 DEF T

\* A larger power is so many times larger.
LEMMA Pow10Grows ==
  ASSUME NEW m \in Nat, NEW n \in Nat
  PROVE  /\ m <= n => Pow10[m] <= Pow10[n]
         /\ m < n => 10 * Pow10[m] <= Pow10[n] /\ Pow10[m] < Pow10[n]
<1>1. ASSUME NEW i \in Nat, NEW j \in Nat, i <= j
      PROVE  Pow10[i] <= Pow10[j]
  <2>1. j - i \in Nat /\ i + (j - i) = j
    BY <1>1
  <2>2. Pow10[j] = Pow10[i] * Pow10[j - i]
    BY <2>1, Pow10Add
  <2>3. Pow10[i] \in Nat /\ Pow10[j - i] \in Nat /\ 1 <= Pow10[j - i]
    BY <2>1, Pow10Steps
  <2>4. 1 * Pow10[i] <= Pow10[j - i] * Pow10[i]
    BY <2>3, Times1
  <2>5. Pow10[j - i] * Pow10[i] = Pow10[i] * Pow10[j - i] /\ 1 * Pow10[i] = Pow10[i]
    BY <2>3
  <2> QED
    BY <2>2, <2>4, <2>5
<1>2. ASSUME m < n
      PROVE  10 * Pow10[m] <= Pow10[n] /\ Pow10[m] < Pow10[n]
  <2>1. Pow10[m + 1] <= Pow10[n]
    BY <1>1, <1>2
  <2> QED
    BY <2>1, Pow10Steps
<1> QED
  BY <1>1, <1>2

\* Log10 finds the power.
LEMMA Pow10Log ==
  ASSUME NEW l \in 0 .. 9
  PROVE  Log10(Pow10[l]) = l
<1>1. \A m \in 0 .. 9 : Pow10[m] = Pow10[l] => m = l
  <2> SUFFICES ASSUME NEW m \in 0 .. 9, m # l
               PROVE  Pow10[m] # Pow10[l]
    OBVIOUS
  <2>1. Pow10[m] \in Nat /\ Pow10[l] \in Nat
    BY Pow10Steps
  <2>2. CASE m < l
    BY <2>1, <2>2, Pow10Grows
  <2>3. CASE l < m
    BY <2>1, <2>3, Pow10Grows
  <2> QED
    BY <2>2, <2>3
<1> QED
  BY <1>1 DEF Log10

---------------------------------------------------------------------------
\* The values of digits.

\* Texts of decimal digits.
Decimal(b) == \A i \in Nat : DigitAt(b, i) \in 0 .. 9

\* Decimal digits are numbers.
LEMMA DecimalNumeric ==
  ASSUME NEW b, Decimal(b)
  PROVE  Numeric(b)
BY DEF Decimal, Numeric

\* Wrapping as it goes is the same as wrapping in the end.
LEMMA WrappedIs ==
  ASSUME NEW b, Numeric(b), Len(b) \in Nat
  PROVE  Wrapped(b) = Padded(b, Len(b)) % Word
<1> DEFINE F == [n \in Nat |-> [x \in Nat |-> (10 * x + DigitAt(b, n + 1)) % Word]]
           Body(f) == [n \in Nat |-> IF n = 0 THEN 0 ELSE (10 * f[n - 1] + DigitAt(b, n)) % Word]
           value == CHOOSE f : f = Body(f)
<1>0. Word \in Nat \ {0} /\ \A i \in Nat : DigitAt(b, i) \in Nat
  BY SizesAssumption DEF Numeric
<1>1. \E f : f = Body(f)
  <2>1. F \in [Nat -> [Nat -> Nat]]
    BY <1>0
  <2>5. PICK f : Recurs(f, Nat, 0, F)
    <3> HIDE DEF F
    <3> QED
      BY <2>1, Recursion
  <2>2. f \in [Nat -> Nat] /\ f[0] = 0 /\ \A n \in Nat : f[n + 1] = F[n][f[n]]
    BY <2>5 DEF Recurs
  <2>3. \A n \in Nat : f[n] = Body(f)[n]
    <3> TAKE n \in Nat
    <3>1. CASE n = 0
      BY <2>2, <3>1
    <3>2. CASE n # 0
      <4>1. n - 1 \in Nat /\ (n - 1) + 1 = n
        BY <3>2
      <4>2. f[(n - 1) + 1] = F[n - 1][f[n - 1]]
        BY <2>2, <4>1
      <4> QED
        BY <2>2, <3>2, <4>1, <4>2
    <3> QED
      BY <3>1, <3>2
  <2>4. f = Body(f)
    BY <2>2, <2>3
  <2> QED
    BY <2>4
<1>2. Wrapped(b) = value[Len(b)]
  BY DEF Wrapped
<1>3. value = Body(value)
  BY <1>1
<1> HIDE DEF F, value
<1>4. value[0] = 0 /\ \A n \in Nat : value[n + 1] = (10 * value[n] + DigitAt(b, n + 1)) % Word
  BY <1>3
<1>5. \A n \in Nat : value[n] = Padded(b, n) % Word
  <2> DEFINE T == {n \in Nat : value[n] = Padded(b, n) % Word}
  <2>1. 0 \in T
    <3>1. Padded(b, 0) = 0
      BY PaddedSteps
    <3>2. 0 % Word = 0
      BY <1>0
    <3> QED
      BY <1>4, <3>1, <3>2
  <2>2. ASSUME NEW n \in Nat, n \in T
        PROVE  n + 1 \in T
    <3>1. Padded(b, n) \in Nat /\ Padded(b, n + 1) = 10 * Padded(b, n) + DigitAt(b, n + 1)
      BY PaddedSteps
    <3>2. value[n + 1] = (10 * (Padded(b, n) % Word) + DigitAt(b, n + 1)) % Word
      BY <1>4, <2>2
    <3>3. DigitAt(b, n + 1) \in Nat
      BY <1>0
    <3>4. value[n + 1] = (10 * Padded(b, n) + DigitAt(b, n + 1)) % Word
      BY <1>0, <3>1, <3>2, <3>3, WrapStep
    <3> QED
      BY <3>1, <3>4
  <2> HIDE DEF T
  <2>3. \A n \in Nat : n \in T
    BY <2>1, <2>2, Induct
  <2> QED
    BY <2>3 DEF T
<1> QED
  BY <1>2, <1>5

\* Digits after others: the value of those before, moved, and their own.
LEMMA Window ==
  ASSUME NEW b, Numeric(b), NEW c, Numeric(c), NEW i \in Nat, NEW k \in Nat,
         \A j \in 1 .. k : DigitAt(c, j) = DigitAt(b, i + j)
  PROVE  Padded(b, i + k) = Padded(b, i) * Pow10[k] + Padded(c, k)
<1> DEFINE T == {n \in Nat : n <= k => Padded(b, i + n) = Padded(b, i) * Pow10[n] + Padded(c, n)}
<1>1. 0 \in T
  <2>1. Padded(b, i) \in Nat /\ Padded(c, 0) = 0 /\ Pow10[0] = 1
    BY PaddedSteps, Pow10Steps
  <2> QED
    BY <2>1
<1>2. ASSUME NEW n \in Nat, n \in T
      PROVE  n + 1 \in T
  <2> SUFFICES ASSUME n + 1 <= k
               PROVE  Padded(b, i + (n + 1)) = Padded(b, i) * Pow10[n + 1] + Padded(c, n + 1)
    OBVIOUS
  <2>1. Padded(b, i + n) = Padded(b, i) * Pow10[n] + Padded(c, n)
    BY <1>2
  <2>2. /\ i + n \in Nat /\ i + (n + 1) = (i + n) + 1
        /\ Padded(b, (i + n) + 1) = 10 * Padded(b, i + n) + DigitAt(b, (i + n) + 1)
    BY PaddedSteps
  <2>3. Padded(c, n + 1) = 10 * Padded(c, n) + DigitAt(c, n + 1)
    BY PaddedSteps
  <2>4. DigitAt(c, n + 1) = DigitAt(b, (i + n) + 1)
    <3>1. n + 1 \in 1 .. k
      OBVIOUS
    <3> QED
      BY <2>2, <3>1
  <2>5. Padded(b, i) \in Nat /\ Padded(c, n) \in Nat /\ Pow10[n] \in Nat /\ Pow10[n + 1] = 10 * Pow10[n]
    BY PaddedSteps, Pow10Steps
  <2>6. DigitAt(c, n + 1) \in Nat
    BY DEF Numeric
  <2>7. Padded(b, i) * (10 * Pow10[n]) = 10 * (Padded(b, i) * Pow10[n])
    BY <2>5
  <2> DEFINE x == Padded(b, i) * Pow10[n]
  <2>8. x \in Nat
    BY <2>5
  <2> HIDE DEF x
  <2>9. 10 * (x + Padded(c, n)) + DigitAt(c, n + 1) = 10 * x + (10 * Padded(c, n) + DigitAt(c, n + 1))
    BY <2>5, <2>6, <2>8
  <2> QED
    BY <2>1, <2>2, <2>3, <2>4, <2>5, <2>7, <2>9 DEF x
<1> HIDE DEF T
<1>3. \A n \in Nat : n \in T
  BY <1>1, <1>2, Induct
<1> QED
  BY <1>3 DEF T

\* So many digits are below the power of ten.
LEMMA PaddedBound ==
  ASSUME NEW b, Decimal(b), NEW k \in Nat
  PROVE  Padded(b, k) \in 0 .. Pow10[k] - 1
<1> DEFINE T == {n \in Nat : Padded(b, n) \in 0 .. Pow10[n] - 1}
<1>0. Numeric(b)
  BY DecimalNumeric
<1>1. 0 \in T
  BY <1>0, PaddedSteps, Pow10Steps
<1>2. ASSUME NEW n \in Nat, n \in T
      PROVE  n + 1 \in T
  <2>1. DigitAt(b, n + 1) \in 0 .. 9
    BY DEF Decimal
  <2>2. Padded(b, n + 1) = 10 * Padded(b, n) + DigitAt(b, n + 1)
    BY <1>0, PaddedSteps
  <2>3. Pow10[n + 1] = 10 * Pow10[n] /\ Pow10[n] \in Nat
    BY Pow10Steps
  <2>4. Padded(b, n) \in 0 .. Pow10[n] - 1
    BY <1>2
  <2> QED
    BY <2>1, <2>2, <2>3, <2>4
<1> HIDE DEF T
<1>3. \A n \in Nat : n \in T
  BY <1>1, <1>2, Induct
<1> QED
  BY <1>3 DEF T

\* What is written of a number has its value.
LEMMA WrittenValue ==
  ASSUME NEW w \in Nat, NEW n \in 0 .. Pow10[w] - 1, NEW b, Decimal(b),
         \A i \in 1 .. w : DigitAt(b, i) = (n \div Pow10[w - i]) % 10
  PROVE  \A i \in 0 .. w : Padded(b, i) = n \div Pow10[w - i]
<1> DEFINE T == {i \in Nat : i <= w => Padded(b, i) = n \div Pow10[w - i]}
<1>0. Numeric(b) /\ Pow10[w] \in Nat \ {0} /\ n \in Nat
  BY DecimalNumeric, Pow10Steps
<1>1. 0 \in T
  <2>1. n \div Pow10[w] = 0
    BY <1>0
  <2> QED
    BY <1>0, <2>1, PaddedSteps
<1>2. ASSUME NEW i \in Nat, i \in T
      PROVE  i + 1 \in T
  <2> SUFFICES ASSUME i + 1 <= w
               PROVE  Padded(b, i + 1) = n \div Pow10[w - (i + 1)]
    OBVIOUS
  <2> DEFINE p == Pow10[w - (i + 1)]
  <2>1. p \in Nat \ {0} /\ Pow10[w - i] = 10 * p
    <3>1. w - (i + 1) \in Nat /\ (w - (i + 1)) + 1 = w - i
      OBVIOUS
    <3> QED
      BY <3>1, Pow10Steps
  <2>2. Padded(b, i) = n \div (10 * p)
    BY <1>2, <2>1
  <2>3. DigitAt(b, i + 1) = (n \div p) % 10
    <3>1. i + 1 \in 1 .. w
      OBVIOUS
    <3> QED
      BY <3>1
  <2> HIDE DEF p
  <2>4. Padded(b, i + 1) = 10 * Padded(b, i) + DigitAt(b, i + 1)
    BY <1>0, PaddedSteps
  <2>5. n \div p = 10 * (n \div (10 * p)) + ((n \div p) % 10)
    BY <1>0, <2>1, DivTen
  <2> QED
    BY <2>2, <2>3, <2>4, <2>5 DEF p
<1> HIDE DEF T
<1>3. \A i \in Nat : i \in T
  BY <1>1, <1>2, Induct
<1> QED
  BY <1>3 DEF T

\* A sequence of digits is a text of them, and ends with zeros nobody wrote.
LEMMA SeqDecimal ==
  ASSUME NEW b \in Seq(0 .. 9)
  PROVE  /\ Decimal(b) /\ Numeric(b) /\ Len(b) \in Nat /\ DOMAIN b = 1 .. Len(b)
         /\ \A i \in 1 .. Len(b) : DigitAt(b, i) = b[i] /\ b[i] \in 0 .. 9
         /\ \A i \in Nat : i > Len(b) => DigitAt(b, i) = 0
<1>1. Len(b) \in Nat /\ DOMAIN b = 1 .. Len(b) /\ \A i \in 1 .. Len(b) : b[i] \in 0 .. 9
  OBVIOUS
<1>2. \A i \in Nat : DigitAt(b, i) = IF i \in 1 .. Len(b) THEN b[i] ELSE 0
  BY <1>1 DEF DigitAt
<1>3. Decimal(b)
  BY <1>1, <1>2 DEF Decimal
<1> QED
  BY <1>1, <1>2, <1>3, DecimalNumeric


\* The value of the first digits depends on no other.
LEMMA SameDigits ==
  ASSUME NEW b, Numeric(b), NEW c, Numeric(c), NEW n \in Nat,
         \A j \in 1 .. n : DigitAt(c, j) = DigitAt(b, j)
  PROVE  Padded(c, n) = Padded(b, n)
<1>1. \A j \in 1 .. n : DigitAt(c, j) = DigitAt(b, 0 + j)
  OBVIOUS
<1>2. Padded(b, 0 + n) = Padded(b, 0) * Pow10[n] + Padded(c, n)
  BY <1>1, Window
<1>3. Padded(b, 0) = 0 /\ Padded(c, n) \in Nat /\ Pow10[n] \in Nat /\ 0 + n = n
  BY PaddedSteps, Pow10Steps
<1>4. 0 * Pow10[n] + Padded(c, n) = Padded(c, n)
  BY <1>3
<1> QED
  BY <1>2, <1>3, <1>4

\* Zeros have no value.
LEMMA NoDigits ==
  ASSUME NEW b, Numeric(b), NEW n \in Nat, \A j \in 1 .. n : DigitAt(b, j) = 0
  PROVE  Padded(b, n) = 0
<1> DEFINE T == {k \in Nat : k <= n => Padded(b, k) = 0}
<1>1. 0 \in T
  BY PaddedSteps
<1>2. ASSUME NEW k \in Nat, k \in T
      PROVE  k + 1 \in T
  <2>1. Padded(b, k + 1) = 10 * Padded(b, k) + DigitAt(b, k + 1)
    BY PaddedSteps
  <2>2. k + 1 <= n => DigitAt(b, k + 1) = 0
    OBVIOUS
  <2> QED
    BY <1>2, <2>1, <2>2
<1> HIDE DEF T
<1>3. \A k \in Nat : k \in T
  BY <1>1, <1>2, Induct
<1> QED
  BY <1>3 DEF T

\* Digits one after the other, and some of them.
LEMMA JoinedDigits ==
  ASSUME NEW a \in Seq(0 .. 9), NEW b \in Seq(0 .. 9)
  PROVE  /\ a \o b \in Seq(0 .. 9) /\ Len(a \o b) = Len(a) + Len(b)
         /\ \A i \in 1 .. Len(a) : DigitAt(a \o b, i) = DigitAt(a, i)
         /\ \A i \in Nat \ {0} : DigitAt(a \o b, Len(a) + i) = DigitAt(b, i)
<1>1. a \o b \in Seq(0 .. 9) /\ Len(a \o b) = Len(a) + Len(b) /\ Len(a) \in Nat /\ Len(b) \in Nat
  OBVIOUS
<1>2. /\ DOMAIN (a \o b) = 1 .. Len(a) + Len(b) /\ DOMAIN a = 1 .. Len(a) /\ DOMAIN b = 1 .. Len(b)
  BY <1>1, SeqDecimal
<1>3. \A i \in 1 .. Len(a) + Len(b) : (a \o b)[i] = IF i <= Len(a) THEN a[i] ELSE b[i - Len(a)]
  OBVIOUS
<1> DEFINE c == a \o b
           n == Len(a)
           k == Len(b)
<1>4. /\ n \in Nat /\ k \in Nat /\ DOMAIN c = 1 .. n + k /\ DOMAIN a = 1 .. n /\ DOMAIN b = 1 .. k
      /\ \A i \in 1 .. n + k : c[i] = IF i <= n THEN a[i] ELSE b[i - n]
  BY <1>1, <1>2, <1>3
<1> HIDE DEF c, n, k
<1>5. \A i \in 1 .. n : DigitAt(c, i) = DigitAt(a, i)
  BY <1>4 DEF DigitAt
<1>6. \A i \in Nat \ {0} : DigitAt(c, n + i) = DigitAt(b, i)
  <2> TAKE i \in Nat \ {0}
  <2>1. n + i \in Nat /\ (n + i) - n = i /\ ~(n + i <= n) /\ (n + i \in 1 .. n + k <=> i \in 1 .. k)
    BY <1>4
  <2> QED
    BY <1>4, <2>1 DEF DigitAt
<1> QED
  BY <1>1, <1>5, <1>6 DEF c, n

\* Some digits of a text.
LEMMA SomeDigits ==
  ASSUME NEW b \in Seq(0 .. 9), NEW i \in Nat, NEW k \in Nat, i + k <= Len(b)
  PROVE  /\ SubSeq(b, i + 1, i + k) \in Seq(0 .. 9) /\ Len(SubSeq(b, i + 1, i + k)) = k
         /\ \A j \in 1 .. k : DigitAt(SubSeq(b, i + 1, i + k), j) = DigitAt(b, i + j)
<1> DEFINE c == SubSeq(b, i + 1, i + k)
<1>1. c \in Seq(0 .. 9) /\ Len(c) = k /\ Len(b) \in Nat
  OBVIOUS
<1>2. \A j \in 1 .. k : c[j] = b[i + j]
  OBVIOUS
<1>3. DOMAIN c = 1 .. k /\ DOMAIN b = 1 .. Len(b)
  BY <1>1, SeqDecimal
<1>4. \A j \in 1 .. k : DigitAt(c, j) = DigitAt(b, i + j)
  <2> HIDE DEF c
  <2> DEFINE n == Len(b)
  <2>1. n \in Nat /\ i + k <= n /\ DOMAIN b = 1 .. n
    BY <1>1, <1>3
  <2> HIDE DEF n
  <2> TAKE j \in 1 .. k
  <2>2. i + j \in 1 .. n
    BY <2>1
  <2> QED
    BY <1>2, <1>3, <2>1, <2>2 DEF DigitAt
<1> QED
  BY <1>1, <1>4


Shows(b, i, c, k) == \A j \in 1 .. k : DigitAt(c, j) = DigitAt(b, i + j)

\* A text cut in two, of which c shows the second part.
LEMMA Cut ==
  ASSUME NEW b, Numeric(b), NEW c, Numeric(c), NEW i \in Nat, NEW k \in Nat, Shows(b, i, c, k),
         NEW n, n = i + k
  PROVE  Padded(b, n) = Padded(b, i) * Pow10[k] + Padded(c, k)
<1>1. \A j \in 1 .. k : DigitAt(c, j) = DigitAt(b, i + j)
  BY DEF Shows
<1> QED
  BY <1>1, Window


---------------------------------------------------------------------------
\* Digits that are a number.

\* The first digit, and the value of the others.
LEMMA FirstDigit ==
  ASSUME NEW b, Decimal(b), NEW m \in Nat
  PROVE  \E r \in 0 .. Pow10[m] - 1 : Padded(b, m + 1) = DigitAt(b, 1) * Pow10[m] + r
<1> DEFINE c == [j \in Nat |-> DigitAt(b, 1 + j)]
<1>1. \A j \in Nat : DigitAt(c, j) = DigitAt(b, 1 + j)
  BY DEF DigitAt
<1> HIDE DEF c
<1>2. Decimal(c)
  BY <1>1 DEF Decimal
<1>3. Numeric(b) /\ Numeric(c)
  BY <1>2, DecimalNumeric
<1>4. \A j \in 1 .. m : DigitAt(c, j) = DigitAt(b, 1 + j)
  BY <1>1
<1>5. Padded(b, 1 + m) = Padded(b, 1) * Pow10[m] + Padded(c, m)
  BY <1>3, <1>4, Window
<1>6. Padded(b, 1) = DigitAt(b, 1)
  <2>1. Padded(b, 0 + 1) = 10 * Padded(b, 0) + DigitAt(b, 0 + 1) /\ Padded(b, 0) = 0
    BY <1>3, PaddedSteps
  <2>2. DigitAt(b, 1) \in Nat
    BY <1>3 DEF Numeric
  <2> QED
    BY <2>1, <2>2
<1>7. Padded(c, m) \in 0 .. Pow10[m] - 1
  BY <1>2, PaddedBound
<1> QED
  BY <1>5, <1>6, <1>7

\* A number that fits a word is written with as many digits as it needs.
LEMMA DigitsAre ==
  ASSUME NEW n \in 0 .. Word - 1
  PROVE  \E w \in 1 .. 20 :
           /\ n < Pow10[w] /\ (w = 1 \/ Pow10[w - 1] <= n)
           /\ Digits(n) = [i \in 1 .. w |-> (n \div Pow10[w - i]) % 10]
<1>1. n < Pow10[20]
  <2>1. PICK k \in 1 .. 19 : Word < 2 * Pow10[k]
    BY FitAssumption
  <2>2. 10 * Pow10[k] <= Pow10[20]
    BY Pow10Grows
  <2>3. Pow10[k] \in Nat /\ Pow10[20] \in Nat /\ Word \in Nat
    BY SizesAssumption, Pow10Steps
  <2> QED
    BY <2>1, <2>2, <2>3
<1> DEFINE T == {w \in 1 .. 20 : n < Pow10[w]}
<1>2. PICK w \in T : \A v \in T : w <= v
  <2>1. 20 \in T /\ T \subseteq Nat
    BY <1>1
  <2> HIDE DEF T
  <2> QED
    BY <2>1, Least
<1>3. w = 1 \/ Pow10[w - 1] <= n
  <2> SUFFICES ASSUME w # 1, ~(Pow10[w - 1] <= n)
               PROVE  FALSE
    OBVIOUS
  <2>1. w - 1 \in 1 .. 20
    OBVIOUS
  <2>2. n < Pow10[w - 1]
    <3>1. Pow10[w - 1] \in Nat
      BY <2>1, Pow10Steps
    <3> QED
      BY <3>1
  <2>3. w - 1 \in T
    BY <2>1, <2>2
  <2> QED
    BY <1>2, <2>3
<1> DEFINE Fits(x) == n < Pow10[x] /\ (x = 1 \/ Pow10[x - 1] <= n)
<1>4. w \in 1 .. 20 /\ Fits(w)
  BY <1>2, <1>3
<1> DEFINE c == CHOOSE x \in 1 .. 20 : Fits(x)
<1>5. c \in 1 .. 20 /\ Fits(c)
  <2> HIDE DEF Fits
  <2> QED
    BY <1>4
<1>6. Digits(n) = [i \in 1 .. c |-> (n \div Pow10[c - i]) % 10]
  BY DEF Digits
<1> HIDE DEF c
<1> QED
  BY <1>5, <1>6

\* The widest word has one digit more than the power of ten below it.
LEMMA UintWidthIs ==
  \E k \in 1 .. 19 : Pow10[k] < Word /\ Word < 2 * Pow10[k] /\ UintWidth = k + 1
<1>1. PICK k \in 1 .. 19 : Pow10[k] < Word /\ Word < 2 * Pow10[k]
  BY FitAssumption
<1>2. Word \in Nat \ {0} /\ Word - 1 \in 0 .. Word - 1
  BY SizesAssumption
<1>3. PICK w \in 1 .. 20 :
        /\ Word - 1 < Pow10[w] /\ (w = 1 \/ Pow10[w - 1] <= Word - 1)
        /\ Digits(Word - 1) = [i \in 1 .. w |-> ((Word - 1) \div Pow10[w - i]) % 10]
  BY <1>2, DigitsAre
<1>4. UintWidth = w
  <2>1. \A m \in Nat : \A f : f = [i \in 1 .. m |-> ((Word - 1) \div Pow10[m - i]) % 10] => Len(f) = m
    OBVIOUS
  <2> QED
    BY <1>3, <2>1 DEF UintWidth
<1>5. Pow10[k] \in Nat /\ Pow10[w] \in Nat
  BY Pow10Steps
<1>6. ~(w <= k)
  BY <1>1, <1>2, <1>3, <1>5, Pow10Grows
<1>7. ~(k + 1 < w)
  <2> SUFFICES ASSUME k + 1 < w PROVE FALSE
    OBVIOUS
  <2> DEFINE u == w - 1
  <2>1. u \in Nat /\ k \in Nat /\ k < u /\ w # 1
    OBVIOUS
  <2> HIDE DEF u
  <2>3. 10 * Pow10[k] <= Pow10[u]
    BY <2>1, Pow10Grows
  <2>4. Pow10[u] \in Nat
    BY <2>1, Pow10Steps
  <2>2. 10 * Pow10[k] <= Pow10[w - 1] /\ Pow10[w - 1] \in Nat
    BY <2>3, <2>4 DEF u
  <2> QED
    BY <1>1, <1>2, <1>3, <1>5, <2>1, <2>2
<1>8. w = k + 1
  BY <1>6, <1>7
<1> QED
  BY <1>1, <1>4, <1>8

\* Digits that are a number: none of them is missing, and no zero leads them.
Numeral(b) == b \in Seq(0 .. 9) /\ b # <<>> /\ (b[1] = 0 => Len(b) = 1)

\* What is used of a number's digits.
LEMMA NumeralFacts ==
  ASSUME NEW b, Numeral(b)
  PROVE  /\ Decimal(b) /\ Numeric(b) /\ Len(b) - 1 \in Nat /\ Len(b) = (Len(b) - 1) + 1
         /\ b[1] \in 0 .. 9 /\ DigitAt(b, 1) = b[1] /\ (b[1] = 0 => Len(b) - 1 = 0)
         /\ \A i \in DOMAIN b : b[i] # Other
         /\ b # <<>> /\ ~(b[1] = 0 /\ b # <<0>>)
<1>1. b \in Seq(0 .. 9) /\ b # <<>> /\ (b[1] = 0 => Len(b) = 1)
  BY DEF Numeral
<1>2. Decimal(b) /\ Numeric(b) /\ Len(b) \in Nat
  BY <1>1, SeqDecimal
<1>3. DOMAIN b = 1 .. Len(b) /\ \A i \in 1 .. Len(b) : DigitAt(b, i) = b[i] /\ b[i] \in 0 .. 9
  BY <1>1, SeqDecimal
<1>4. Len(b) # 0
  BY <1>1
<1>5. Len(b) = 1 /\ b[1] = 0 => b = <<0>>
  BY <1>1
<1>6. \A i \in DOMAIN b : b[i] # Other
  BY <1>3 DEF Other
<1> DEFINE n == Len(b)
<1>7. n \in Nat /\ n # 0
  BY <1>2, <1>4
<1> HIDE DEF n
<1>8. n - 1 \in Nat /\ n = (n - 1) + 1 /\ 1 \in 1 .. n /\ (n = 1 => n - 1 = 0)
  BY <1>7
<1> QED
  BY <1>1, <1>2, <1>3, <1>5, <1>6, <1>8 DEF n

\* Digits that are a number are read exactly, or found to overflow a word.
LEMMA ParseUintExact ==
  ASSUME NEW b, Numeral(b)
  PROVE  ParseUint(b) =
           IF Padded(b, Len(b)) < Word THEN [value |-> Padded(b, Len(b)), ok |-> TRUE]
           ELSE [value |-> Word - 1, ok |-> FALSE]
<1> DEFINE V == Padded(b, Len(b))
           v == Wrapped(b)
           m == Len(b) - 1
           d == b[1]
<1>1. PICK k \in 1 .. 19 : Pow10[k] < Word /\ Word < 2 * Pow10[k] /\ UintWidth = k + 1
  BY UintWidthIs
<1>2. /\ Decimal(b) /\ Numeric(b) /\ m \in Nat /\ Len(b) = m + 1 /\ d \in 0 .. 9
      /\ DigitAt(b, 1) = d /\ (\A i \in DOMAIN b : b[i] # Other)
  BY NumeralFacts
<1>3. PICK r \in 0 .. Pow10[m] - 1 : Padded(b, m + 1) = d * Pow10[m] + r
  BY <1>2, FirstDigit
<1>4. v = V % Word
  BY <1>2, WrappedIs
<1>6. ParseUint(b) =
        IF Len(b) >= UintWidth /\ (d # 1 \/ v < Pow10[UintWidth - 1] \/ Len(b) > UintWidth)
        THEN [value |-> Word - 1, ok |-> FALSE] ELSE [value |-> v, ok |-> TRUE]
  <2>1. ~(b = <<>> \/ (\E i \in DOMAIN b : b[i] = Other) \/ (b[1] = 0 /\ b # <<0>>))
    BY NumeralFacts
  <2> QED
    BY <2>1 DEF ParseUint
<1>7. V = d * Pow10[m] + r /\ (d = 0 => m = 0)
  BY <1>2, <1>3, NumeralFacts
<1>9. UintWidth - 1 = k
  BY <1>1
<1> HIDE DEF V, v, d, m
<1>8. Word \in Nat \ {0} /\ Pow10[k] \in Nat /\ Pow10[m] \in Nat /\ d * Pow10[m] \in Nat
  <2>1. Word \in Nat \ {0}
    BY SizesAssumption
  <2>4. \A n \in Nat : Pow10[n] \in Nat
    BY Pow10Steps
  <2>5. m \in Nat /\ k \in Nat
    BY <1>2
  <2>2. Pow10[k] \in Nat /\ Pow10[m] \in Nat
    BY <2>4, <2>5
  <2>3. d \in Nat
    BY <1>2
  <2> QED
    BY <2>1, <2>2, <2>3
<1>10. CASE m < k
  <2>1. V < Pow10[m + 1]
    <3>3. m + 1 \in Nat
      BY <1>2
    <3>1. Padded(b, m + 1) \in 0 .. Pow10[m + 1] - 1
      BY <1>2, <3>3, PaddedBound
    <3>2. Pow10[m + 1] \in Nat
      BY <1>2, Pow10Steps
    <3> QED
      BY <1>2, <3>1, <3>2 DEF V
  <2>2. Pow10[m + 1] <= Pow10[k] /\ Pow10[m + 1] \in Nat
    BY <1>2, <1>10, Pow10Grows, Pow10Steps
  <2>3. V \in Nat /\ V < Word
    BY <1>1, <1>7, <1>8, <2>1, <2>2
  <2>4. v = V
    BY <1>4, <1>8, <2>3
  <2>5. ~(Len(b) >= UintWidth)
    BY <1>1, <1>2, <1>10
  <2> QED
    BY <1>6, <2>3, <2>4, <2>5 DEF V
<1>11. CASE m = k /\ d = 1
  <2>1. V = Pow10[k] + r /\ r \in 0 .. Pow10[k] - 1 /\ V \in Nat
    BY <1>7, <1>8, <1>11
  <2>2. ~(Len(b) > UintWidth) /\ Len(b) >= UintWidth
    BY <1>1, <1>2, <1>11
  <2>3. CASE V < Word
    <3>1. v = V /\ ~(v < Pow10[k])
      BY <1>4, <1>8, <2>1, <2>3
    <3> QED
      BY <1>6, <1>9, <1>11, <2>2, <2>3, <3>1 DEF V
  <2>4. CASE ~(V < Word)
    <3>1. V = 1 * Word + (V - Word) /\ V - Word \in 0 .. Word - 1 /\ V - Word < Pow10[k]
      BY <1>1, <1>8, <2>1, <2>4
    <3>2. v = V - Word
      <4> DEFINE u == V - Word
      <4> HIDE DEF u
      <4>1. V = 1 * Word + u /\ u \in 0 .. Word - 1
        BY <3>1 DEF u
      <4>2. \A q \in Int : (q * Word + u) % Word = u
        BY <1>8, <4>1, DivMod
      <4>3. (1 * Word + u) % Word = u
        BY <4>2
      <4> QED
        BY <1>4, <4>1, <4>3 DEF u
    <3> QED
      BY <1>6, <1>9, <2>2, <2>4, <3>1, <3>2 DEF V
  <2> QED
    BY <2>3, <2>4
<1>12. CASE m = k /\ d # 1
  <2>1. d >= 2
    BY <1>1, <1>2, <1>7, <1>12
  <2>2. 2 * Pow10[k] <= d * Pow10[k]
    BY <1>2, <1>8, <2>1, Times1
  <2>3. ~(V < Word) /\ Len(b) >= UintWidth
    BY <1>1, <1>2, <1>7, <1>8, <1>12, <2>2
  <2> QED
    BY <1>6, <1>12, <2>3 DEF V
<1>13. CASE m > k
  <2>1. 10 * Pow10[k] <= Pow10[m]
    BY <1>2, <1>13, Pow10Grows
  <2>2. d >= 1
    BY <1>1, <1>2, <1>7, <1>13
  <2>3. 1 * Pow10[m] <= d * Pow10[m]
    BY <1>2, <1>8, <2>2, Times1
  <2>5. Len(b) >= UintWidth /\ Len(b) > UintWidth
    BY <1>1, <1>2, <1>13
  <2>6. V >= Pow10[m] /\ V \in Nat
    BY <1>7, <1>8, <2>3
  <2>4. ~(V < Word) /\ Len(b) >= UintWidth /\ Len(b) > UintWidth
    BY <1>1, <1>8, <2>1, <2>5, <2>6
  <2> QED
    BY <1>6, <2>4 DEF V
<1> QED
  BY <1>2, <1>10, <1>11, <1>12, <1>13

Value(b) == Padded(b, Len(b))

\* So many digits of a number are below one power of ten, and not below the one before.
LEMMA ValueIs ==
  ASSUME NEW b, Numeral(b)
  PROVE  /\ b \in Seq(0 .. 9) /\ Len(b) \in Nat \ {0}
         /\ Value(b) \in 0 .. Pow10[Len(b)] - 1
         /\ Len(b) > 1 => Pow10[Len(b) - 1] <= Value(b)
<1>1. b \in Seq(0 .. 9) /\ Decimal(b)
  BY NumeralFacts DEF Numeral
<1> DEFINE m == Len(b) - 1
           d == b[1]
<1>2. m \in Nat /\ Len(b) = m + 1 /\ d \in 0 .. 9 /\ DigitAt(b, 1) = d /\ (d = 0 => m = 0)
  BY NumeralFacts
<1>3. \A x : Len(x) = m + 1 => m + 1 \in Nat \ {0}
  BY <1>2
<1>4. PICK r \in 0 .. Pow10[m] - 1 : Padded(b, m + 1) = d * Pow10[m] + r
  BY <1>1, <1>2, FirstDigit
<1> HIDE DEF m, d
<1>5. m + 1 \in Nat /\ m + 1 # 0 /\ (m + 1) - 1 = m
  BY <1>2
<1>6. Padded(b, m + 1) \in 0 .. Pow10[m + 1] - 1
  BY <1>1, <1>5, PaddedBound
<1>7. ASSUME m + 1 > 1
      PROVE  Pow10[m] <= Padded(b, m + 1)
  <2>1. d >= 1 /\ d \in Nat
    BY <1>2, <1>7
  <2>2. Pow10[m] \in Nat
    BY <1>2, Pow10Steps
  <2>3. 1 * Pow10[m] <= d * Pow10[m]
    BY <2>1, <2>2, Times1
  <2>4. d * Pow10[m] \in Nat
    BY <2>1, <2>2
  <2> QED
    BY <1>4, <2>2, <2>3, <2>4
<1> QED
  BY <1>1, <1>2, <1>5, <1>6, <1>7 DEF Value


---------------------------------------------------------------------------
\* A text, and what it means.

\* A unit is a power of ten that divides a second.
UnitIs(unit, s, l) ==
  /\ l <= s /\ Second = Pow10[s] /\ unit = Pow10[l] /\ Second \div unit = Pow10[s - l]
  /\ Second = unit * Pow10[s - l] /\ unit \in Nat \ {0} /\ Second \in Nat \ {0, 1}
  /\ Pow10[s - l] \in Nat \ {0}
  /\ Log10(unit) = l /\ Log10(Second) = s /\ Log10(Second \div unit) = s - l
  /\ unit = 1 <=> l = 0

\* Every unit is one.
LEMMA UnitsAre ==
  ASSUME NEW unit \in Units
  PROVE  \E s \in 1 .. 9, l \in 0 .. 9 : UnitIs(unit, s, l)
<1>1. PICK s \in 1 .. 9 : Second = Pow10[s]
  BY SecondAssumption
<1>2. PICK l \in 0 .. 9 : unit = Pow10[l]
  BY DEF Units
<1>3. unit <= Second /\ Second \in Nat \ {0, 1}
  BY SizesAssumption DEF Units
<1>4. unit \in Nat \ {0}
  BY <1>2, Pow10Steps
<1>5. l <= s
  <2>1. s < l => Pow10[s] < Pow10[l]
    BY Pow10Grows
  <2> QED
    BY <1>1, <1>2, <1>3, <1>4, <2>1
<1> DEFINE k == s - l
<1>6. k \in 0 .. 9 /\ k \in Nat /\ l + k = s
  BY <1>5
<1> HIDE DEF k
<1>7. Pow10[k] \in Nat \ {0}
  BY <1>6, Pow10Steps
<1>8. Second = unit * Pow10[k]
  <2>1. l \in Nat /\ k \in Nat
    BY <1>6
  <2>2. Pow10[l + k] = Pow10[l] * Pow10[k]
    BY <2>1, Pow10Add
  <2> QED
    BY <1>1, <1>2, <1>6, <2>2
<1>9. Second \div unit = Pow10[k]
  <2> DEFINE p == Pow10[k]
  <2>1. p \in Nat /\ Second = p * unit + 0 /\ 0 \in 0 .. unit - 1
    BY <1>4, <1>7, <1>8
  <2> HIDE DEF p
  <2>2. (p * unit + 0) \div unit = p
    BY <1>4, <2>1, DivMod
  <2> QED
    BY <2>1, <2>2 DEF p
<1>10. Log10(unit) = l /\ Log10(Second) = s /\ Log10(Pow10[k]) = k
  BY <1>1, <1>2, <1>6, Pow10Log
<1>11. unit = 1 <=> l = 0
  <2>1. l = 0 => unit = 1
    BY <1>2, Pow10Steps
  <2>2. 0 < l => Pow10[0] < Pow10[l]
    BY Pow10Grows
  <2> QED
    BY <1>2, <2>1, <2>2, Pow10Steps
<1>12. UnitIs(unit, s, l)
  BY <1>1, <1>2, <1>3, <1>4, <1>5, <1>7, <1>8, <1>9, <1>10, <1>11 DEF UnitIs, k
<1> QED
  BY <1>12

DigitText(b) == b \in Seq(0 .. 9)

\* Digits, and what they mean, in a unit: the parts of the code's computation are those of the meaning.
MeaningParts(whole, frac, unit, sec, nsec) ==
  \A neg, dot : Meaning(Text(neg, whole, dot, frac), unit) =
     IF ~neg THEN Time(sec, nsec)
     ELSE IF nsec = 0 THEN Time(-sec, 0) ELSE Time(-sec - 1, Second - nsec)

\* The meaning of digits, in words: the quotient of the whole part, and its rest with the fraction.
LEMMA MeaningIs ==
  ASSUME NEW unit, NEW s \in 1 .. 9, NEW l \in 0 .. 9, UnitIs(unit, s, l),
         NEW whole, DigitText(whole), NEW frac, DigitText(frac)
  PROVE  /\ MeaningParts(whole, frac, unit, Value(whole) \div unit,
                         (Value(whole) % unit) * Pow10[s - l] + Padded(frac, s - l))
         /\ Value(whole) \in Nat
         /\ (Value(whole) % unit) * Pow10[s - l] + Padded(frac, s - l) \in 0 .. Second - 1
         /\ l <= Len(whole) =>
              /\ Padded(SubSeq(whole, 1, Len(whole) - l), Len(whole) - l) = Value(whole) \div unit
              /\ Padded(SubSeq(whole, Len(whole) - l + 1, Len(whole)), l) = Value(whole) % unit
<1> DEFINE zeros == [i \in 1 .. l |-> 0]
           all == zeros \o whole
           L == Len(whole)
           front == SubSeq(all, 1, Len(all) - l)
           mid == SubSeq(all, Len(all) - l + 1, Len(all))
           tail == mid \o frac
           V == Value(whole)
           k == s - l
<1>1. unit = Pow10[l] /\ unit \in Nat \ {0} /\ l <= s /\ Log10(unit) = l /\ Log10(Second) = s
  BY DEF UnitIs
<1>2. zeros \in Seq(0 .. 9) /\ Len(zeros) = l
  OBVIOUS
<1>3. Numeric(zeros) /\ \A j \in 1 .. l : DigitAt(zeros, j) = 0
  <2>1. DOMAIN zeros = 1 .. l
    OBVIOUS
  <2> QED
    BY <1>2, <2>1, SeqDecimal DEF DigitAt
<1> HIDE DEF zeros
<1>4. /\ all \in Seq(0 .. 9) /\ Len(all) = l + L
      /\ \A i \in 1 .. l : DigitAt(all, i) = DigitAt(zeros, i)
      /\ \A i \in Nat \ {0} : DigitAt(all, l + i) = DigitAt(whole, i)
  BY <1>2, JoinedDigits DEF DigitText
<1>5. Len(whole) \in Nat /\ Numeric(whole) /\ Decimal(whole)
  BY SeqDecimal DEF DigitText
<1>6. Numeric(all) /\ Decimal(all)
  BY <1>4, SeqDecimal
<1> HIDE DEF all
<1>7. L \in Nat /\ Len(all) - l = L /\ Len(all) = L + l
  BY <1>4, <1>5
<1>8. front = SubSeq(all, 0 + 1, 0 + L) /\ mid = SubSeq(all, L + 1, L + l)
  BY <1>7
<1>9. /\ front \in Seq(0 .. 9) /\ Len(front) = L
      /\ \A j \in 1 .. L : DigitAt(front, j) = DigitAt(all, j)
  <2> HIDE DEF L, front, mid
  <2>1. \A i \in Nat : i = 0 => i + 1 = 0 + 1 /\ i + L = 0 + L /\ i + L <= Len(all)
    BY <1>7
  <2>2. \A i \in Nat : i + L <= Len(all) =>
          /\ SubSeq(all, i + 1, i + L) \in Seq(0 .. 9) /\ Len(SubSeq(all, i + 1, i + L)) = L
          /\ \A j \in 1 .. L : DigitAt(SubSeq(all, i + 1, i + L), j) = DigitAt(all, i + j)
    BY <1>4, <1>7, SomeDigits
  <2>3. \A j \in 1 .. L : 0 + j = j
    OBVIOUS
  <2> QED
    BY <1>8, <2>1, <2>2, <2>3
<1>10. /\ mid \in Seq(0 .. 9) /\ Len(mid) = l
       /\ \A j \in 1 .. l : DigitAt(mid, j) = DigitAt(all, L + j)
  <2> HIDE DEF L, front, mid
  <2>1. l \in Nat /\ L + l <= Len(all)
    BY <1>7
  <2> QED
    BY <1>4, <1>7, <1>8, <2>1, SomeDigits
<1> HIDE DEF L, front, mid
<1>11. /\ tail \in Seq(0 .. 9)
       /\ \A i \in 1 .. l : DigitAt(tail, i) = DigitAt(mid, i)
       /\ \A i \in Nat \ {0} : DigitAt(tail, l + i) = DigitAt(frac, i)
  BY <1>10, JoinedDigits DEF DigitText
<1> HIDE DEF tail
<1>12. /\ Numeric(front) /\ Decimal(front) /\ Numeric(mid) /\ Decimal(mid)
       /\ Numeric(tail) /\ Numeric(frac) /\ Decimal(frac)
  BY <1>9, <1>10, <1>11, SeqDecimal DEF DigitText
<1>13. l \in Nat /\ k \in Nat /\ l + k = s
  BY <1>1
<1> HIDE DEF k
\* The whole part, cut at the unit.
<1>14. V \in Nat /\ V = Padded(all, L) * unit + Padded(mid, l) /\ Padded(all, L) \in Nat
  <2>1. Padded(all, l) = 0
    BY <1>3, <1>4, <1>6, <1>13, NoDigits
  <2>2. \A j \in 1 .. L : DigitAt(whole, j) = DigitAt(all, l + j)
    BY <1>4
  <2>3. Padded(all, l + L) = Padded(all, l) * Pow10[L] + Padded(whole, L)
    BY <1>5, <1>6, <1>7, <1>13, <2>2, Window
  <2>4. Padded(all, L + l) = Padded(all, L) * Pow10[l] + Padded(mid, l)
    <3>1. Shows(all, L, mid, l)
      BY <1>10 DEF Shows
    <3>2. \A n : n = L + l => Padded(all, n) = Padded(all, L) * Pow10[l] + Padded(mid, l)
      BY <1>6, <1>7, <1>12, <1>13, <3>1, Cut
    <3> QED
      BY <3>2
  <2>5. Padded(whole, L) \in Nat /\ Pow10[L] \in Nat /\ Padded(all, L) \in Nat
    BY <1>5, <1>6, <1>7, PaddedSteps, Pow10Steps
  <2>6. 0 * Pow10[L] + Padded(whole, L) = Padded(whole, L) /\ l + L = L + l
    BY <1>7, <1>13, <2>5
  <2>7. V = Padded(whole, L)
    BY DEF Value, L
  <2> HIDE DEF V
  <2> QED
    BY <1>1, <2>1, <2>3, <2>4, <2>5, <2>6, <2>7
<1> HIDE DEF V
<1>15. Padded(mid, l) \in 0 .. unit - 1
  BY <1>1, <1>12, <1>13, PaddedBound
<1>16. V \div unit = Padded(all, L) /\ V % unit = Padded(mid, l)
  <2> DEFINE q == Padded(all, L)
             r == Padded(mid, l)
  <2>1. q \in Int /\ unit \in Nat \ {0} /\ r \in 0 .. unit - 1 /\ V = q * unit + r
    BY <1>1, <1>14, <1>15
  <2> HIDE DEF q, r
  <2>2. V \div unit = q /\ V % unit = r
    BY <2>1, QuotientRest, Zenon
  <2> QED
    BY <2>2 DEF q, r
<1>17. Padded(front, L) = Padded(all, L)
  BY <1>6, <1>7, <1>9, <1>12, SameDigits
\* What is below a second.
<1>18. Padded(tail, s) = Padded(mid, l) * Pow10[k] + Padded(frac, k)
  <2>1. \A j \in 1 .. k : DigitAt(frac, j) = DigitAt(tail, l + j)
    BY <1>11
  <2>2. Padded(tail, l + k) = Padded(tail, l) * Pow10[k] + Padded(frac, k)
    BY <1>12, <1>13, <2>1, Window
  <2>3. Padded(tail, l) = Padded(mid, l)
    BY <1>11, <1>12, <1>13, SameDigits
  <2> QED
    BY <1>13, <2>2, <2>3
<1>19. Padded(tail, s) \in 0 .. Second - 1
  <2>1. Decimal(tail) /\ s \in Nat
    BY <1>11, SeqDecimal
  <2> QED
    BY <2>1, PaddedBound DEF UnitIs
<1> DEFINE sec == Padded(front, Len(front))
           nsec == Padded(tail, s)
<1>20. ASSUME NEW neg, NEW dot
       PROVE  Meaning(Text(neg, whole, dot, frac), unit) =
                IF ~neg THEN Time(sec, nsec)
                ELSE IF nsec = 0 THEN Time(-sec, 0) ELSE Time(-sec - 1, Second - nsec)
  <2> DEFINE text == Text(neg, whole, dot, frac)
  <2>1. text.neg = neg /\ text.whole = whole /\ text.frac = frac
    BY DEF Text
  <2> HIDE DEF text
  <2> QED
    <3>1. Meaning(text, unit) =
            IF ~neg THEN Time(sec, nsec)
            ELSE IF nsec = 0 THEN Time(-sec, 0) ELSE Time(-sec - 1, Second - nsec)
      BY <1>1, <2>1 DEF Meaning, zeros, all, front, mid, tail
    <3> QED
      BY <3>1 DEF text
<1>21. sec = V \div unit /\ nsec = (V % unit) * Pow10[k] + Padded(frac, k)
  BY <1>9, <1>16, <1>17, <1>18
<1>22. MeaningParts(whole, frac, unit, V \div unit, (V % unit) * Pow10[k] + Padded(frac, k))
  <2> HIDE DEF sec, nsec
  <2> QED
    BY <1>20, <1>21 DEF MeaningParts
<1>23. ASSUME l <= L
       PROVE  /\ Padded(SubSeq(whole, 1, L - l), L - l) = V \div unit
              /\ Padded(SubSeq(whole, L - l + 1, L), l) = V % unit
  <2> DEFINE c == L - l
             up == SubSeq(whole, 1, c)
             low == SubSeq(whole, c + 1, L)
  <2>1. c \in Nat /\ c + l = L
    BY <1>7, <1>23
  <2> HIDE DEF c
  <2>2. /\ up \in Seq(0 .. 9)
        /\ \A j \in 1 .. c : DigitAt(up, j) = DigitAt(whole, j)
    <3>1. \A i \in Nat : i = 0 => i + 1 = 1 /\ i + c = c /\ i + c <= Len(whole)
      BY <1>5, <1>13, <2>1 DEF L
    <3>2. \A i \in Nat : i + c <= Len(whole) =>
            /\ SubSeq(whole, i + 1, i + c) \in Seq(0 .. 9)
            /\ \A j \in 1 .. c : DigitAt(SubSeq(whole, i + 1, i + c), j) = DigitAt(whole, i + j)
      BY <2>1, SomeDigits DEF DigitText
    <3>3. \A j \in 1 .. c : 0 + j = j
      OBVIOUS
    <3> QED
      BY <3>1, <3>2, <3>3
  <2>3. /\ low \in Seq(0 .. 9)
        /\ \A j \in 1 .. l : DigitAt(low, j) = DigitAt(whole, c + j)
    <3>1. c + l <= Len(whole) /\ low = SubSeq(whole, c + 1, c + l)
      BY <1>5, <1>13, <2>1 DEF L
    <3> HIDE DEF low
    <3> QED
      BY <1>13, <2>1, <3>1, SomeDigits DEF DigitText
  <2> HIDE DEF up, low
  <2>4. Numeric(up) /\ Numeric(low) /\ Decimal(low)
    BY <2>2, <2>3, SeqDecimal
  <2>5. Padded(whole, L) = Padded(whole, c) * Pow10[l] + Padded(low, l)
    <3>1. Shows(whole, c, low, l)
      BY <2>3 DEF Shows
    <3> QED
      BY <1>5, <1>13, <2>1, <2>4, <3>1, Cut
  <2>6. Padded(low, l) \in 0 .. unit - 1
    BY <1>1, <1>13, <2>4, PaddedBound
  <2>7. Padded(up, c) = Padded(whole, c) /\ Padded(whole, c) \in Nat
    BY <1>5, <2>1, <2>2, <2>4, SameDigits, PaddedSteps
  <2>8. V = Padded(whole, c) * unit + Padded(low, l)
    BY <1>1, <2>5 DEF V, Value, L
  <2>9. V \div unit = Padded(whole, c) /\ V % unit = Padded(low, l)
    <3> DEFINE q == Padded(whole, c)
               r == Padded(low, l)
    <3>1. q \in Int /\ unit \in Nat \ {0} /\ r \in 0 .. unit - 1 /\ V = q * unit + r
      BY <1>1, <2>6, <2>7, <2>8
    <3> HIDE DEF q, r
    <3>2. V \div unit = q /\ V % unit = r
      BY <3>1, QuotientRest, Zenon
    <3> QED
      BY <3>2 DEF q, r
  <2> QED
    BY <2>7, <2>9 DEF up, low, c
<1> QED
  BY <1>14, <1>18, <1>19, <1>16, <1>22, <1>23 DEF V, k, L

---------------------------------------------------------------------------
\* Signs.

\* Conversions of a word there and back, and of the integers that fit.
LEMMA ToIntToUint ==
  ASSUME NEW i \in -Word .. Word - 1
  PROVE  ToInt(ToUint(i)) =
           IF i < -(Word \div 2) THEN i + Word
           ELSE IF i < Word \div 2 THEN i ELSE i - Word
<1> DEFINE W == Word
           H == Word \div 2
<1>1. W \in Nat /\ W > 0 /\ W = 2 * H /\ H \in Nat
  BY SizesAssumption
<1> HIDE DEF W, H
<1>2. i \in Int /\ -W <= i /\ i < W
  BY <1>1 DEF W
<1>3. i % W = IF i < 0 THEN i + W ELSE i
  <2>1. CASE i < 0
    BY <1>1, <1>2, <2>1
  <2>2. CASE i >= 0
    BY <1>1, <1>2, <2>2
  <2> QED
    BY <1>2, <2>1, <2>2
<1> QED
  BY <1>1, <1>2, <1>3 DEF ToInt, ToUint, W, H

\* Dividing what is left of a second.
LEMMA Rest ==
  ASSUME NEW n \in 0 .. Second - 1
  PROVE  /\ (Second - n) \div Second = IF n = 0 THEN 1 ELSE 0
         /\ (Second - n) % Second = IF n = 0 THEN 0 ELSE Second - n
<1> DEFINE S == Second
<1>1. S \in Nat /\ S > 1
  BY SizesAssumption
<1> HIDE DEF S
<1>2. n \in 0 .. S - 1
  BY DEF S
<1>3. S \div S = 1 /\ S % S = 0
  BY <1>1
<1>4. ASSUME n # 0
      PROVE  (S - n) \div S = 0 /\ (S - n) % S = S - n
  BY <1>1, <1>2, <1>4
<1> QED
  BY <1>1, <1>2, <1>3, <1>4 DEF S

\* Negating a time turns it about the epoch exactly, borrowing a second where it has nanoseconds,
\* and twice is nothing, for every width of a word: the complement-plus-one of json_timeunix.go,
\* lines 77-83, loses nothing but the one instant whose negation does not fit.
THEOREM NegateExact ==
  ASSUME NEW t \in Times, t.sec # -(Word \div 2) \/ t.nsec # 0
  PROVE  /\ Negate(t) = IF t.nsec = 0 THEN Time(-t.sec, 0) ELSE Time(-t.sec - 1, Second - t.nsec)
         /\ Negate(t) \in Times
         /\ Negate(Negate(t)) = t
<1> DEFINE H == Word \div 2
           Opposite(u) == IF u.nsec = 0 THEN Time(-u.sec, 0) ELSE Time(-u.sec - 1, Second - u.nsec)
<1>1. Word \in Nat /\ Word > 0 /\ Word = 2 * H /\ H \in Nat /\ Second \in Nat /\ Second > 1
  BY SizesAssumption
<1>2. ASSUME NEW u \in Times, u.sec # -H \/ u.nsec # 0
      PROVE  Negate(u) = Opposite(u) /\ Opposite(u) \in Times
  <2> DEFINE c == -u.sec - 1 + (Second - u.nsec) \div Second
  <2> HIDE DEF H
  <2>1. u.sec \in -H .. H - 1 /\ u.nsec \in 0 .. Second - 1
    BY DEF Times, H
  <2>2. c = IF u.nsec = 0 THEN -u.sec ELSE -u.sec - 1
    BY <2>1, <1>1, Rest
  <2>3. c \in -H .. H - 1
    BY <1>1, <1>2, <2>1, <2>2
  <2>4. ToInt(ToUint(c)) = c
    BY <1>1, <2>3, ToIntToUint DEF H
  <2>5. Negate(u) = Time(c, (Second - u.nsec) % Second)
    BY <2>4 DEF Negate
  <2>6. Negate(u) = Opposite(u)
    BY <1>1, <2>1, <2>2, <2>5, Rest
  <2>7. Opposite(u) \in Times
    <3>1. (Second - u.nsec) % Second \in 0 .. Second - 1
      BY <1>1, <2>1, Rest
    <3>2. Time(c, (Second - u.nsec) % Second) \in Times
      BY <2>3, <3>1 DEF Times, Time, H
    <3> QED
      BY <2>5, <2>6, <3>2
  <2> QED
    BY <2>6, <2>7
<1>3. Negate(t) = Opposite(t) /\ Opposite(t) \in Times
  BY <1>2
<1>4. Opposite(t).sec # -H \/ Opposite(t).nsec # 0
  <2> HIDE DEF H
  <2>1. t.sec \in -H .. H - 1 /\ t.nsec \in 0 .. Second - 1
    BY DEF Times, H
  <2> QED
    BY <1>1, <2>1 DEF Time
<1>5. Negate(Opposite(t)) = Opposite(Opposite(t))
  BY <1>2, <1>3, <1>4
<1>6. Opposite(Opposite(t)) = t
  <2>1. t = [sec |-> t.sec, nsec |-> t.nsec] /\ t.sec \in Int /\ t.nsec \in 0 .. Second - 1
    BY <1>1 DEF Times
  <2>2. CASE t.nsec = 0
    BY <2>1, <2>2 DEF Time
  <2>3. CASE t.nsec # 0
    BY <1>1, <2>1, <2>3 DEF Time
  <2> QED
    BY <2>2, <2>3
<1> QED
  BY <1>3, <1>5, <1>6

\* The sign of a meaning, as Meaning has it.
Signed(neg, sec, nsec) ==
  IF ~neg THEN Time(sec, nsec)
  ELSE IF nsec = 0 THEN Time(-sec, 0) ELSE Time(-sec - 1, Second - nsec)

\* Turning the word that was read about, and its sign checked, gives the meaning if it fits.
Turned(neg, x, nsec) ==
  LET t == Time(ToInt(x), nsec)
      n == IF neg THEN Negate(t) ELSE t
  IN  IF neg = (n.sec < 0) THEN {n} ELSE {}

Fits(t, neg) == t \in Times /\ (neg => t.sec < 0)

\* For every word and every fraction of a second.
LEMMA TurnedIs ==
  ASSUME NEW neg \in BOOLEAN, NEW x \in 0 .. Word - 1, NEW nsec \in 0 .. Second - 1
  PROVE  Turned(neg, x, nsec) =
           IF Fits(Signed(neg, x, nsec), neg) THEN {Signed(neg, x, nsec)} ELSE {}
<1> DEFINE H == Word \div 2
           W == Word
           S == Second
           y == ToInt(x)
           c == -y - 1 + (S - nsec) \div S
           n == IF neg THEN Negate(Time(y, nsec)) ELSE Time(y, nsec)
           M == Signed(neg, x, nsec)
<1>1. W \in Nat /\ W > 0 /\ W = 2 * H /\ H \in Nat /\ S \in Nat /\ S > 1
  BY SizesAssumption
<1>2. x \in 0 .. W - 1 /\ nsec \in 0 .. S - 1
  OBVIOUS
<1>3. Times = [sec : -H .. H - 1, nsec : 0 .. S - 1]
  BY DEF Times
<1>4. y = IF x < H THEN x ELSE x - W
  BY DEF ToInt
<1>5. /\ (S - nsec) \div S = IF nsec = 0 THEN 1 ELSE 0
      /\ (S - nsec) % S = IF nsec = 0 THEN 0 ELSE S - nsec
  BY Rest
<1>6. \A i \in -W .. W - 1 : ToInt(ToUint(i)) =
        IF i < -H THEN i + W ELSE IF i < H THEN i ELSE i - W
  BY ToIntToUint
<1>7. Negate(Time(y, nsec)) = Time(ToInt(ToUint(c)), (S - nsec) % S)
  BY DEF Negate, Time
<1>8. Turned(neg, x, nsec) = IF neg = (n.sec < 0) THEN {n} ELSE {}
  BY DEF Turned
<1>9. Fits(M, neg) <=> M.sec \in -H .. H - 1 /\ M.nsec \in 0 .. S - 1 /\ (neg => M.sec < 0)
  BY <1>3 DEF Fits, Signed, Time
<1>10. Time(y, nsec).sec = y
  BY DEF Time
<1>11. CASE ~neg
  <2>1. n = Time(y, nsec) /\ M = Time(x, nsec) /\ M.sec = x /\ M.nsec = nsec
    BY <1>11 DEF Signed, Time
  <2> HIDE DEF H, W, S, y, c, n, M
  <2>2. Turned(neg, x, nsec) = IF y < 0 THEN {} ELSE {Time(y, nsec)}
    BY <1>8, <1>10, <1>11, <2>1
  <2>3. x < H => y = x /\ ~(y < 0)
    BY <1>1, <1>2, <1>4
  <2>4. ~(x < H) => y < 0 /\ ~(x \in -H .. H - 1)
    BY <1>1, <1>2, <1>4
  <2>5. x < H => x \in -H .. H - 1
    BY <1>1, <1>2
  <2> QED
    BY <1>2, <1>9, <1>11, <2>1, <2>2, <2>3, <2>4, <2>5 DEF M
<1>12. CASE neg
  <2> DEFINE z == ToInt(ToUint(c))
             v == IF nsec = 0 THEN -x ELSE -x - 1
             r == (S - nsec) % S
  <2>1. n = Time(z, r) /\ n.sec = z
    BY <1>7, <1>12 DEF Time
  <2>2. M = Time(v, r) /\ M.sec = v /\ M.nsec = r
    BY <1>5, <1>12 DEF Signed, Time
  <2>3. r \in 0 .. S - 1
    BY <1>1, <1>2, <1>5
  <2>4. c = IF nsec = 0 THEN -y ELSE -y - 1
    <3> HIDE DEF H, W, S, y
    <3> QED
      BY <1>1, <1>2, <1>4, <1>5
  <2> HIDE DEF H, W, S, y, c, n, M, r
  <2>5. v \in Int /\ (v < 0 /\ v >= -H => z = v) /\ (~(v < 0 /\ v >= -H) => ~(z < 0))
    <3> HIDE DEF z
    <3>1. c \in -W .. W - 1
      BY <1>1, <1>2, <1>4, <2>4
    <3>2. z = IF c < -H THEN c + W ELSE IF c < H THEN c ELSE c - W
      BY <1>6, <3>1 DEF z
    <3> QED
      BY <1>1, <1>2, <1>4, <2>4, <3>2
  <2> HIDE DEF z, v
  <2>6. Fits(M, neg) <=> v < 0 /\ v >= -H
    <3>1. v \in -H .. H - 1 /\ v < 0 <=> v < 0 /\ v >= -H
      BY <1>1, <2>5
    <3>2. Fits(M, neg) <=> v \in -H .. H - 1 /\ v < 0
      BY <1>9, <1>12, <2>2, <2>3
    <3> QED
      BY <3>1, <3>2
  <2>7. Turned(neg, x, nsec) = IF z < 0 THEN {Time(z, r)} ELSE {}
    BY <1>8, <1>12, <2>1
  <2> QED
    BY <2>2, <2>5, <2>6, <2>7 DEF M
<1> QED
  BY <1>11, <1>12

\* Digits after the point, as many as the precision takes.
LEMMA FracIs ==
  ASSUME NEW text, NEW k \in 0 .. 9, NEW max, Log10(max) = k,
         DigitText(text.frac), ~text.dot => text.frac = <<>>
  PROVE  /\ ParseFrac(text, max).value = Padded(text.frac, k)
         /\ ParseFrac(text, max).ok <=> (text.dot => text.frac # <<>>)
<1>1. DigitText(text.frac) => Numeric(text.frac) /\ \A i \in DOMAIN text.frac : text.frac[i] # Other
  BY SeqDecimal DEF DigitText, Other
<1>2. ASSUME text.frac = <<>>
      PROVE  Padded(text.frac, k) = 0
  <2>1. \A j \in Nat : DigitAt(<<>>, j) = 0
    BY DEF DigitAt
  <2>2. Numeric(<<>>)
    BY <2>1 DEF Numeric
  <2> QED
    BY <1>2, <2>1, <2>2, NoDigits
<1>3. CASE text.dot
  BY <1>1, <1>3 DEF ParseFrac
<1>4. CASE ~text.dot
  BY <1>2, <1>4 DEF ParseFrac
<1> QED
  BY <1>3, <1>4

---------------------------------------------------------------------------
\* Reading.

\* What is more than a word fits with neither sign.
LEMMA TooLarge ==
  ASSUME NEW neg \in BOOLEAN, NEW x \in Nat, x >= Word, NEW nsec
  PROVE  ~Fits(Signed(neg, x, nsec), neg)
<1> DEFINE H == Word \div 2
<1>1. Word \in Nat /\ Word > 0 /\ Word = 2 * H /\ H \in Nat
  BY SizesAssumption
<1> HIDE DEF H
<1>2. Signed(neg, x, nsec).sec \in {x, -x, -x - 1}
  BY DEF Signed, Time
<1>3. ~(x \in -H .. H - 1) /\ ~(-x \in -H .. H - 1) /\ ~(-x - 1 \in -H .. H - 1)
  BY <1>1
<1>4. Signed(neg, x, nsec) \in Times => Signed(neg, x, nsec).sec \in -H .. H - 1
  BY DEF Times, H
<1> QED
  BY <1>2, <1>3, <1>4 DEF Fits

\* A second's worth of seconds is less than a word.
LEMMA SecondFits == Second * Second < Word /\ Second < Word
<1>1. Second \in Nat /\ 1 <= Second /\ Word \in Nat /\ Second * Second \in Nat
  BY SizesAssumption
<1>2. 1 * Second <= Second * Second
  BY <1>1, Times1
<1> QED
  BY <1>1, <1>2, FitAssumption

\* Digits whose value fits a word are no more than a word's, and those of one that does not are
\* more than a second's.
LEMMA LengthIs ==
  ASSUME NEW b, Numeral(b)
  PROVE  /\ UintWidth \in Nat
         /\ Value(b) < Word => Len(b) <= UintWidth
         /\ \A s \in 0 .. 9 : Second = Pow10[s] /\ Value(b) >= Word => Len(b) > 2 * s
<1>1. PICK k \in 1 .. 19 : Pow10[k] < Word /\ Word < 2 * Pow10[k] /\ UintWidth = k + 1
  BY UintWidthIs
<1> DEFINE n == Len(b)
           V == Value(b)
<1>2. n \in Nat /\ n # 0 /\ V \in 0 .. Pow10[n] - 1 /\ (n > 1 => Pow10[n - 1] <= V)
  BY ValueIs
<1> HIDE DEF n, V
<1>3. Word \in Nat
  BY SizesAssumption
<1>4. \A m \in Nat : Pow10[m] \in Nat
  BY Pow10Steps
<1>5. ASSUME V < Word, n > k + 1
      PROVE  FALSE
  <2> DEFINE m == n - 1
  <2>1. m \in Nat /\ k \in Nat /\ k < m
    BY <1>2, <1>5
  <2>2. Pow10[m] <= V
    BY <1>2, <1>5
  <2> HIDE DEF m
  <2>3. 10 * Pow10[k] <= Pow10[m]
    BY <2>1, Pow10Grows
  <2> QED
    BY <1>1, <1>2, <1>3, <1>4, <1>5, <2>1, <2>2, <2>3
<1>6. ASSUME NEW s \in 0 .. 9, Second = Pow10[s], V >= Word, ~(n > 2 * s)
      PROVE  FALSE
  <2>1. s \in Nat /\ s + s \in Nat /\ n <= s + s
    BY <1>2, <1>6
  <2>2. Pow10[s + s] = Second * Second
    BY <1>6, <2>1, Pow10Add
  <2>3. Pow10[n] <= Pow10[s + s]
    BY <1>2, <2>1, Pow10Grows
  <2> QED
    BY <1>2, <1>3, <1>4, <1>6, <2>1, <2>2, <2>3, SecondFits
<1> QED
  BY <1>1, <1>2, <1>5, <1>6 DEF n, V

\* A number is read as what it means, if that fits, however long its digits are.
LEMMA ParseNumber ==
  ASSUME NEW unit, NEW s \in 1 .. 9, NEW l \in 0 .. 9, UnitIs(unit, s, l),
         NEW neg \in BOOLEAN, NEW dot \in BOOLEAN, NEW whole, NEW frac,
         Numeral(whole), DigitText(frac), dot <=> frac # <<>>
  PROVE  LET text == Text(neg, whole, dot, frac)
             M    == Meaning(text, unit)
         IN  /\ ParseTime(text, unit) = IF Fits(M, neg) THEN {M} ELSE {}
             /\ Fits(M, neg) => Len(whole) <= UintWidth + l
<1> DEFINE text == Text(neg, whole, dot, frac)
           M == Meaning(text, unit)
           V == Value(whole)
           L == Len(whole)
           R == Pow10[s - l]
           F == Padded(frac, s - l)
           X == V \div unit
           Y == V % unit
           nsec == Y * R + F
           fp == ParseFrac(text, Second \div unit)
           wp == ParseUint(whole)
           cut == L - l
           up == ParseUint(SubSeq(whole, 1, cut))
           mid == Padded(SubSeq(whole, cut + 1, L), l)
<1>1. text.neg = neg /\ text.whole = whole /\ text.dot = dot /\ text.frac = frac
  BY DEF Text
<1>2. l <= s /\ unit \in Nat \ {0} /\ Second \div unit = R /\ Log10(unit) = l /\ (unit = 1 <=> l = 0)
      /\ Log10(Second \div unit) = s - l /\ Second = Pow10[s]
  BY DEF UnitIs
<1>3. DigitText(whole)
  BY DEF Numeral, DigitText
<1>4. /\ MeaningParts(whole, frac, unit, X, nsec)
      /\ V \in Nat /\ nsec \in 0 .. Second - 1
      /\ l <= L => Padded(SubSeq(whole, 1, cut), cut) = X /\ mid = Y
  BY <1>3, MeaningIs
<1>5. M = Signed(neg, X, nsec)
  BY <1>4 DEF MeaningParts, Signed
<1>6. fp.value = F /\ fp.ok
  <2> HIDE DEF text
  <2>1. s - l \in 0 .. 9
    BY <1>2
  <2> QED
    BY <1>1, <1>2, <2>1, FracIs
<1>7. wp = IF V < Word THEN [value |-> V, ok |-> TRUE] ELSE [value |-> Word - 1, ok |-> FALSE]
  BY ParseUintExact DEF Value
<1>8. X \in Nat /\ L \in Nat /\ Word \in Nat \ {0} /\ UintWidth \in Nat
  <2>1. X \in Nat
    BY <1>2, <1>4
  <2> QED
    BY <2>1, ValueIs, LengthIs, SizesAssumption
<1>9. ASSUME wp.ok \/ unit = 1 \/ wp.value # Word - 1
      PROVE  ParseTime(text, unit) =
               LET t == Time(ToInt(wp.value \div unit), (wp.value % unit) * R + F)
                   n == IF neg THEN Negate(t) ELSE t
               IN  IF wp.ok /\ neg = (n.sec < 0) THEN {n} ELSE {}
  <2> HIDE DEF text, fp, wp, R, F
  <2> QED
    BY <1>1, <1>2, <1>6, <1>9 DEF ParseTime, fp, wp
<1>10. ASSUME ~wp.ok, unit # 1, wp.value = Word - 1
       PROVE  ParseTime(text, unit) =
                LET t == Time(ToInt(up.value), mid * R + F)
                    n == IF neg THEN Negate(t) ELSE t
                IN  IF up.ok /\ neg = (n.sec < 0) THEN {n} ELSE {}
  <2> HIDE DEF text, fp, R, F
  <2> QED
    BY <1>1, <1>2, <1>6, <1>10 DEF ParseTime, fp
<1> HIDE DEF text, M, V, L, R, F, X, Y, nsec, fp, wp, cut, up, mid
<1>11. CASE V < Word
  <2>1. wp.ok /\ wp.value = V
    BY <1>7, <1>11
  <2>2. ParseTime(text, unit) = Turned(neg, X, nsec)
    BY <1>9, <2>1 DEF Turned, X, Y, nsec
  <2>3. X \in 0 .. Word - 1
    BY <1>2, <1>4, <1>8, <1>11 DEF X
  <2>4. Turned(neg, X, nsec) = IF Fits(Signed(neg, X, nsec), neg) THEN {Signed(neg, X, nsec)} ELSE {}
    BY <1>4, <2>3, TurnedIs
  <2>5. L <= UintWidth
    BY <1>11, LengthIs DEF L, V
  <2> QED
    BY <1>5, <1>8, <2>2, <2>4, <2>5 DEF M, text, L
<1>12. CASE V >= Word /\ unit = 1
  <2>1. ~wp.ok
    BY <1>4, <1>7, <1>8, <1>12
  <2>2. ParseTime(text, unit) = {}
    BY <1>9, <1>12, <2>1
  <2>3. X >= Word
    BY <1>4, <1>12 DEF X
  <2>4. ~Fits(M, neg)
    BY <1>5, <1>8, <2>3, TooLarge
  <2> QED
    BY <2>2, <2>4 DEF M, text
<1>13. CASE V >= Word /\ unit # 1
  <2>1. ~wp.ok /\ wp.value = Word - 1
    BY <1>4, <1>7, <1>8, <1>13
  <2>2. L > 2 * s
    BY <1>2, <1>13, LengthIs DEF L, V
  <2>3. cut \in Nat \ {0} /\ l <= L /\ cut + l = L
    BY <1>2, <1>8, <2>2 DEF cut
  <2>4. Numeral(SubSeq(whole, 1, cut)) /\ Len(SubSeq(whole, 1, cut)) = cut
    <3>1. whole \in Seq(0 .. 9) /\ whole[1] # 0 /\ cut <= Len(whole)
      <4>1. L # 1 /\ cut <= L
        BY <1>8, <2>2, <2>3
      <4> QED
        BY <4>1 DEF Numeral, L
    <3>2. SubSeq(whole, 1, cut) \in Seq(0 .. 9) /\ Len(SubSeq(whole, 1, cut)) = cut
      BY <2>3, <3>1
    <3>3. SubSeq(whole, 1, cut)[1] = whole[1]
      BY <2>3, <3>1
    <3>4. SubSeq(whole, 1, cut) # <<>>
      BY <2>3, <3>2
    <3> QED
      BY <3>1, <3>2, <3>3, <3>4 DEF Numeral
  <2>5. Value(SubSeq(whole, 1, cut)) = X /\ mid = Y
    BY <1>4, <2>3, <2>4 DEF Value
  <2>6. up = IF X < Word THEN [value |-> X, ok |-> TRUE] ELSE [value |-> Word - 1, ok |-> FALSE]
    BY <2>4, <2>5, ParseUintExact DEF up, Value
  <2>7. CASE X < Word
    <3>1. up.ok /\ up.value = X
      BY <2>6, <2>7
    <3>2. ParseTime(text, unit) = Turned(neg, X, nsec)
      BY <1>10, <1>13, <2>1, <2>5, <3>1 DEF Turned, nsec
    <3>3. X \in 0 .. Word - 1
      BY <1>8, <2>7
    <3>4. Turned(neg, X, nsec) = IF Fits(Signed(neg, X, nsec), neg) THEN {Signed(neg, X, nsec)} ELSE {}
      BY <1>4, <3>3, TurnedIs
    <3>5. cut <= UintWidth
      BY <2>4, <2>5, <2>7, LengthIs
    <3>6. L <= UintWidth + l
      BY <1>8, <2>3, <3>5
    <3> QED
      BY <1>5, <3>2, <3>4, <3>6 DEF M, text, L
  <2>8. CASE X >= Word
    <3>1. ~up.ok
      BY <1>8, <2>6, <2>8
    <3>2. ParseTime(text, unit) = {}
      BY <1>10, <1>13, <2>1, <3>1
    <3>3. ~Fits(M, neg)
      BY <1>5, <1>8, <2>8, TooLarge
    <3> QED
      BY <3>2, <3>3 DEF M, text
  <2> QED
    BY <1>8, <2>7, <2>8
<1>14. V < Word \/ V >= Word
  BY <1>4, <1>8
<1> QED
  BY <1>11, <1>12, <1>13, <1>14

\* Texts as the decoder gets them.
Texts == {text \in [neg : BOOLEAN, whole : Seq(0 .. Other), dot : BOOLEAN, frac : Seq(0 .. Other)] :
            ~text.dot => text.frac = <<>>}

\* Without another character there are only digits.
LEMMA OnlyDigits ==
  ASSUME NEW b \in Seq(0 .. Other), \A i \in DOMAIN b : b[i] # Other
  PROVE  b \in Seq(0 .. 9)
<1>1. Len(b) \in Nat /\ DOMAIN b = 1 .. Len(b) /\ \A i \in 1 .. Len(b) : b[i] \in 0 .. 9
  BY DEF Other
<1>2. b = [i \in 1 .. Len(b) |-> b[i]]
  OBVIOUS
<1>3. [i \in 1 .. Len(b) |-> b[i]] \in Seq(0 .. 9)
  BY <1>1
<1> QED
  BY <1>2, <1>3

\* What is no number is an error.
LEMMA NoNumber ==
  ASSUME NEW text \in Texts, NEW unit, ~IsNumber(text)
  PROVE  ParseTime(text, unit) = {}
<1> DEFINE wp == ParseUint(text.whole)
           fp == ParseFrac(text, Second \div unit)
<1>1. Word \in Nat /\ Word > 1
  BY SizesAssumption
<1>2. /\ text.whole \in Seq(0 .. Other) /\ text.frac \in Seq(0 .. Other) /\ text.dot \in BOOLEAN
      /\ ~text.dot => text.frac = <<>>
  BY DEF Texts
<1>3. CASE ~(/\ text.whole # <<>> /\ (text.whole[1] = 0 => Len(text.whole) = 1)
             /\ \A i \in DOMAIN text.whole : text.whole[i] # Other)
  <2>1. text.whole = <<>> \/ (\E i \in DOMAIN text.whole : text.whole[i] = Other)
        \/ (text.whole[1] = 0 /\ text.whole # <<0>>)
    BY <1>2, <1>3
  <2>2. wp = [value |-> 0, ok |-> FALSE]
    BY <2>1 DEF ParseUint
  <2>3. ~wp.ok /\ wp.value = 0 /\ wp.value # Word - 1
    BY <1>1, <2>2
  <2> HIDE DEF wp
  <2> QED
    BY <2>3 DEF ParseTime, wp
<1>4. CASE ~(/\ text.dot => text.frac # <<>>
             /\ \A i \in DOMAIN text.frac : text.frac[i] # Other)
  <2>1. text.dot
    BY <1>2, <1>4
  <2>2. ~fp.ok
    BY <1>4, <2>1 DEF ParseFrac
  <2> HIDE DEF fp
  <2> QED
    BY <2>2 DEF ParseTime, fp
<1> QED
  BY <1>3, <1>4 DEF IsNumber

\* A text is read as what it means, or is an error: when it is no number, is no instant that
\* fits, or is a negative zero. The three ways parseTimeUnix takes, by what would overflow, make
\* no difference, for every width of a word, precision and unit (json_timeunix.go, lines 43-74).
THEOREM ParseTimeExact ==
  ASSUME NEW text \in Texts, NEW unit \in Units
  PROVE  LET fits == /\ IsNumber(text)
                     /\ Len(text.whole) <= UintWidth + Log10(unit)
                     /\ Meaning(text, unit) \in Times
                     /\ text.neg => Meaning(text, unit).sec < 0
         IN  ParseTime(text, unit) = IF fits THEN {Meaning(text, unit)} ELSE {}
<1>1. CASE ~IsNumber(text)
  BY <1>1, NoNumber
<1>2. CASE IsNumber(text)
  <2>1. PICK s \in 1 .. 9, l \in 0 .. 9 : UnitIs(unit, s, l)
    BY UnitsAre
  <2> DEFINE neg == text.neg
             whole == text.whole
             dot == text.dot
             frac == text.frac
  <2>2. neg \in BOOLEAN /\ dot \in BOOLEAN /\ (~dot => frac = <<>>) /\ text = Text(neg, whole, dot, frac)
    BY DEF Texts, Text
  <2>3. whole \in Seq(0 .. Other) /\ frac \in Seq(0 .. Other)
    BY DEF Texts
  <2>4. Numeral(whole)
    BY <1>2, <2>3, OnlyDigits DEF IsNumber, Numeral
  <2>5. DigitText(frac) /\ (dot => frac # <<>>)
    BY <1>2, <2>3, OnlyDigits DEF IsNumber, DigitText
  <2> HIDE DEF neg, whole, dot, frac
  <2> DEFINE M == Meaning(Text(neg, whole, dot, frac), unit)
  <2>6. /\ ParseTime(Text(neg, whole, dot, frac), unit) = IF Fits(M, neg) THEN {M} ELSE {}
        /\ Fits(M, neg) => Len(whole) <= UintWidth + l
    <3> HIDE DEF M
    <3>1. dot <=> frac # <<>>
      BY <2>2, <2>5
    <3> QED
      BY <2>1, <2>2, <2>4, <2>5, <3>1, ParseNumber DEF M
  <2>7. Log10(unit) = l
    BY <2>1 DEF UnitIs
  <2> HIDE DEF M
  <2>8. text.neg = neg /\ text.whole = whole /\ Meaning(text, unit) = M
    BY <2>2 DEF neg, whole, M
  <2> QED
    BY <1>2, <2>2, <2>6, <2>7, <2>8 DEF Fits
<1> QED
  BY <1>1, <1>2

---------------------------------------------------------------------------
\* Writing.

\* The greatest of a set of numbers with a bound.
LEMMA MaxIs ==
  ASSUME NEW n \in Nat, NEW T \in SUBSET (0 .. n), T # {}
  PROVE  Max(T) \in T /\ \A y \in T : Max(T) >= y
<1> DEFINE R == {x \in 0 .. n : n - x \in T}
<1>1. R \subseteq Nat /\ R # {}
  <2>1. PICK y \in T : TRUE
    OBVIOUS
  <2>2. n - y \in 0 .. n /\ n - (n - y) = y
    OBVIOUS
  <2>3. n - y \in R
    BY <2>2
  <2>4. \A x \in 0 .. n : x \in Nat
    OBVIOUS
  <2> QED
    BY <2>3, <2>4
<1>2. PICK x \in R : \A y \in R : x <= y
  BY <1>1, Least
<1>3. \A y \in T : n - x >= y
  <2> TAKE y \in T
  <2>1. n - y \in 0 .. n /\ n - (n - y) = y
    OBVIOUS
  <2>2. x <= n - y
    BY <1>2, <2>1
  <2> QED
    BY <2>2
<1>4. \E z \in T : \A y \in T : z >= y
  BY <1>2, <1>3
<1> QED
  BY <1>4 DEF Max

\* The digits of a number that fits a word are a number, and have its value.
LEMMA DigitsNumeral ==
  ASSUME NEW n \in 0 .. Word - 1
  PROVE  /\ Numeral(Digits(n)) /\ Value(Digits(n)) = n
         /\ n # 0 => Digits(n)[1] # 0
         /\ \A m \in 1 .. 20 : n < Pow10[m] /\ (m = 1 \/ Pow10[m - 1] <= n) =>
              /\ Len(Digits(n)) = m
              /\ \A i \in 1 .. m : DigitAt(Digits(n), i) = (n \div Pow10[m - i]) % 10
<1> DEFINE b == Digits(n)
<1>1. PICK w \in 1 .. 20 :
        /\ n < Pow10[w] /\ (w = 1 \/ Pow10[w - 1] <= n)
        /\ b = [i \in 1 .. w |-> (n \div Pow10[w - i]) % 10]
  BY DigitsAre
<1> HIDE DEF b
<1>2. n \in Nat /\ \A k \in Nat : Pow10[k] \in Nat \ {0}
  BY Pow10Steps, SizesAssumption
<1>3. \A i \in 1 .. w : w - i \in Nat /\ (n \div Pow10[w - i]) % 10 \in 0 .. 9
  BY <1>2
<1>4. DigitText(b) /\ Len(b) = w /\ DOMAIN b = 1 .. w
  BY <1>1, <1>3 DEF DigitText
<1>5. \A i \in 1 .. w : b[i] = (n \div Pow10[w - i]) % 10 /\ DigitAt(b, i) = b[i]
  BY <1>1, <1>4 DEF DigitAt
<1>6. Decimal(b)
  BY <1>4, SeqDecimal DEF DigitText
<1>7. Value(b) = n
  <2>1. \A i \in 0 .. w : Padded(b, i) = n \div Pow10[w - i]
    <3>1. w \in Nat /\ n \in 0 .. Pow10[w] - 1
      BY <1>1, <1>2
    <3>2. \A i \in 1 .. w : DigitAt(b, i) = (n \div Pow10[w - i]) % 10
      BY <1>5
    <3> QED
      BY <1>6, <3>1, <3>2, WrittenValue
  <2>2. Padded(b, w) = n \div Pow10[0]
    BY <2>1
  <2>3. Pow10[0] = 1 /\ n \div 1 = n
    BY <1>2, Pow10Steps
  <2> QED
    BY <1>4, <2>2, <2>3 DEF Value
<1>8. b[1] = 0 => w = 1 /\ n = 0
  <2> SUFFICES ASSUME b[1] = 0 PROVE w = 1 /\ n = 0
    OBVIOUS
  <2> DEFINE m == w - 1
             p == Pow10[m]
             q == n \div p
  <2>1. m \in Nat /\ p \in Nat \ {0} /\ n < 10 * p /\ (m = 0 \/ p <= n)
    <3>1. m \in Nat /\ m + 1 = w
      OBVIOUS
    <3>2. Pow10[m + 1] = 10 * Pow10[m]
      BY <3>1, Pow10Steps
    <3> QED
      BY <1>1, <1>2, <3>1, <3>2
  <2>2. q % 10 = 0
    BY <1>5
  <2> HIDE DEF m, p
  <2>3. q \in 0 .. 9
    <3>1. q \in Nat /\ n % p \in 0 .. p - 1 /\ n = p * q + (n % p)
      BY <1>2, <2>1
    <3> HIDE DEF q
    <3>2. q >= 10 => 10 * p <= q * p
      BY <2>1, <3>1, Times1
    <3>3. q * p = p * q /\ p * q \in Nat
      BY <2>1, <3>1
    <3> DEFINE z == p * q
    <3>4. z \in Nat /\ n = z + (n % p) /\ (q >= 10 => 10 * p <= z)
      BY <3>1, <3>2, <3>3
    <3> HIDE DEF z
    <3> QED
      BY <1>2, <2>1, <3>1, <3>4
  <2>4. q = 0
    BY <2>2, <2>3
  <2>5. n < p
    BY <1>2, <2>1, <2>4
  <2>6. m = 0
    BY <1>2, <2>1, <2>5
  <2> QED
    BY <1>2, <2>5, <2>6, Pow10Steps DEF m, p
<1>9. Numeral(b)
  <2>1. b # <<>>
    BY <1>4
  <2> QED
    BY <1>4, <1>8, <2>1 DEF Numeral, DigitText
<1>10. ASSUME NEW m \in 1 .. 20, n < Pow10[m], m = 1 \/ Pow10[m - 1] <= n
       PROVE  m = w
  <2>1. ASSUME NEW i \in 1 .. 20, NEW j \in 1 .. 20, i < j, n < Pow10[i], j = 1 \/ Pow10[j - 1] <= n
        PROVE  FALSE
    <3> DEFINE k == j - 1
    <3>1. k \in Nat /\ i <= k /\ i \in Nat /\ Pow10[k] <= n
      BY <2>1
    <3> HIDE DEF k
    <3>2. Pow10[i] <= Pow10[k]
      BY <3>1, Pow10Grows
    <3> QED
      BY <1>2, <2>1, <3>1, <3>2
  <2>2. ~(m < w) /\ ~(w < m)
    BY <1>1, <1>10, <2>1
  <2> QED
    BY <2>2
<1> QED
  BY <1>4, <1>5, <1>7, <1>8, <1>9, <1>10 DEF b

\* As many digits as the precision has, zeros in front.
LEMMA AppendPaddedIs ==
  ASSUME NEW m \in 1 .. 9, Pow10[m] <= Second, NEW n \in 0 .. Pow10[m] - 1
  PROVE  LET c == AppendPadded(n, Pow10[m])
         IN  /\ DigitText(c) /\ Len(c) = m
             /\ \A i \in 0 .. m : Padded(c, i) = n \div Pow10[m - i]
<1> DEFINE c == AppendPadded(n, Pow10[m])
           k == m - 1
           p == Pow10[k]
<1>1. k \in Nat /\ k + 1 = m /\ p \in Nat \ {0} /\ Pow10[m] = 10 * p /\ n \in 0 .. 10 * p - 1
  <2>1. k \in Nat /\ k + 1 = m
    OBVIOUS
  <2> HIDE DEF k
  <2> QED
    BY <2>1, Pow10Steps
<1>2. Pow10[m] < Word /\ Word \in Nat
  BY <1>1, SecondFits, SizesAssumption
<1>3. Pow10[m] \div 10 = p
  <2> HIDE DEF p
  <2> QED
    BY <1>1
<1> HIDE DEF p
<1>4. /\ DigitText(c) /\ Len(c) = m
      /\ \A i \in 1 .. m : DigitAt(c, i) = (n \div Pow10[m - i]) % 10
  <2>1. CASE n < p
    <3> DEFINE b == Digits(n + p)
    <3>0. m \in 1 .. 20
      OBVIOUS
    <3>1. n + p \in 0 .. Word - 1 /\ n + p < Pow10[m] /\ p <= n + p
      BY <1>1, <1>2, <2>1
    <3>2. /\ Numeral(b) /\ Len(b) = m /\ n + p # 0 /\ b[1] # 0
          /\ \A i \in 1 .. m : DigitAt(b, i) = ((n + p) \div Pow10[m - i]) % 10
      <4>1. \A x \in 0 .. Word - 1 : x < Pow10[m] /\ Pow10[m - 1] <= x =>
              /\ Numeral(Digits(x)) /\ Len(Digits(x)) = m /\ (x # 0 => Digits(x)[1] # 0)
              /\ \A i \in 1 .. m : DigitAt(Digits(x), i) = (x \div Pow10[m - i]) % 10
        BY <3>0, DigitsNumeral
      <4>2. n + p # 0 /\ Pow10[m - 1] = p
        BY <1>1 DEF p
      <4> QED
        BY <3>1, <4>1, <4>2
    <3>3. c = [b EXCEPT ![1] = @ - 1]
      BY <1>3, <2>1 DEF AppendPadded
    <3> HIDE DEF b, c
    <3>4. DOMAIN b = 1 .. m /\ (\A i \in 1 .. m : DigitAt(b, i) = b[i] /\ b[i] \in 0 .. 9)
      BY <3>2, SeqDecimal DEF Numeral
    <3>5. 1 \in 1 .. m /\ b[1] \in 1 .. 9
      BY <3>2, <3>4
    <3>6. b = [i \in 1 .. m |-> b[i]]
      BY <3>2, <3>4 DEF Numeral
    <3>7. c = [i \in 1 .. m |-> IF i = 1 THEN b[1] - 1 ELSE b[i]]
      BY <3>3, <3>5, <3>6
    <3>8. \A i \in 1 .. m : (IF i = 1 THEN b[1] - 1 ELSE b[i]) \in 0 .. 9
      BY <3>4, <3>5
    <3>9. DigitText(c) /\ Len(c) = m /\ DOMAIN c = 1 .. m
      BY <3>7, <3>8 DEF DigitText
    <3>10. \A i \in 1 .. m : DigitAt(c, i) = IF i = 1 THEN b[1] - 1 ELSE b[i]
      BY <3>7, <3>9 DEF DigitAt
    <3>11. ASSUME NEW i \in 1 .. m
           PROVE  DigitAt(c, i) = (n \div Pow10[m - i]) % 10
      <4> DEFINE q == Pow10[m - i]
                 r == Pow10[i - 1]
      <4>1. b[i] = ((n + p) \div q) % 10
        BY <3>2, <3>4
      <4>2. q \in Nat \ {0} /\ r \in Nat \ {0} /\ p = r * q
        <5>1. m - i \in Nat /\ i - 1 \in Nat /\ (i - 1) + (m - i) = k
          BY <1>1
        <5>2. Pow10[(i - 1) + (m - i)] = Pow10[i - 1] * Pow10[m - i]
          BY <5>1, Pow10Add
        <5>3. Pow10[m - i] \in Nat \ {0} /\ Pow10[i - 1] \in Nat \ {0}
          BY <5>1, Pow10Steps
        <5> QED
          BY <5>1, <5>2, <5>3 DEF p
      <4>3. i # 1 => \E e \in Nat : r = 10 * e
        <5>1. i # 1 => i - 2 \in Nat /\ (i - 2) + 1 = i - 1
          OBVIOUS
        <5>2. i # 1 => Pow10[(i - 2) + 1] = 10 * Pow10[i - 2] /\ Pow10[i - 2] \in Nat
          BY <5>1, Pow10Steps
        <5> QED
          BY <5>1, <5>2
      <4>4. i = 1 => r = 1
        BY Pow10Steps
      <4>5. (n + p) \div q = r + n \div q
        <5> HIDE DEF q, r
        <5> DEFINE x == n \div q
                   y == n % q
        <5>1. x \in Nat /\ y \in 0 .. q - 1 /\ n = q * x + y
          BY <1>1, <4>2
        <5> HIDE DEF x, y
        <5>2. n + p = (r + x) * q + y
          <6>1. (r + x) * q = r * q + q * x
            BY <4>2, <5>1
          <6>2. r * q \in Nat /\ q * x \in Nat
            BY <4>2, <5>1
          <6> QED
            BY <4>2, <5>1, <6>1, <6>2
        <5>3. r + x \in Int
          BY <4>2, <5>1
        <5> QED
          BY <4>2, <5>1, <5>2, <5>3, QuotientRest DEF x
      <4> DEFINE x == n \div q
      <4>6. x \in Nat
        <5> HIDE DEF q
        <5> QED
          BY <1>1, <4>2
      <4>7. i = 1 => q = p /\ x = 0
        <5>1. i = 1 => q = p
          BY DEF p
        <5> HIDE DEF q
        <5>2. n \div p = 0
          BY <1>1, <2>1
        <5> QED
          BY <5>1, <5>2
      <4> HIDE DEF q, r, x
      <4>8. CASE i = 1
        <5>1. b[1] = (1 + 0) % 10
          BY <4>1, <4>4, <4>5, <4>7, <4>8 DEF x
        <5>2. DigitAt(c, i) = 0
          BY <3>10, <4>8, <5>1
        <5> QED
          BY <4>7, <4>8, <5>2 DEF x, q
      <4>9. CASE i # 1
        <5>1. PICK e \in Nat : r = 10 * e
          BY <4>3, <4>9
        <5>2. (10 * e + x) % 10 = x % 10
          BY <4>6
        <5> QED
          BY <3>10, <4>1, <4>5, <4>9, <5>1, <5>2 DEF x, q
      <4> QED
        BY <4>8, <4>9
    <3> QED
      BY <3>9, <3>11
  <2>2. CASE ~(n < p)
    <3>1. c = Digits(n)
      BY <1>3, <2>2 DEF AppendPadded
    <3>2. n \in 0 .. Word - 1 /\ n < Pow10[m] /\ p <= n
      BY <1>1, <1>2, <2>2
    <3>3. /\ Numeral(Digits(n)) /\ Len(Digits(n)) = m
          /\ \A i \in 1 .. m : DigitAt(Digits(n), i) = (n \div Pow10[m - i]) % 10
      <4>1. m \in 1 .. 20 /\ Pow10[m - 1] = p
        BY DEF p
      <4> QED
        BY <3>2, <4>1, DigitsNumeral
    <3> QED
      BY <3>1, <3>3 DEF Numeral, DigitText
  <2> QED
    BY <2>1, <2>2
<1> HIDE DEF c
<1>5. Decimal(c)
  BY <1>4, SeqDecimal DEF DigitText
<1>6. \A i \in 0 .. m : Padded(c, i) = n \div Pow10[m - i]
  BY <1>4, <1>5, WrittenValue
<1> QED
  BY <1>4, <1>6 DEF c

\* Zeros dropped from the end do not count.
LEMMA TrimIs ==
  ASSUME NEW b, DigitText(b)
  PROVE  DigitText(TrimZeros(b)) /\ \A n \in Nat : Padded(TrimZeros(b), n) = Padded(b, n)
<1> DEFINE T == {0} \cup {i \in DOMAIN b : b[i] # 0}
           k == Max(T)
           c == SubSeq(b, 1, k)
           L == Len(b)
<1>1. /\ Numeric(b) /\ L \in Nat /\ DOMAIN b = 1 .. L
      /\ \A i \in 1 .. L : DigitAt(b, i) = b[i]
      /\ \A i \in Nat : i > L => DigitAt(b, i) = 0
  BY SeqDecimal DEF DigitText
<1>2. T \in SUBSET (0 .. L) /\ T # {}
  <2> HIDE DEF L
  <2> QED
    BY <1>1
<1>3. k \in T /\ \A y \in T : k >= y
  <2> HIDE DEF T, L
  <2> QED
    BY <1>1, <1>2, MaxIs
<1> HIDE DEF k
<1>4. k \in Nat /\ k <= L /\ \A i \in 1 .. L : i > k => b[i] = 0
  <2>1. k \in 0 .. L
    BY <1>2, <1>3
  <2>2. \A i \in 1 .. L : b[i] # 0 => k >= i
    BY <1>1, <1>3
  <2> HIDE DEF T, L
  <2> QED
    BY <1>1, <2>1, <2>2
<1>5. /\ c \in Seq(0 .. 9) /\ Len(c) = k
      /\ \A j \in 1 .. k : DigitAt(c, j) = DigitAt(b, j)
  <2>1. \A i \in Nat : i = 0 => i + 1 = 1 /\ i + k = k /\ i + k <= Len(b)
    BY <1>4
  <2>2. \A i \in Nat : i + k <= Len(b) =>
          /\ SubSeq(b, i + 1, i + k) \in Seq(0 .. 9) /\ Len(SubSeq(b, i + 1, i + k)) = k
          /\ \A j \in 1 .. k : DigitAt(SubSeq(b, i + 1, i + k), j) = DigitAt(b, i + j)
    BY <1>4, SomeDigits DEF DigitText
  <2>3. \A j \in 1 .. k : 0 + j = j
    OBVIOUS
  <2> HIDE DEF T, L
  <2> QED
    BY <2>1, <2>2, <2>3
<1> HIDE DEF T, L, c
<1>6. Numeric(c) /\ \A i \in Nat : i > k => DigitAt(c, i) = 0
  BY <1>5, SeqDecimal
<1>7. ASSUME NEW j \in Nat \ {0}
      PROVE  DigitAt(c, j) = DigitAt(b, j)
  <2>1. CASE j <= k
    BY <1>4, <1>5, <2>1
  <2>2. CASE j > k
    <3>1. DigitAt(c, j) = 0
      BY <1>6, <2>2
    <3>2. j <= L => DigitAt(b, j) = 0
      BY <1>1, <1>4, <2>2
    <3>3. j > L => DigitAt(b, j) = 0
      BY <1>1
    <3> QED
      BY <1>1, <3>1, <3>2, <3>3
  <2> QED
    BY <1>4, <2>1, <2>2
<1>8. ASSUME NEW n \in Nat
      PROVE  Padded(c, n) = Padded(b, n)
  <2>1. \A j \in 1 .. n : DigitAt(c, j) = DigitAt(b, j)
    BY <1>7
  <2> QED
    BY <1>1, <1>6, <2>1, SameDigits
<1>9. TrimZeros(b) = c
  BY DEF TrimZeros, c, k, T
<1> QED
  BY <1>5, <1>8, <1>9 DEF DigitText

\* What follows the point.
LEMMA AppendFracIs ==
  ASSUME NEW s \in 1 .. 9, Second = Pow10[s], NEW n \in 0 .. Second - 1
  PROVE  LET f == AppendFrac(n, Second)
         IN  DigitText(f) /\ \A i \in 0 .. s : Padded(f, i) = n \div Pow10[s - i]
<1> DEFINE f == AppendFrac(n, Second)
<1>1. n \in 0 .. Pow10[s] - 1 /\ Pow10[s] <= Second /\ Second \in Nat
  BY SizesAssumption
<1>2. CASE n = 0
  <2>1. f = <<>>
    BY <1>2 DEF AppendFrac
  <2>2. \A i \in Nat : DigitAt(<<>>, i) = 0
    BY DEF DigitAt
  <2>3. Numeric(<<>>) /\ DigitText(<<>>)
    BY <2>2 DEF Numeric, DigitText
  <2>4. \A i \in 0 .. s : Padded(<<>>, i) = 0
    BY <2>2, <2>3, NoDigits
  <2>5. \A p \in Nat \ {0} : 0 \div p = 0
    OBVIOUS
  <2>6. \A i \in 0 .. s : Pow10[s - i] \in Nat \ {0}
    <3>1. \A i \in 0 .. s : s - i \in Nat
      OBVIOUS
    <3> QED
      BY <3>1, Pow10Steps
  <2> QED
    BY <1>2, <2>1, <2>3, <2>4, <2>5, <2>6
<1>3. CASE n # 0
  <2> DEFINE c == AppendPadded(n, Pow10[s])
  <2>1. f = TrimZeros(c)
    BY <1>3 DEF AppendFrac
  <2>2. DigitText(c) /\ \A i \in 0 .. s : Padded(c, i) = n \div Pow10[s - i]
    BY <1>1, AppendPaddedIs
  <2> HIDE DEF c, f
  <2>3. DigitText(f) /\ \A i \in Nat : Padded(f, i) = Padded(c, i)
    BY <2>1, <2>2, TrimIs
  <2>4. \A i \in 0 .. s : i \in Nat
    OBVIOUS
  <2> QED
    BY <2>2, <2>3, <2>4 DEF f
<1> QED
  BY <1>2, <1>3

\* The size of a time, as two words, and its sign.
LEMMA SizeIs ==
  ASSUME NEW t \in Times
  PROVE  LET a == IF t.sec < 0 THEN Negate(t) ELSE t
         IN  /\ ToUint(a.sec) \in 0 .. Word - 1 /\ a.nsec \in 0 .. Second - 1
             /\ t = Signed(t.sec < 0, ToUint(a.sec), a.nsec)
<1> DEFINE H == Word \div 2
           W == Word
           S == Second
           a == IF t.sec < 0 THEN Negate(t) ELSE t
<1>1. W \in Nat /\ W > 0 /\ W = 2 * H /\ H \in Nat /\ S \in Nat /\ S > 1
  BY SizesAssumption
<1>2. t.sec \in -H .. H - 1 /\ t.nsec \in 0 .. S - 1 /\ t = Time(t.sec, t.nsec)
  BY DEF Times, Time
<1>3. \A i \in -W .. W - 1 : ToUint(i) = IF i < 0 THEN i + W ELSE i
  <2> HIDE DEF W, H, S
  <2>1. \A i \in -W .. W - 1 : i % W = IF i < 0 THEN i + W ELSE i
    <3> TAKE i \in -W .. W - 1
    <3>1. CASE i < 0
      BY <1>1, <3>1
    <3>2. CASE i >= 0
      BY <1>1, <3>2
    <3> QED
      BY <3>1, <3>2
  <2> QED
    BY <2>1 DEF ToUint, W
<1>4. \A i \in -W .. W - 1 : ToInt(ToUint(i)) =
        IF i < -H THEN i + W ELSE IF i < H THEN i ELSE i - W
  BY ToIntToUint
<1>5. /\ (S - t.nsec) \div S = IF t.nsec = 0 THEN 1 ELSE 0
      /\ (S - t.nsec) % S = IF t.nsec = 0 THEN 0 ELSE S - t.nsec
  BY <1>2, Rest
<1>6. CASE ~(t.sec < 0)
  <2>1. a = t
    BY <1>6
  <2> HIDE DEF H, W, S, a
  <2>2. ToUint(t.sec) = t.sec /\ t.sec \in 0 .. W - 1
    BY <1>1, <1>2, <1>3, <1>6
  <2> QED
    BY <1>2, <1>6, <2>1, <2>2 DEF Signed, W, S, a
<1>7. CASE t.sec < 0
  <2> DEFINE c == -t.sec - 1 + (S - t.nsec) \div S
             z == ToInt(ToUint(c))
             r == (S - t.nsec) % S
  <2>1. a = Time(z, r) /\ a.sec = z /\ a.nsec = r
    BY <1>7 DEF Negate, Time
  <2> HIDE DEF a
  <2>2. c = IF t.nsec = 0 THEN -t.sec ELSE -t.sec - 1
    <3> DEFINE d == (S - t.nsec) \div S
    <3>1. d = (IF t.nsec = 0 THEN 1 ELSE 0) /\ c = -t.sec - 1 + d
      BY <1>5
    <3> HIDE DEF H, W, S, d, c
    <3>2. t.sec \in Int
      BY <1>1, <1>2
    <3> QED
      BY <3>1, <3>2
  <2> HIDE DEF H, W, S, c
  <2>3. c \in 0 .. H
    BY <1>1, <1>2, <1>7, <2>2
  <2>4. z = IF c < H THEN c ELSE c - W
    <3>1. c \in -W .. W - 1 /\ ~(c < -H)
      BY <1>1, <2>3
    <3> QED
      BY <1>4, <3>1
  <2> HIDE DEF z, r
  <2>5. ToUint(z) = c
    <3>1. z \in -W .. W - 1 /\ (c < H => ~(z < 0)) /\ (~(c < H) => z < 0 /\ z + W = c)
      BY <1>1, <2>3, <2>4
    <3> QED
      BY <1>3, <2>4, <3>1
  <2>6. r \in 0 .. S - 1
    BY <1>1, <1>2, <1>5 DEF r
  <2>7. t = Signed(TRUE, c, r)
    <3>1. CASE t.nsec = 0
      <4>1. r = 0 /\ -c = t.sec
        BY <1>2, <1>5, <2>2, <3>1 DEF r
      <4> QED
        BY <1>2, <3>1, <4>1 DEF Signed
    <3>2. CASE t.nsec # 0
      <4>1. r = S - t.nsec /\ r # 0 /\ S - r = t.nsec /\ -c - 1 = t.sec
        BY <1>1, <1>2, <1>5, <2>2, <3>2 DEF r
      <4> QED
        BY <1>2, <4>1 DEF Signed, S
    <3> QED
      BY <3>1, <3>2
  <2>8. c \in 0 .. W - 1
    BY <1>1, <2>3
  <2>9. (t.sec < 0) = TRUE
    BY <1>7
  <2> QED
    BY <2>1, <2>5, <2>6, <2>7, <2>8, <2>9 DEF a, W, S
<1> QED
  BY <1>6, <1>7

WrittenAs(t, unit, whole, frac) ==
  /\ Numeral(whole) /\ DigitText(frac)
  /\ AppendTime(t, unit) = Text(t.sec < 0, whole, frac # <<>>, frac)
  /\ Meaning(AppendTime(t, unit), unit) = t

\* A number of units and what is left of one, as the meaning of a text has them.
LEMMA SplitUnits ==
  ASSUME NEW u \in Nat \ {0}, NEW R \in Nat \ {0}, NEW n \in 0 .. u * R - 1
  PROVE  /\ n \div R \in 0 .. u - 1 /\ n % R \in 0 .. R - 1
         /\ n = (n \div R) * R + (n % R)
         /\ (n * u) % (u * R) = (n % R) * u
<1> DEFINE q == n \div R
           r == n % R
           P == u * R
<1>1. q \in Nat /\ r \in 0 .. R - 1 /\ n = R * q + r
  OBVIOUS
<1>2. P \in Nat \ {0} /\ n < P /\ n \in Nat
  OBVIOUS
<1> HIDE DEF q, r
<1>3. R * q = q * R /\ q * R \in Nat
  BY <1>1
<1>4. q < u
  <2> SUFFICES ASSUME u <= q PROVE FALSE
    BY <1>1
  <2>1. u * R <= q * R
    BY <1>1, Times1
  <2> DEFINE z == q * R
  <2>2. z \in Nat /\ P <= z /\ n = z + r
    BY <1>1, <1>3, <2>1
  <2> HIDE DEF z, P
  <2> QED
    BY <1>1, <1>2, <2>2
<1>5. (n * u) % P = r * u
  <2>1. n * u = q * P + r * u
    <3>1. (R * q + r) * u = q * (u * R) + r * u
      BY <1>1
    <3> QED
      BY <1>1, <3>1
  <2>2. r * u \in 0 .. P - 1
    <3> DEFINE m == R - 1
    <3>1. r <= m /\ m \in Nat /\ m + 1 = R
      BY <1>1
    <3>2. r * u <= m * u
      BY <1>1, <3>1, Times1
    <3> HIDE DEF m
    <3>3. P = m * u + u
      <4>1. u * (m + 1) = m * u + u
        BY <3>1
      <4> QED
        BY <3>1, <4>1
    <3>4. r * u \in Nat /\ m * u \in Nat
      BY <1>1, <3>1
    <3> HIDE DEF P
    <3> QED
      BY <3>2, <3>3, <3>4
  <2> HIDE DEF P
  <2> DEFINE x == n * u
             y == r * u
  <2>3. x = q * P + y /\ y \in 0 .. P - 1 /\ q \in Int
    BY <1>1, <2>1, <2>2
  <2> HIDE DEF x, y
  <2>4. x % P = y
    BY <1>2, <2>3, QuotientRest, Zenon
  <2> QED
    BY <2>4 DEF x, y
<1> QED
  BY <1>1, <1>3, <1>4, <1>5 DEF q, r

\* A time is written as a number that means it.
LEMMA Written ==
  ASSUME NEW t \in Times, NEW unit, NEW s \in 1 .. 9, NEW l \in 0 .. 9, UnitIs(unit, s, l)
  PROVE  \E whole, frac : WrittenAs(t, unit, whole, frac)
<1> DEFINE a == IF t.sec < 0 THEN Negate(t) ELSE t
           sec == ToUint(a.sec)
           n == a.nsec
           R == Pow10[s - l]
           q == n \div R
           r == n % R
           frac == IF unit = 1 THEN AppendFrac(n, Second) ELSE AppendFrac((n * unit) % Second, Second)
           whole == IF unit = 1 THEN Digits(sec)
                    ELSE IF sec < Second THEN Digits(sec * unit + n \div (Second \div unit))
                    ELSE Digits(sec) \o AppendPadded(n \div (Second \div unit), unit)
<1>1. /\ l <= s /\ Second = Pow10[s] /\ unit = Pow10[l] /\ Second \div unit = R
      /\ Second = unit * R /\ unit \in Nat \ {0} /\ R \in Nat \ {0} /\ Second \in Nat \ {0}
      /\ unit = 1 <=> l = 0
  BY DEF UnitIs
<1>2. sec \in 0 .. Word - 1 /\ n \in 0 .. Second - 1 /\ t = Signed(t.sec < 0, sec, n)
  BY SizeIs
<1>3. AppendTime(t, unit) = Text(t.sec < 0, whole, frac # <<>>, frac)
  BY DEF AppendTime
<1> HIDE DEF a, sec, n
<1>4. Word \in Nat /\ sec \in Nat /\ n \in Nat
  BY <1>1, <1>2, SizesAssumption
<1>5. ASSUME Numeral(whole), DigitText(frac),
             Value(whole) \div unit = sec,
             (Value(whole) % unit) * R + Padded(frac, s - l) = n
      PROVE  WrittenAs(t, unit, whole, frac)
  <2> HIDE DEF whole, frac, R
  <2>1. DigitText(whole)
    BY <1>5 DEF Numeral, DigitText
  <2>2. MeaningParts(whole, frac, unit, sec, n)
    BY <1>5, <2>1, MeaningIs DEF R
  <2>3. Meaning(AppendTime(t, unit), unit) = t
    BY <1>2, <1>3, <2>2 DEF MeaningParts, Signed
  <2> QED
    BY <1>3, <1>5, <2>3 DEF WrittenAs
<1>6. CASE unit = 1
  <2>1. whole = Digits(sec) /\ frac = AppendFrac(n, Second) /\ l = 0 /\ s - l = s
    BY <1>1, <1>6
  <2> HIDE DEF whole, frac, R
  <2>2. Numeral(whole) /\ Value(whole) = sec
    BY <1>2, <2>1, DigitsNumeral
  <2>3. DigitText(frac) /\ Padded(frac, s) = n
    <3>1. DigitText(frac) /\ \A i \in 0 .. s : Padded(frac, i) = n \div Pow10[s - i]
      BY <1>1, <1>2, <2>1, AppendFracIs
    <3>2. Padded(frac, s) = n \div Pow10[0]
      BY <3>1
    <3>3. n \div 1 = n
      BY <1>4
    <3> QED
      BY <3>1, <3>2, <3>3, Pow10Steps
  <2>4. sec \div 1 = sec /\ sec % 1 = 0 /\ 0 * R + n = n
    BY <1>1, <1>4
  <2>5. WrittenAs(t, unit, whole, frac)
    BY <1>5, <1>6, <2>1, <2>2, <2>3, <2>4
  <2> QED
    BY <2>5
<1>7. CASE unit # 1
  <2>1. /\ q \in 0 .. unit - 1 /\ r \in 0 .. R - 1 /\ n = q * R + r
        /\ (n * unit) % Second = r * unit
    <3> HIDE DEF R, frac, whole
    <3>1. n \in 0 .. unit * R - 1
      BY <1>1, <1>2
    <3>2. /\ q \in 0 .. unit - 1 /\ r \in 0 .. R - 1 /\ n = q * R + r
          /\ (n * unit) % (unit * R) = r * unit
      <4>1. unit \in Nat \ {0} /\ R \in Nat \ {0}
        BY <1>1
      <4> QED
        BY <3>1, <4>1, SplitUnits, Zenon
    <3> HIDE DEF q, r
    <3>3. (n * unit) % Second = (n * unit) % (unit * R)
      <4> DEFINE z == unit * R
      <4>1. Second = z
        BY <1>1
      <4> HIDE DEF z
      <4>2. (n * unit) % Second = (n * unit) % z
        BY <4>1
      <4> QED
        BY <4>2 DEF z
    <3> QED
      BY <3>2, <3>3
  <2>2. frac = AppendFrac(r * unit, Second) /\ (n * unit) % Second = r * unit
    BY <1>7, <2>1
  <2>3. whole = IF sec < Second THEN Digits(sec * unit + q) ELSE Digits(sec) \o AppendPadded(q, unit)
    BY <1>1, <1>7
  <2> HIDE DEF whole, frac, R, q, r
  <2>4. r * unit \in 0 .. Second - 1
    <3>1. (n * unit) % Second \in 0 .. Second - 1
      <4> DEFINE x == n * unit
      <4>1. x \in Nat
        BY <1>1, <1>4
      <4> HIDE DEF x
      <4>2. x % Second \in 0 .. Second - 1
        BY <1>1, <4>1
      <4> QED
        BY <4>2 DEF x
    <3> QED
      BY <2>2, <3>1
  <2>5. DigitText(frac) /\ Padded(frac, s - l) = r
    <3> DEFINE x == r * unit
    <3>1. DigitText(frac) /\ \A i \in 0 .. s : Padded(frac, i) = x \div Pow10[s - i]
      BY <1>1, <2>2, <2>4, AppendFracIs
    <3>2. s - l \in 0 .. s /\ s - (s - l) = l
      BY <1>1
    <3>3. Padded(frac, s - l) = x \div unit
      BY <1>1, <3>1, <3>2
    <3>4. x = r * unit + 0 /\ r \in Int /\ 0 \in 0 .. unit - 1
      BY <1>1, <2>1
    <3> HIDE DEF x
    <3>5. x \div unit = r
      BY <1>1, <3>4, QuotientRest
    <3> QED
      BY <3>1, <3>3, <3>5
  <2>6. Numeral(whole) /\ Value(whole) = sec * unit + q
    <3>1. CASE sec < Second
      <4> DEFINE x == sec * unit + q
      <4>1. x \in 0 .. Word - 1
        <5> DEFINE k == Second - 1
        <5>1. sec <= k /\ k \in Nat /\ k + 1 = Second /\ unit <= Second
          <6>1. unit <= Second
            BY <1>1, Pow10Grows
          <6> QED
            BY <1>1, <1>4, <3>1, <6>1
        <5>2. sec * unit <= k * unit
          BY <1>1, <1>4, <5>1, Times1
        <5> HIDE DEF k
        <5>3. k * unit + unit = Second * unit
          <6>1. (k + 1) * unit = k * unit + unit
            BY <1>1, <5>1
          <6> QED
            BY <5>1, <6>1
        <5>4. unit * Second <= Second * Second /\ Second * unit = unit * Second
          BY <1>1, <5>1, Times1
        <5>5. sec * unit \in Nat /\ k * unit \in Nat /\ Second * unit \in Nat /\ Second * Second \in Nat
          BY <1>1, <1>4, <5>1
        <5> DEFINE e == sec * unit
                   f == k * unit
                   g == Second * unit
                   h == Second * Second
        <5>6. e \in Nat /\ f \in Nat /\ g \in Nat /\ h \in Nat /\ e <= f /\ f + unit = g /\ g <= h /\ h < Word
          BY <5>2, <5>3, <5>4, <5>5, SecondFits
        <5>7. x = e + q
          OBVIOUS
        <5> HIDE DEF e, f, g, h, x
        <5> QED
          BY <1>1, <1>4, <2>1, <5>6, <5>7
      <4> HIDE DEF x
      <4>2. whole = Digits(x)
        BY <2>3, <3>1 DEF x
      <4>3. Numeral(whole) /\ Value(whole) = x
        BY <4>1, <4>2, DigitsNumeral
      <4> QED
        BY <4>3 DEF x
    <3>2. CASE ~(sec < Second)
      <4> DEFINE b == Digits(sec)
                 c == AppendPadded(q, unit)
                 L == Len(b)
      <4>1. whole = b \o c
        BY <2>3, <3>2
      <4>2. sec # 0
        BY <1>1, <3>2
      <4>3. Numeral(b) /\ Value(b) = sec /\ b[1] # 0
        BY <1>2, <4>2, DigitsNumeral
      <4>4. DigitText(c) /\ Len(c) = l /\ Padded(c, l) = q
        <5>1. l \in 1 .. 9 /\ Pow10[l] <= Second /\ q \in 0 .. Pow10[l] - 1
          <6>1. l # 0 /\ Pow10[l] <= Pow10[s]
            BY <1>1, <1>7, Pow10Grows
          <6> QED
            BY <1>1, <2>1, <6>1
        <5>2. /\ DigitText(c) /\ Len(c) = l
              /\ \A i \in 0 .. l : Padded(c, i) = q \div Pow10[l - i]
          BY <1>1, <5>1, AppendPaddedIs
        <5> HIDE DEF c
        <5>3. Padded(c, l) = q \div Pow10[0]
          BY <5>2
        <5>4. q \div 1 = q
          BY <2>1
        <5> QED
          BY <5>2, <5>3, <5>4, Pow10Steps
      <4>5. b \in Seq(0 .. 9) /\ L \in Nat \ {0} /\ Value(b) = Padded(b, L)
        BY <4>3, ValueIs DEF Value
      <4> HIDE DEF b, c
      <4>6. /\ whole \in Seq(0 .. 9) /\ Len(whole) = L + l
            /\ \A i \in 1 .. L : DigitAt(whole, i) = DigitAt(b, i)
            /\ \A i \in Nat \ {0} : DigitAt(whole, L + i) = DigitAt(c, i)
        BY <4>1, <4>4, <4>5, JoinedDigits DEF DigitText
      <4>7. Numeric(whole) /\ Numeric(b) /\ Numeric(c) /\ l \in Nat
        BY <4>4, <4>5, <4>6, SeqDecimal DEF DigitText
      <4>8. DigitAt(whole, 1) = whole[1] /\ DigitAt(b, 1) = b[1]
        <5>1. 1 \in 1 .. L /\ 1 \in 1 .. L + l
          BY <4>5
        <5> QED
          BY <4>5, <4>6, <5>1, SeqDecimal
      <4> HIDE DEF L
      <4>9. Padded(whole, L + l) = Padded(whole, L) * Pow10[l] + Padded(c, l)
        <5>1. Shows(whole, L, c, l)
          BY <4>6 DEF Shows
        <5> QED
          BY <4>5, <4>7, <5>1, Cut
      <4>10. Padded(whole, L) = Padded(b, L)
        BY <4>5, <4>6, <4>7, SameDigits
      <4>11. Value(whole) = sec * unit + q
        BY <1>1, <4>3, <4>4, <4>5, <4>6, <4>9, <4>10 DEF Value
      <4>12. Numeral(whole)
        <5>1. whole[1] # 0
          <6>1. 1 \in 1 .. L
            BY <4>5
          <6> QED
            BY <4>3, <4>6, <4>8, <6>1
        <5>2. whole # <<>>
          BY <4>5, <4>6
        <5> QED
          BY <4>6, <5>1, <5>2 DEF Numeral
      <4> QED
        BY <4>11, <4>12
    <3> QED
      BY <3>1, <3>2
  <2>7. Value(whole) \div unit = sec /\ Value(whole) % unit = q
    <3> DEFINE x == Value(whole)
    <3>1. sec \in Int /\ unit \in Nat \ {0} /\ q \in 0 .. unit - 1 /\ x = sec * unit + q
      BY <1>1, <1>4, <2>1, <2>6
    <3> HIDE DEF x
    <3>2. x \div unit = sec /\ x % unit = q
      BY <3>1, QuotientRest, Zenon
    <3> QED
      BY <3>2 DEF x
  <2>8. WrittenAs(t, unit, whole, frac)
    BY <1>5, <2>1, <2>5, <2>6, <2>7
  <2> QED
    BY <2>8
<1> QED
  BY <1>6, <1>7

\* A time of either sign is written as the number that means it, and reads back the same to the
\* nanosecond, in every unit (json_timeunix.go, lines 21-41, 43-74).
THEOREM AppendTimeExact ==
  ASSUME NEW t \in Times, NEW unit \in Units
  PROVE  /\ Meaning(AppendTime(t, unit), unit) = t
         /\ ParseTime(AppendTime(t, unit), unit) = {t}
         /\ AppendTime(t, unit).whole # <<>>
<1>1. PICK s \in 1 .. 9, l \in 0 .. 9 : UnitIs(unit, s, l)
  BY UnitsAre
<1>2. PICK whole, frac : WrittenAs(t, unit, whole, frac)
  BY <1>1, Written
<1> DEFINE neg == t.sec < 0
           dot == frac # <<>>
           text == Text(neg, whole, dot, frac)
<1>3. AppendTime(t, unit) = text /\ Meaning(text, unit) = t /\ Numeral(whole) /\ DigitText(frac)
  BY <1>2 DEF WrittenAs
<1>4. Fits(t, neg)
  BY DEF Fits
<1>5. neg \in BOOLEAN /\ dot \in BOOLEAN /\ (dot <=> frac # <<>>)
  OBVIOUS
<1> HIDE DEF neg, dot
<1>6. ParseTime(text, unit) = IF Fits(Meaning(text, unit), neg) THEN {Meaning(text, unit)} ELSE {}
  BY <1>1, <1>3, <1>5, ParseNumber
<1>7. text.whole = whole /\ whole # <<>>
  BY <1>3 DEF Text, Numeral
<1> HIDE DEF text
<1> QED
  BY <1>3, <1>4, <1>6, <1>7

\* As Unix seconds a time reads back the same, but for the epoch, which is written as a time that
\* is not set (json_time.go, lines 159-194).
THEOREM UnixTimeReadsBack ==
  ASSUME NEW t \in Times \cup {ZeroTime}
  PROVE  UnmarshalUnixTime(MarshalUnixTime(t)) = {IF t = Epoch THEN ZeroTime ELSE t}
<1>1. CASE t = ZeroTime
  BY <1>1 DEF UnmarshalUnixTime, MarshalUnixTime
<1>2. CASE t # ZeroTime
  <2>1. t \in Times
    BY <1>2
  <2>2. 1 \in Units
    <3>1. Pow10[0] = 1 /\ 1 <= Second
      BY Pow10Steps, SizesAssumption
    <3> QED
      BY <3>1 DEF Units
  <2>3. /\ Meaning(AppendTime(t, 1), 1) = t /\ ParseTime(AppendTime(t, 1), 1) = {t}
        /\ AppendTime(t, 1).whole # <<>>
    BY <2>1, <2>2, AppendTimeExact
  <2>4. MarshalUnixTime(t) = AppendTime(t, 1)
    BY <1>2 DEF MarshalUnixTime
  <2>5. AppendTime(t, 1) # NoText
    BY <2>3 DEF NoText, Text
  <2>6. CASE t = Epoch
    <3>1. 0 \in 0 .. Word - 1 /\ Second \in Nat /\ Second > 1
      BY SizesAssumption
    <3>2. Digits(0) = <<0>>
      <4>1. /\ Numeral(Digits(0)) /\ (0 < Pow10[1] => Len(Digits(0)) = 1) /\ Value(Digits(0)) = 0
        BY <3>1, DigitsNumeral
      <4>2. 0 < Pow10[1]
        BY Pow10Steps
      <4> DEFINE b == Digits(0)
      <4>3. Numeral(b) /\ Len(b) = 1 /\ Padded(b, 1) = 0
        BY <4>1, <4>2 DEF Value
      <4> HIDE DEF b
      <4>4. Numeric(b) /\ DigitAt(b, 1) = b[1] /\ b[1] \in Nat /\ b \in Seq(0 .. 9)
        BY <4>3, NumeralFacts DEF Numeral
      <4>5. Padded(b, 0 + 1) = 10 * Padded(b, 0) + DigitAt(b, 0 + 1) /\ Padded(b, 0) = 0
        BY <4>4, PaddedSteps
      <4>6. b[1] = 0
        BY <4>3, <4>4, <4>5
      <4>7. b = <<0>>
        BY <4>3, <4>4, <4>6
      <4> QED
        BY <4>7 DEF b
    <3>3. t.sec = 0 /\ t.nsec = 0
      BY <2>6 DEF Epoch, Time
    <3>4. ToUint(0) = 0
      <4>1. Word \in Nat \ {0}
        BY SizesAssumption
      <4> QED
        BY <4>1 DEF ToUint
    <3>5. AppendTime(t, 1) = TextZero
      <4> DEFINE f == AppendFrac(0, Second)
      <4>1. AppendTime(t, 1) = Text(t.sec < 0, Digits(0), f # <<>>, f)
        <5> HIDE DEF f
        <5>1. ~(t.sec < 0)
          BY <3>3
        <5> QED
          BY <3>3, <3>4, <5>1 DEF AppendTime, f
      <4>2. f = <<>>
        BY DEF AppendFrac
      <4> HIDE DEF f
      <4>3. (t.sec < 0) = FALSE /\ (f # <<>>) = FALSE
        BY <3>3, <4>2
      <4> QED
        BY <3>2, <4>1, <4>2, <4>3 DEF TextZero
    <3> QED
      BY <2>4, <2>6, <3>5 DEF UnmarshalUnixTime
  <2>7. CASE t # Epoch
    <3>1. Meaning(TextZero, 1) = Epoch
      <4>1. PICK s \in 1 .. 9, l \in 0 .. 9 : UnitIs(1, s, l)
        BY <2>2, UnitsAre
      <4>2. l = 0 /\ l \in Nat /\ s \in Nat /\ Pow10[s] \in Nat /\ s - 0 = s
        BY <4>1, Pow10Steps DEF UnitIs
      <4>3. DigitText(<<0>>) /\ DigitText(<<>>) /\ Len(<<0>>) = 1
        BY DEF DigitText
      <4>4. \A j \in Nat : DigitAt(<<>>, j) = 0 /\ DigitAt(<<0>>, j) = 0
        BY DEF DigitAt
      <4>5. Numeric(<<>>) /\ Numeric(<<0>>)
        BY <4>4 DEF Numeric
      <4>6. Padded(<<>>, s) = 0 /\ Value(<<0>>) = 0
        <5>1. \A n \in Nat : Padded(<<>>, n) = 0 /\ Padded(<<0>>, n) = 0
          BY <4>4, <4>5, NoDigits
        <5> QED
          BY <4>2, <4>3, <5>1 DEF Value
      <4>7. MeaningParts(<<0>>, <<>>, 1, Value(<<0>>) \div 1,
                         (Value(<<0>>) % 1) * Pow10[s - l] + Padded(<<>>, s - l))
        BY <4>1, <4>3, MeaningIs
      <4>8. 0 \div 1 = 0 /\ 0 % 1 = 0 /\ 0 * Pow10[s] + 0 = 0
        BY <4>2
      <4>9. MeaningParts(<<0>>, <<>>, 1, 0, 0)
        BY <4>2, <4>6, <4>7, <4>8
      <4> QED
        BY <4>9 DEF MeaningParts, TextZero, Epoch
    <3>2. AppendTime(t, 1) # TextZero
      BY <2>3, <2>7, <3>1
    <3> QED
      BY <2>3, <2>4, <2>5, <2>7, <3>2 DEF UnmarshalUnixTime
  <2> QED
    BY <2>6, <2>7
<1> QED
  BY <1>1, <1>2
=============================================================================

---------------------------- MODULE PrintkProofs -----------------------------
(***************************************************************************)
(* printk() prints what its format and arguments mean, for every request,  *)
(* every number and every width of the machine's words: print_ulong()      *)
(* makes the digits of a number, print_long() survives the smallest one,   *)
(* print_hex() pads, and the loop over the format takes one argument for   *)
(* each conversion that needs one.                                         *)
(***************************************************************************)
EXTENDS Printk, SequenceTheorems, WellFoundedInduction, TLAPS

\* Induction, with a set in place of a predicate.
LEMMA SetInduction ==
    ASSUME NEW T, 0 \in T, \A n \in Nat : n \in T => n + 1 \in T
    PROVE  \A n \in Nat : n \in T
<1>1. SUFFICES ASSUME Nat \ T # {} PROVE FALSE
  OBVIOUS
<1>2. PICK x \in Nat \ T : \A y \in Nat \ T : ~ (<<y, x>> \in OpToRel(<, Nat))
  BY <1>1, WFMin, NatLessThanWellFounded
<1>3. \A y \in Nat \ T : ~ (y < x)
  BY <1>2 DEF OpToRel
<1>4. x \in Nat /\ x \notin T
  OBVIOUS
<1>5. x # 0 /\ x - 1 \in Nat /\ (x - 1) + 1 = x /\ x - 1 < x
  BY <1>4
<1>6. x - 1 \in T
  BY <1>3, <1>5
<1> QED  BY <1>4, <1>5, <1>6
-----------------------------------------------------------------------------
(***************************************************************************)
(* Powers                                                                  *)
(***************************************************************************)
IsPower(f, b, n) == f = [k \in 0 .. n |-> IF k = 0 THEN 1 ELSE b * f[k - 1]]

\* Power() by a function that takes down the powers up to the n-th.
LEMMA PowerExists ==
    ASSUME NEW b, NEW n \in Nat
    PROVE  \E f : IsPower(f, b, n)
<1> DEFINE T == {m \in Nat : \E f : IsPower(f, b, m)}
<1>1. 0 \in T
  <2> DEFINE f == [k \in 0 .. 0 |-> 1]
  <2>1. \A k \in 0 .. 0 : k = 0
    OBVIOUS
  <2>2. IsPower(f, b, 0)
    BY <2>1 DEF IsPower
  <2> QED  BY <2>2
<1>2. ASSUME NEW m \in Nat, m \in T PROVE m + 1 \in T
  <2>1. PICK f : IsPower(f, b, m)
    BY <1>2
  <2> DEFINE g == [k \in 0 .. (m + 1) |-> IF k = m + 1 THEN b * f[m] ELSE f[k]]
  <2>2. \A k \in 0 .. (m + 1) : k # 0 => k - 1 \in 0 .. m /\ g[k - 1] = f[k - 1]
    OBVIOUS
  <2>3. \A k \in 0 .. m : f[k] = IF k = 0 THEN 1 ELSE b * f[k - 1]
    BY <2>1 DEF IsPower
  <2>4. \A k \in 0 .. (m + 1) : g[k] = IF k = 0 THEN 1 ELSE b * g[k - 1]
    <3> TAKE k \in 0 .. (m + 1)
    <3>1. CASE k = m + 1
      <4>1. k # 0 /\ k - 1 = m /\ g[k] = b * f[m]
        BY <3>1
      <4> QED  BY <2>2, <4>1
    <3>2. CASE k # m + 1
      <4>1. k \in 0 .. m /\ g[k] = f[k]
        BY <3>2
      <4> QED  BY <2>2, <2>3, <4>1
    <3> QED  BY <3>1, <3>2
  <2>5. g = [k \in 0 .. (m + 1) |-> g[k]]
    OBVIOUS
  <2>6. IsPower(g, b, m + 1)
    <3> HIDE DEF g
    <3> QED  BY <2>4, <2>5 DEF IsPower
  <2>7. m + 1 \in Nat
    OBVIOUS
  <2> HIDE DEF g
  <2> QED  BY <2>6, <2>7
<1>3. n \in T
  <2> HIDE DEF T
  <2> QED  BY <1>1, <1>2, SetInduction
<1> QED  BY <1>3

LEMMA PowerIs ==
    ASSUME NEW b, NEW n \in Nat
    PROVE  \E f : IsPower(f, b, n) /\ Power(b, n) = f[n]
<1> DEFINE f == CHOOSE x : IsPower(x, b, n)
<1>1. IsPower(f, b, n)
  BY PowerExists
<1>2. Power(b, n) = f[n]
  BY DEF Power, IsPower
<1> QED  BY <1>1, <1>2

LEMMA PowerSteps ==
    ASSUME NEW b, NEW n \in Nat
    PROVE  Power(b, 0) = 1 /\ Power(b, n + 1) = b * Power(b, n)
<1>1. PICK z : IsPower(z, b, 0) /\ Power(b, 0) = z[0]
  BY PowerIs
<1>2. Power(b, 0) = 1
  <2>1. 0 \in 0 .. 0
    OBVIOUS
  <2> QED  BY <1>1, <2>1 DEF IsPower
<1>3. PICK f : IsPower(f, b, n) /\ Power(b, n) = f[n]
  BY PowerIs
<1>4. n + 1 \in Nat
  OBVIOUS
<1>5. PICK g : IsPower(g, b, n + 1) /\ Power(b, n + 1) = g[n + 1]
  BY <1>4, PowerIs
<1>6. \A k \in 0 .. n : f[k] = IF k = 0 THEN 1 ELSE b * f[k - 1]
  BY <1>3 DEF IsPower
<1>7. \A k \in 0 .. (n + 1) : g[k] = IF k = 0 THEN 1 ELSE b * g[k - 1]
  BY <1>5 DEF IsPower
<1> DEFINE T == {k \in Nat : k <= n => f[k] = g[k]}
<1>8. 0 \in T
  <2>1. 0 \in 0 .. n /\ 0 \in 0 .. (n + 1)
    OBVIOUS
  <2> QED  BY <1>6, <1>7, <2>1
<1>9. ASSUME NEW k \in Nat, k \in T PROVE k + 1 \in T
  <2>1. SUFFICES ASSUME k + 1 <= n PROVE f[k + 1] = g[k + 1]
    OBVIOUS
  <2>2. k + 1 \in 0 .. n /\ k + 1 \in 0 .. (n + 1) /\ k + 1 # 0 /\ (k + 1) - 1 = k /\ f[k] = g[k]
    BY <1>9, <2>1
  <2>3. f[k + 1] = b * f[k] /\ g[k + 1] = b * g[k]
    BY <1>6, <1>7, <2>2
  <2> QED  BY <2>2, <2>3
<1>10. n \in T
  <2> HIDE DEF T
  <2> QED  BY <1>8, <1>9, SetInduction
<1>11. f[n] = g[n]
  BY <1>10
<1>12. n + 1 \in 0 .. (n + 1) /\ n + 1 # 0 /\ (n + 1) - 1 = n
  OBVIOUS
<1>13. g[n + 1] = b * g[n]
  BY <1>7, <1>12
<1> QED  BY <1>2, <1>3, <1>5, <1>11, <1>13

\* A power of a base above 1: its type, and larger exponents make larger powers.
LEMMA PowerType ==
    ASSUME NEW b \in Nat, b >= 2, NEW n \in Nat
    PROVE  Power(b, n) \in Nat /\ Power(b, n) >= 1
<1> DEFINE T == {k \in Nat : Power(b, k) \in Nat /\ Power(b, k) >= 1}
<1>1. 0 \in T
  BY PowerSteps
<1>2. ASSUME NEW k \in Nat, k \in T PROVE k + 1 \in T
  <2>1. PICK p : p = Power(b, k)
    OBVIOUS
  <2>2. p \in Nat /\ p >= 1 /\ Power(b, k + 1) = b * p
    BY <1>2, <2>1, PowerSteps
  <2>3. b * p \in Nat /\ b * p >= 1
    BY <2>2
  <2> QED  BY <2>2, <2>3
<1>3. n \in T
  <2> HIDE DEF T
  <2> QED  BY <1>1, <1>2, SetInduction
<1> QED  BY <1>3

LEMMA PowerGrows ==
    ASSUME NEW b \in Nat, b >= 2, NEW m \in Nat, NEW n \in Nat, m <= n
    PROVE  Power(b, m) <= Power(b, n) /\ (m < n => Power(b, m) < Power(b, n))
<1> DEFINE T == {k \in Nat : m <= k => Power(b, m) <= Power(b, k) /\ (m < k => Power(b, m) < Power(b, k))}
<1>1. \A k \in Nat : Power(b, k) \in Nat /\ Power(b, k) >= 1
  BY PowerType
<1>2. 0 \in T
  BY <1>1
<1>3. ASSUME NEW k \in Nat, k \in T PROVE k + 1 \in T
  <2>1. SUFFICES ASSUME m <= k + 1
                 PROVE  /\ Power(b, m) <= Power(b, k + 1)
                        /\ m < k + 1 => Power(b, m) < Power(b, k + 1)
    OBVIOUS
  <2>2. CASE m = k + 1
    BY <1>1, <2>2
  <2>3. CASE m <= k
    <3>1. PICK p, q, r : p = Power(b, m) /\ q = Power(b, k) /\ r = Power(b, k + 1)
      OBVIOUS
    <3>2. p \in Nat /\ q \in Nat /\ q >= 1 /\ p <= q /\ r = b * q
      BY <1>1, <1>3, <2>3, <3>1, PowerSteps
    <3>3. q < r
      BY <3>2
    <3> QED  BY <3>1, <3>2, <3>3
  <2> QED  BY <2>1, <2>2, <2>3
<1>4. n \in T
  <2> HIDE DEF T
  <2> QED  BY <1>2, <1>3, SetInduction
<1> QED  BY <1>4

\* The powers of ten exceed those of two, and a digit in base 16 is four bits.
LEMMA PowerLeast ==
    ASSUME NEW b \in Nat, b >= 2, NEW n \in Nat
    PROVE  Power(2, n) <= Power(b, n)
<1> DEFINE T == {k \in Nat : Power(2, k) <= Power(b, k)}
<1>1. 0 \in T
  BY PowerSteps
<1>2. ASSUME NEW k \in Nat, k \in T PROVE k + 1 \in T
  <2>1. PICK p, q : p = Power(2, k) /\ q = Power(b, k)
    OBVIOUS
  <2>2. p \in Nat /\ q \in Nat /\ p <= q
    BY <1>2, <2>1, PowerType
  <2>3. Power(2, k + 1) = 2 * p /\ Power(b, k + 1) = b * q
    BY <2>1, PowerSteps
  <2>4. 2 * p <= b * q
    <3>1. b * q >= 2 * q
      BY <2>2
    <3> QED  BY <2>2, <3>1
  <2> QED  BY <2>3, <2>4
<1>3. n \in T
  <2> HIDE DEF T
  <2> QED  BY <1>1, <1>2, SetInduction
<1> QED  BY <1>3

LEMMA PowerSixteen ==
    ASSUME NEW n \in Nat
    PROVE  Power(16, n) = Power(2, 4 * n)
<1> DEFINE T == {k \in Nat : Power(16, k) = Power(2, 4 * k)}
<1>1. 0 \in T
  BY PowerSteps
<1>2. ASSUME NEW k \in Nat, k \in T PROVE k + 1 \in T
  <2>1. PICK p, e : p = Power(2, 4 * k) /\ e = 4 * k
    OBVIOUS
  <2>2. /\ e \in Nat /\ e + 1 \in Nat /\ e + 1 + 1 \in Nat /\ e + 1 + 1 + 1 \in Nat
        /\ 4 * (k + 1) = e + 1 + 1 + 1 + 1
    BY <2>1
  <2>3. p \in Nat
    BY <2>1, <2>2, PowerType
  <2>4. Power(2, e + 1) = 2 * p /\ Power(2, e + 1 + 1) = 2 * (2 * p)
    BY <2>1, <2>2, PowerSteps
  <2>5. Power(2, e + 1 + 1 + 1) = 2 * (2 * (2 * p)) /\ Power(2, e + 1 + 1 + 1 + 1) = 2 * (2 * (2 * (2 * p)))
    BY <2>2, <2>4, PowerSteps
  <2>6. Power(16, k + 1) = 16 * p
    BY <1>2, <2>1, PowerSteps
  <2>7. 2 * (2 * (2 * (2 * p))) = 16 * p
    BY <2>3
  <2> QED  BY <2>2, <2>5, <2>6, <2>7
<1>3. n \in T
  <2> HIDE DEF T
  <2> QED  BY <1>1, <1>2, SetInduction
<1> QED  BY <1>3

\* Quotients.
LEMMA QuotientIs ==
    ASSUME NEW n \in Nat, NEW d \in Nat, d >= 1, NEW q \in Nat, q * d <= n, n < q * d + d
    PROVE  n \div d = q
OBVIOUS

LEMMA QuotientOf ==
    ASSUME NEW n \in Nat, NEW d \in Nat, d >= 1
    PROVE  /\ n \div d \in Nat /\ (n \div d) * d <= n /\ n < (n \div d) * d + d
           /\ n < d => n \div d = 0
OBVIOUS

LEMMA QuotientTwice ==
    ASSUME NEW n \in Nat, NEW p \in Nat, p >= 1, NEW b \in Nat, b >= 1
    PROVE  (n \div b) \div p = n \div (b * p)
<1>1. PICK m : m = n \div b
  OBVIOUS
<1>2. m \in Nat /\ m * b <= n /\ n < m * b + b
  BY <1>1, QuotientOf
<1>3. PICK q : q = m \div p
  OBVIOUS
<1>4. q \in Nat /\ q * p <= m /\ m < q * p + p
  BY <1>2, <1>3, QuotientOf
<1>5. PICK x, y : x = q * p /\ y = b * p
  OBVIOUS
<1>6. x \in Nat /\ y \in Nat /\ y >= 1 /\ x <= m /\ m + 1 <= x + p /\ q * y = x * b
  BY <1>2, <1>4, <1>5
<1>7. x * b <= m * b /\ (m + 1) * b <= (x + p) * b
  BY <1>2, <1>6
<1>8. (m + 1) * b = m * b + b /\ (x + p) * b = x * b + y
  BY <1>2, <1>5, <1>6
<1>9. m * b \in Nat /\ x * b \in Nat
  BY <1>2, <1>6
<1>10. q * y <= n /\ n < q * y + y
  BY <1>2, <1>6, <1>7, <1>8, <1>9
<1>11. n \div y = q
  BY <1>4, <1>6, <1>10, QuotientIs
<1> QED  BY <1>1, <1>3, <1>5, <1>11
-----------------------------------------------------------------------------
(***************************************************************************)
(* Numerals                                                                *)
(***************************************************************************)
\* The digits of a number: how many they are is determined by the number.
LEMMA NumeralIs ==
    ASSUME NEW b \in Nat, b >= 2, NEW n \in Nat, NEW k \in 1 .. LongBits, Fits(n, b, k)
    PROVE  Numeral(n, b) = Digits(n, b, k)
<1>1. \A j \in 1 .. LongBits : j \in Nat /\ j - 1 \in Nat /\ Power(b, j) \in Nat /\ Power(b, j - 1) \in Nat
  BY WidthAssumption, PowerType
<1>2. ASSUME NEW i \in 1 .. LongBits, NEW j \in 1 .. LongBits, i < j, Fits(n, b, i), Fits(n, b, j)
      PROVE  FALSE
  <2>1. n < Power(b, i) /\ Power(b, j - 1) <= n
    BY <1>2, WidthAssumption DEF Fits
  <2>2. i \in Nat /\ j - 1 \in Nat /\ i <= j - 1
    BY <1>2, WidthAssumption
  <2>3. Power(b, i) <= Power(b, j - 1)
    BY <2>2, PowerGrows
  <2> QED  BY <1>1, <2>1, <2>3
<1>3. \A j \in 1 .. LongBits : Fits(n, b, j) => j = k
  <2>1. \A j \in 1 .. LongBits : j < k \/ j = k \/ k < j
    BY WidthAssumption
  <2> QED  BY <1>2, <2>1
<1>4. (CHOOSE j \in 1 .. LongBits : Fits(n, b, j)) = k
  BY <1>3
<1> QED  BY <1>4 DEF Numeral

\* Every number below b^n has at most n digits.
LEMMA FitsSome ==
    ASSUME NEW b \in Nat, b >= 2, NEW n \in Nat, NEW m \in Nat, m >= 1, n < Power(b, m)
    PROVE  \E k \in 1 .. m : Fits(n, b, k)
<1> DEFINE T == {m0 \in Nat : m0 >= 1 /\ n < Power(b, m0) => \E k \in 1 .. m0 : Fits(n, b, k)}
<1>1. 0 \in T
  OBVIOUS
<1>2. ASSUME NEW j \in Nat, j \in T PROVE j + 1 \in T
  <2>1. SUFFICES ASSUME n < Power(b, j + 1) PROVE \E k \in 1 .. (j + 1) : Fits(n, b, k)
    OBVIOUS
  <2>2. j + 1 \in 1 .. (j + 1) /\ (j + 1) - 1 = j
    OBVIOUS
  <2>3. CASE j >= 1 /\ n < Power(b, j)
    <3>1. PICK k \in 1 .. j : Fits(n, b, k)
      BY <1>2, <2>3
    <3> QED  BY <3>1
  <2>4. CASE j = 0
    <3>1. Fits(n, b, j + 1)
      BY <2>1, <2>4 DEF Fits
    <3> QED  BY <2>2, <3>1
  <2>5. CASE ~ (n < Power(b, j))
    <3>1. Power(b, j) <= n
      BY <2>5, PowerType
    <3>2. Fits(n, b, j + 1)
      BY <2>1, <2>2, <3>1 DEF Fits
    <3> QED  BY <2>2, <3>2
  <2> QED  BY <2>3, <2>4, <2>5
<1>3. m \in T
  <2> HIDE DEF T
  <2> QED  BY <1>1, <1>2, SetInduction
<1> QED  BY <1>3

\* A sequence, whatever its elements are.
IsList(a, n) == a = [i \in 1 .. n |-> a[i]]

\* One element before a sequence.
LEMMA Prepended ==
    ASSUME NEW j \in Nat, NEW a, NEW b, NEW h,
           IsList(a, j), IsList(b, j + 1),
           b[1] = h, \A i \in 1 .. j : b[i + 1] = a[i]
    PROVE  <<h>> \o a = b
<1> DEFINE S == {h} \cup {a[i] : i \in 1 .. j}
           c == <<h>> \o a
<1>1. a \in [1 .. j -> S]
  BY DEF IsList
<1>2. h \in S
  OBVIOUS
<1> HIDE DEF S
<1>3. a \in Seq(S) /\ Len(a) = j
  BY <1>1
<1>4. <<h>> \in Seq(S) /\ Len(<<h>>) = 1
  BY <1>2
<1>5. c \in Seq(S) /\ Len(c) = j + 1 /\ c[1] = h /\ \A i \in 1 .. j : c[i + 1] = a[i]
  BY <1>3, <1>4
<1>6. c = [i \in 1 .. (j + 1) |-> c[i]]
  BY <1>5
<1> HIDE DEF c
<1>7. \A i \in 1 .. (j + 1) : c[i] = b[i]
  <2> TAKE i \in 1 .. (j + 1)
  <2>1. CASE i = 1
    BY <1>5, <2>1
  <2>2. CASE i # 1
    <3>1. i - 1 \in 1 .. j /\ (i - 1) + 1 = i
      BY <2>2
    <3> QED  BY <1>5, <3>1
  <2> QED  BY <2>1, <2>2
<1> QED  BY <1>6, <1>7 DEF c, IsList

\* f takes down the digits print_ulong() stores for every number up to n.
IsStored(f, n) ==
    f = [k \in 0 .. n |-> IF k = 0 THEN <<>> ELSE <<Digit[(k % 10) + 1]>> \o f[k \div 10]]

LEMMA Tenth ==
    ASSUME NEW k \in Nat, k # 0
    PROVE  k \div 10 \in Nat /\ k \div 10 <= k - 1
OBVIOUS

LEMMA StoredExists ==
    ASSUME NEW n \in Nat
    PROVE  \E f : IsStored(f, n)
<1> DEFINE T == {m \in Nat : \E f : IsStored(f, m)}
<1>1. 0 \in T
  <2> DEFINE f == [k \in 0 .. 0 |-> <<>>]
  <2>1. \A k \in 0 .. 0 : k = 0
    OBVIOUS
  <2>2. IsStored(f, 0)
    BY <2>1 DEF IsStored
  <2> QED  BY <2>2
<1>2. ASSUME NEW m \in Nat, m \in T PROVE m + 1 \in T
  <2>1. PICK f : IsStored(f, m)
    BY <1>2
  <2> DEFINE next == <<Digit[((m + 1) % 10) + 1]>> \o f[(m + 1) \div 10]
             g == [k \in 0 .. (m + 1) |-> IF k = m + 1 THEN next ELSE f[k]]
  <2>2. \A k \in 0 .. (m + 1) : k # 0 => k \div 10 \in 0 .. m /\ g[k \div 10] = f[k \div 10]
    <3> TAKE k \in 0 .. (m + 1)
    <3> HAVE k # 0
    <3>1. k \div 10 \in 0 .. m
      BY Tenth
    <3>2. k \div 10 \in 0 .. (m + 1) /\ k \div 10 # m + 1
      BY <3>1
    <3> QED  BY <3>1, <3>2
  <2>3. \A k \in 0 .. m : f[k] = IF k = 0 THEN <<>> ELSE <<Digit[(k % 10) + 1]>> \o f[k \div 10]
    BY <2>1 DEF IsStored
  <2>4. m + 1 \in 0 .. (m + 1) /\ g[m + 1] = next /\ \A k \in 0 .. m : g[k] = f[k]
    OBVIOUS
  <2>5. g = [k \in 0 .. (m + 1) |-> g[k]]
    OBVIOUS
  <2> HIDE DEF g
  <2>6. \A k \in 0 .. (m + 1) : g[k] = IF k = 0 THEN <<>> ELSE <<Digit[(k % 10) + 1]>> \o g[k \div 10]
    <3> TAKE k \in 0 .. (m + 1)
    <3>1. CASE k = m + 1
      <4>1. k # 0
        BY <3>1
      <4> QED  BY <2>2, <2>4, <3>1, <4>1
    <3>2. CASE k # m + 1
      <4>1. k \in 0 .. m
        BY <3>2
      <4> QED  BY <2>2, <2>3, <2>4, <4>1
    <3> QED  BY <3>1, <3>2
  <2>7. IsStored(g, m + 1)
    BY <2>5, <2>6 DEF IsStored
  <2>8. m + 1 \in Nat
    OBVIOUS
  <2> QED  BY <2>7, <2>8
<1>3. n \in T
  <2> HIDE DEF T
  <2> QED  BY <1>1, <1>2, SetInduction
<1> QED  BY <1>3

\* print_ulong() by its function of all smaller numbers.
LEMMA StoredIs ==
    ASSUME NEW n \in Nat
    PROVE  \E f : IsStored(f, n) /\ Stored(n) = f[n]
<1> DEFINE f == CHOOSE x : IsStored(x, n)
<1>1. IsStored(f, n)
  BY StoredExists
<1>2. Stored(n) = f[n]
  BY DEF Stored, IsStored
<1> QED  BY <1>1, <1>2

LEMMA StoredAgree ==
    ASSUME NEW n \in Nat, NEW m \in Nat, NEW f, NEW g, IsStored(f, n), IsStored(g, m),
           NEW k \in Nat, k <= n, k <= m
    PROVE  f[k] = g[k]
<1> DEFINE T == {i \in Nat : \A j \in 0 .. i : j <= n /\ j <= m => f[j] = g[j]}
<1>1. \A i \in 0 .. n : f[i] = IF i = 0 THEN <<>> ELSE <<Digit[(i % 10) + 1]>> \o f[i \div 10]
  BY DEF IsStored
<1>2. \A i \in 0 .. m : g[i] = IF i = 0 THEN <<>> ELSE <<Digit[(i % 10) + 1]>> \o g[i \div 10]
  BY DEF IsStored
<1>3. 0 \in T
  <2>1. \A j \in 0 .. 0 : j = 0
    OBVIOUS
  <2>2. 0 \in 0 .. n /\ 0 \in 0 .. m
    OBVIOUS
  <2> QED  BY <1>1, <1>2, <2>1, <2>2
<1>4. ASSUME NEW i \in Nat, i \in T PROVE i + 1 \in T
  <2>1. SUFFICES ASSUME NEW j \in 0 .. (i + 1), j <= n, j <= m PROVE f[j] = g[j]
    OBVIOUS
  <2>2. CASE j <= i
    BY <1>4, <2>1, <2>2
  <2>3. CASE j = i + 1
    <3>1. j \in Nat /\ j # 0 /\ j \in 0 .. n /\ j \in 0 .. m
      BY <2>1, <2>3
    <3>2. PICK q : q = j \div 10
      OBVIOUS
    <3>3. q \in 0 .. i /\ q <= n /\ q <= m
      BY <2>3, <3>1, <3>2, Tenth
    <3>4. f[q] = g[q]
      BY <1>4, <3>3
    <3> QED  BY <1>1, <1>2, <3>1, <3>2, <3>4
  <2> QED  BY <2>2, <2>3
<1>5. k \in T
  <2> HIDE DEF T
  <2> QED  BY <1>3, <1>4, SetInduction
<1> QED  BY <1>5

LEMMA StoredSteps ==
    ASSUME NEW n \in Nat
    PROVE  /\ Stored(0) = <<>>
           /\ n # 0 => Stored(n) = <<Digit[(n % 10) + 1]>> \o Stored(n \div 10)
<1>1. Stored(0) = <<>>
  <2>1. PICK f : IsStored(f, 0) /\ Stored(0) = f[0]
    BY StoredIs
  <2>2. 0 \in 0 .. 0
    OBVIOUS
  <2> QED  BY <2>1, <2>2 DEF IsStored
<1>2. ASSUME n # 0 PROVE Stored(n) = <<Digit[(n % 10) + 1]>> \o Stored(n \div 10)
  <2>1. PICK q : q = n \div 10
    OBVIOUS
  <2>2. q \in Nat /\ q <= n /\ n \in 0 .. n
    BY <1>2, <2>1, Tenth
  <2>3. PICK f : IsStored(f, n) /\ Stored(n) = f[n]
    BY StoredIs
  <2>4. PICK g : IsStored(g, q) /\ Stored(q) = g[q]
    BY <2>2, StoredIs
  <2>5. f[q] = g[q]
    BY <2>2, <2>3, <2>4, StoredAgree
  <2>6. f[n] = <<Digit[(n % 10) + 1]>> \o f[n \div 10]
    BY <1>2, <2>2, <2>3 DEF IsStored
  <2> QED  BY <2>1, <2>3, <2>4, <2>5, <2>6
<1> QED  BY <1>1, <1>2

\* The loop stores the digits of a number of k digits, the last one first.
LEMMA StoredDigits ==
    ASSUME NEW k \in Nat, k >= 1, NEW n \in Nat, n >= 1, Fits(n, 10, k)
    PROVE  Stored(n) = [i \in 1 .. k |-> Digit[((n \div Power(10, i - 1)) % 10) + 1]]
<1> DEFINE D(m, j) == [i \in 1 .. j |-> Digit[((m \div Power(10, i - 1)) % 10) + 1]]
           T == {j \in Nat : \A m \in Nat : j >= 1 /\ m >= 1 /\ Fits(m, 10, j) => Stored(m) = D(m, j)}
<1>1. 0 \in T
  OBVIOUS
<1>2. ASSUME NEW j \in Nat, j \in T PROVE j + 1 \in T
  <2>1. SUFFICES ASSUME NEW m \in Nat, m >= 1, Fits(m, 10, j + 1) PROVE Stored(m) = D(m, j + 1)
    OBVIOUS
  <2>2. PICK q, d, h : q = m \div 10 /\ d = <<Digit[(m % 10) + 1]>> /\ h = Digit[(m % 10) + 1]
    OBVIOUS
  <2>3. q \in Nat /\ q * 10 <= m /\ m < q * 10 + 10
    BY <2>2
  <2>4. Stored(m) = d \o Stored(q)
    BY <2>1, <2>2, StoredSteps
  <2>5. D(m, j + 1)[1] = h
    <3>1. 1 \in 1 .. (j + 1) /\ 1 - 1 = 0 /\ m \div 1 = m
      OBVIOUS
    <3> QED  BY <2>2, <3>1, PowerSteps
  <2>6. PICK p, r : p = Power(10, j) /\ r = Power(10, j + 1)
    OBVIOUS
  <2>7. p \in Nat /\ p >= 1 /\ r = 10 * p /\ m < r /\ (j = 0 \/ p <= m)
    <3>1. (j + 1) - 1 = j /\ (j + 1 = 1 <=> j = 0)
      OBVIOUS
    <3> QED  BY <2>1, <2>6, <3>1, PowerSteps, PowerType DEF Fits
  <2>8. CASE j = 0
    <3>1. p = 1
      BY <2>6, <2>8, PowerSteps
    <3>2. q = 0
      BY <2>3, <2>7, <3>1
    <3>3. Stored(m) = d \o <<>>
      BY <2>4, <3>2, StoredSteps
    <3>4. Stored(m) = <<h>>
      BY <2>2, <3>3
    <3>5. D(m, j + 1) = <<D(m, j + 1)[1]>>
      <4>1. 1 .. (j + 1) = 1 .. 1
        BY <2>8
      <4>2. D(m, j + 1) = [i \in 1 .. 1 |-> D(m, j + 1)[i]]
        BY <4>1
      <4> HIDE DEF D
      <4> QED  BY <4>2
    <3> HIDE DEF D
    <3> QED  BY <2>5, <3>4, <3>5
  <2>9. CASE j >= 1
    <3>1. Fits(q, 10, j) /\ q >= 1
      <4>1. q < p
        BY <2>3, <2>7
      <4>2. PICK i : i = j - 1
        OBVIOUS
      <4>3. i \in Nat /\ i + 1 = j
        BY <2>9, <4>2
      <4>4. PICK o : o = Power(10, i)
        OBVIOUS
      <4>5. o \in Nat /\ o >= 1 /\ p = 10 * o
        BY <2>6, <4>3, <4>4, PowerSteps, PowerType
      <4>6. o <= q
        BY <2>3, <2>7, <2>9, <4>5
      <4> QED  BY <2>3, <2>6, <4>1, <4>2, <4>4, <4>5, <4>6 DEF Fits
    <3>2. Stored(q) = D(q, j)
      BY <1>2, <2>3, <2>9, <3>1
    <3>3. \A i \in 1 .. j : D(m, j + 1)[i + 1] = D(q, j)[i]
      <4> TAKE i \in 1 .. j
      <4>1. i \in Nat /\ i - 1 \in Nat /\ (i - 1) + 1 = i /\ (i + 1) - 1 = i /\ i + 1 \in 1 .. (j + 1)
        OBVIOUS
      <4>2. PICK o : o = Power(10, i - 1)
        OBVIOUS
      <4>3. o \in Nat /\ o >= 1 /\ Power(10, i) = 10 * o
        BY <4>1, <4>2, PowerSteps, PowerType
      <4>4. m \div Power(10, i) = q \div o
        <5>1. 10 \in Nat /\ 10 >= 1
          OBVIOUS
        <5>2. (m \div 10) \div o = m \div (10 * o)
          BY <4>3, <5>1, QuotientTwice
        <5> QED  BY <2>2, <4>3, <5>2
      <4>5. D(m, j + 1)[i + 1] = Digit[((m \div Power(10, i)) % 10) + 1]
        BY <4>1
      <4>6. D(q, j)[i] = Digit[((q \div o) % 10) + 1]
        BY <4>2
      <4> QED  BY <4>4, <4>5, <4>6
    <3>4. D(q, j) = [i \in 1 .. j |-> D(q, j)[i]] /\ D(m, j + 1) = [i \in 1 .. (j + 1) |-> D(m, j + 1)[i]]
      OBVIOUS
    <3> HIDE DEF D
    <3>5. PICK a, b : a = D(q, j) /\ b = D(m, j + 1)
      OBVIOUS
    <3>6. Stored(m) = <<h>> \o a
      BY <2>2, <2>4, <3>2, <3>5
    <3>7. IsList(a, j) /\ IsList(b, j + 1) /\ b[1] = h /\ \A i \in 1 .. j : b[i + 1] = a[i]
      BY <2>5, <3>3, <3>4, <3>5 DEF IsList
    <3>8. <<h>> \o a = b
      BY <3>7, Prepended
    <3> QED  BY <3>5, <3>6, <3>8
  <2> QED  BY <2>8, <2>9
<1>3. k \in T
  <2> HIDE DEF T
  <2> QED  BY <1>1, <1>2, SetInduction
<1> QED  BY <1>3

-----------------------------------------------------------------------------
(***************************************************************************)
(* The conversions print numerals                                          *)
(***************************************************************************)
\* A list, last element first.
LEMMA Reversed ==
    ASSUME NEW k \in Nat, NEW a, IsList(a, k)
    PROVE  Reverse(a) = [i \in 1 .. k |-> a[k - i + 1]]
<1>1. Len(a) = k
  <2> DEFINE S == {a[i] : i \in 1 .. k}
  <2>1. a \in [1 .. k -> S]
    BY DEF IsList
  <2> HIDE DEF S
  <2> QED  BY <2>1
<1> QED  BY <1>1 DEF Reverse

\* print_ulong() prints the numeral, for 0 too.
LEMMA UlongIs ==
    ASSUME NEW n \in Nat, n < Power(10, LongBits)
    PROVE  print_ulong(n) = Numeral(n, 10)
<1>1. LongBits \in Nat /\ LongBits >= 1
  BY WidthAssumption
<1>2. PICK k \in 1 .. LongBits : Fits(n, 10, k)
  BY <1>1, FitsSome
<1>3. Numeral(n, 10) = Digits(n, 10, k)
  BY <1>2, NumeralIs
<1>4. CASE n = 0
  <2>1. k = 1
    <3>1. SUFFICES ASSUME k # 1 PROVE FALSE
      OBVIOUS
    <3>2. k - 1 \in Nat /\ Power(10, k - 1) <= 0
      BY <1>1, <1>2, <1>4, <3>1 DEF Fits
    <3>3. Power(10, k - 1) >= 1
      BY <3>2, PowerType
    <3>4. Power(10, k - 1) \in Nat
      BY <3>2, PowerType
    <3> QED  BY <3>2, <3>3, <3>4
  <2>2. \A i \in 1 .. 1 : Digit[((0 \div Power(10, 1 - i)) % 10) + 1] = "0"
    <3> TAKE i \in 1 .. 1
    <3>1. 1 - i = 0 /\ Power(10, 0) = 1
      BY PowerSteps
    <3>2. (0 \div 1) % 10 = 0
      OBVIOUS
    <3> QED  BY <3>1, <3>2 DEF Digit
  <2>3. Digits(0, 10, 1) = [i \in 1 .. 1 |-> "0"]
    BY <2>2 DEF Digits
  <2>4. Digits(0, 10, 1) = <<"0">>
    BY <2>3
  <2>5. Reverse(<<>>) = <<>>
    BY DEF Reverse
  <2>6. print_ulong(0) = <<"0">> \o <<>>
    BY <2>5, StoredSteps DEF print_ulong
  <2> QED  BY <1>3, <1>4, <2>1, <2>4, <2>6
<1>5. CASE n # 0
  <2>1. k \in Nat /\ k >= 1 /\ n >= 1
    BY <1>1, <1>5
  <2>2. Stored(n) = [i \in 1 .. k |-> Digit[((n \div Power(10, i - 1)) % 10) + 1]]
    BY <1>2, <2>1, StoredDigits
  <2>3. PICK a : a = Stored(n)
    OBVIOUS
  <2>4. IsList(a, k) /\ \A i \in 1 .. k : a[i] = Digit[((n \div Power(10, i - 1)) % 10) + 1]
    BY <2>2, <2>3 DEF IsList
  <2>5. Reverse(a) = [i \in 1 .. k |-> a[k - i + 1]]
    BY <2>1, <2>4, Reversed
  <2>6. \A i \in 1 .. k : a[k - i + 1] = Digit[((n \div Power(10, k - i)) % 10) + 1]
    <3> TAKE i \in 1 .. k
    <3>1. k - i + 1 \in 1 .. k /\ (k - i + 1) - 1 = k - i
      BY <2>1
    <3> QED  BY <2>4, <3>1
  <2>7. Reverse(a) = Digits(n, 10, k)
    BY <2>5, <2>6 DEF Digits
  <2>8. PICK d : d = Digits(n, 10, k)
    OBVIOUS
  <2>9. print_ulong(n) = <<>> \o d
    BY <1>5, <2>3, <2>7, <2>8 DEF print_ulong
  <2>10. <<>> \o d = d
    <3> DEFINE S == {d[i] : i \in 1 .. k}
    <3>1. d = [i \in 1 .. k |-> d[i]]
      BY <2>8 DEF Digits
    <3>2. d \in [1 .. k -> S]
      BY <3>1
    <3> HIDE DEF S
    <3>3. d \in Seq(S)
      BY <2>1, <3>2
    <3> QED  BY <3>3
  <2> QED  BY <1>3, <2>8, <2>9, <2>10
<1> QED  BY <1>4, <1>5

\* The width of a word: an int's or a long's.
LEMMA WidthFacts ==
    ASSUME NEW bits \in {IntBits, LongBits}
    PROVE  /\ bits \in Nat /\ bits >= 1 /\ bits <= LongBits /\ LongBits \in Nat
           /\ bits \div 4 \in Nat /\ bits \div 4 >= 1 /\ bits = 4 * (bits \div 4)
           /\ bits \div 4 <= LongBits
BY WidthAssumption

\* A word read as an unsigned or a signed number is in range.
LEMMA WordFacts ==
    ASSUME NEW bits \in {IntBits, LongBits}, NEW word \in Int
    PROVE  /\ Unsigned(word, bits) \in Nat /\ Unsigned(word, bits) < Power(2, bits)
           /\ Signed(word, bits) \in Int /\ Signed(word, bits) < Power(2, bits)
           /\ -Signed(word, bits) < Power(2, bits)
<1>1. bits \in Nat /\ bits - 1 \in Nat /\ (bits - 1) + 1 = bits
  BY WidthFacts
<1>2. PICK p, h : p = Power(2, bits) /\ h = Power(2, bits - 1)
  OBVIOUS
<1>3. p \in Nat /\ h \in Nat /\ h >= 1 /\ p = 2 * h
  BY <1>1, <1>2, PowerType, PowerSteps
<1>4. PICK u : u = word % p
  OBVIOUS
<1>5. u \in Nat /\ u < p
  BY <1>3, <1>4
<1>6. Unsigned(word, bits) = u
  BY <1>2, <1>4 DEF Unsigned
<1>7. Signed(word, bits) = IF u < h THEN u ELSE u - p
  BY <1>2, <1>6 DEF Signed
<1> QED  BY <1>2, <1>3, <1>5, <1>6, <1>7

\* A word needs no more digits than a long has bits.
LEMMA WordNumeral ==
    ASSUME NEW bits \in {IntBits, LongBits}, NEW n \in Nat, n < Power(2, bits)
    PROVE  /\ n < Power(10, LongBits) /\ n < Power(2, LongBits)
           /\ print_ulong(n) = Numeral(n, 10)
<1>1. bits \in Nat /\ LongBits \in Nat /\ bits <= LongBits
  BY WidthFacts
<1>2. PICK p, q, r : p = Power(2, bits) /\ q = Power(2, LongBits) /\ r = Power(10, LongBits)
  OBVIOUS
<1>3. p \in Nat /\ q \in Nat /\ r \in Nat
  BY <1>1, <1>2, PowerType
<1>4. p <= q /\ q <= r
  BY <1>1, <1>2, PowerGrows, PowerLeast
<1>5. n < Power(10, LongBits) /\ n < Power(2, LongBits)
  BY <1>2, <1>3, <1>4
<1> QED  BY <1>5, UlongIs

\* print_long() prints a sign and the numeral, for the smallest number too.
LEMMA LongIs ==
    ASSUME NEW bits \in {IntBits, LongBits}, NEW word \in Int
    PROVE  /\ Signed(word, bits) < 0 =>
                 print_long(Signed(word, bits)) = <<"-">> \o Numeral(-Signed(word, bits), 10)
           /\ Signed(word, bits) >= 0 =>
                 print_long(Signed(word, bits)) = Numeral(Signed(word, bits), 10)
<1>1. PICK x : x = Signed(word, bits)
  OBVIOUS
<1>2. x \in Int /\ x < Power(2, bits) /\ -x < Power(2, bits)
  BY <1>1, WordFacts
<1>3. CASE x < 0
  <2>1. PICK n : n = -x
    OBVIOUS
  <2>2. n \in Nat /\ n < Power(2, bits)
    BY <1>2, <1>3, <2>1
  <2>3. n < Power(2, LongBits) /\ print_ulong(n) = Numeral(n, 10)
    BY <2>2, WordNumeral
  <2>4. Unsigned(n, LongBits) = n
    <3>1. PICK p : p = Power(2, LongBits)
      OBVIOUS
    <3>2. p \in Nat /\ p >= 1 /\ n < p
      BY <2>3, <3>1, WidthFacts, PowerType
    <3>3. n % p = n
      BY <2>2, <3>2
    <3> QED  BY <3>1, <3>3 DEF Unsigned
  <2>5. print_long(x) = <<"-">> \o print_ulong(Unsigned(n, LongBits))
    BY <1>3, <2>1 DEF print_long
  <2>6. ~ (x >= 0)
    BY <1>2, <1>3
  <2> QED  BY <1>1, <2>1, <2>3, <2>4, <2>5, <2>6
<1>4. CASE x >= 0
  <2>1. x \in Nat /\ ~ (x < 0)
    BY <1>2, <1>4
  <2>2. print_long(x) = print_ulong(x)
    BY <2>1 DEF print_long
  <2>3. print_ulong(x) = Numeral(x, 10)
    BY <1>2, <2>1, WordNumeral
  <2> QED  BY <1>1, <2>1, <2>2, <2>3
<1> QED  BY <1>1, <1>2, <1>3, <1>4

\* Hexadecimals have all their digits, the leading zeros included.
LEMMA HexIs ==
    ASSUME NEW bits \in {IntBits, LongBits}, NEW n \in Nat, n < Power(2, bits)
    PROVE  print_hex(n, bits \div 4) = <<"0", "x">> \o Padded(Numeral(n, 16), bits \div 4)
<1>1. PICK len : len = bits \div 4
  OBVIOUS
<1>2. len \in Nat /\ len >= 1 /\ bits = 4 * len /\ len <= LongBits /\ LongBits \in Nat
  BY <1>1, WidthFacts
<1>3. n < Power(16, len)
  BY <1>2, PowerSixteen
<1>4. PICK k \in 1 .. len : Fits(n, 16, k)
  BY <1>2, <1>3, FitsSome
<1>5. k \in Nat /\ k \in 1 .. LongBits
  BY <1>2
<1>6. Numeral(n, 16) = Digits(n, 16, k)
  BY <1>4, <1>5, NumeralIs
<1> DEFINE D(j) == Digit[((n \div Power(16, j)) % 16) + 1]
           low == [i \in 1 .. k |-> D(k - i)]
           high == [i \in 1 .. (len - k) |-> "0"]
           all == [i \in 1 .. len |-> D(len - i)]
<1>7. print_hex(n, len) = <<"0", "x">> \o all /\ Digits(n, 16, k) = low
  BY DEF print_hex, Digits
<1>8. \A j \in Nat : D(j) \in {Digit[i] : i \in 1 .. 16}
  <2> TAKE j \in Nat
  <2>1. PICK p : p = Power(16, j)
    OBVIOUS
  <2>2. p \in Nat /\ p >= 1
    BY <2>1, PowerType
  <2>3. n \div p \in Nat
    BY <2>2, QuotientOf
  <2>4. ((n \div p) % 16) + 1 \in 1 .. 16
    BY <2>3
  <2> QED  BY <2>1, <2>4
<1>9. \A j \in Nat : j >= k => D(j) = "0"
  <2> TAKE j \in Nat
  <2> HAVE j >= k
  <2>1. PICK p : p = Power(16, j)
    OBVIOUS
  <2>2. p \in Nat /\ p >= 1 /\ Power(16, k) <= p
    BY <1>5, <2>1, PowerType, PowerGrows
  <2>3. n < p
    BY <1>4, <1>5, <2>2, PowerType DEF Fits
  <2>4. n \div p = 0
    BY <2>2, <2>3, QuotientOf
  <2>5. ((n \div p) % 16) + 1 = 1
    BY <2>4
  <2> QED  BY <2>1, <2>5 DEF Digit
<1> HIDE DEF D
<1> DEFINE S == {Digit[i] : i \in 1 .. 16} \cup {"0"}
<1>10. low \in Seq(S) /\ Len(low) = k /\ high \in Seq(S) /\ Len(high) = len - k
  <2>1. \A i \in 1 .. k : k - i \in Nat
    BY <1>5
  <2>2. low \in [1 .. k -> S]
    BY <1>8, <2>1
  <2>3. high \in [1 .. (len - k) -> S] /\ len - k \in Nat
    BY <1>2, <1>4
  <2> HIDE DEF S, low, high
  <2> QED  BY <1>5, <2>2, <2>3
<1>11. high \o low = all
  <2> DEFINE c == high \o low
  <2>1. c \in Seq(S) /\ Len(c) = len
    <3> HIDE DEF low, high, S
    <3> QED  BY <1>2, <1>5, <1>10
  <2>2. \A i \in 1 .. len : c[i] = D(len - i)
    <3> TAKE i \in 1 .. len
    <3>1. CASE i <= len - k
      <4>1. c[i] = high[i] /\ i \in 1 .. (len - k)
        <5>1. i \in 1 .. (len - k)
          BY <1>2, <1>4, <3>1
        <5> HIDE DEF low, high, S
        <5> QED  BY <1>10, <5>1
      <4>2. len - i \in Nat /\ len - i >= k
        BY <1>2, <1>4, <3>1
      <4> QED  BY <1>9, <4>1, <4>2
    <3>2. CASE ~ (i <= len - k)
      <4>1. i - (len - k) \in 1 .. k /\ k - (i - (len - k)) = len - i
        BY <1>2, <1>4, <3>2
      <4>2. c[i] = low[i - (len - k)]
        <5>1. PICK m \in Nat : m = len - k
          BY <1>2, <1>4
        <5>2. Len(high) = m /\ i \in (m + 1) .. (m + k) /\ i - m = i - (len - k)
          BY <1>2, <1>10, <3>2, <5>1
        <5> HIDE DEF low, high, S
        <5>3. (high \o low)[i] = low[i - m]
          BY <1>5, <1>10, <5>2
        <5> QED  BY <5>1, <5>3
      <4>3. low[i - (len - k)] = D(k - (i - (len - k)))
        BY <4>1
      <4> QED  BY <4>1, <4>2, <4>3
    <3> QED  BY <3>1, <3>2
  <2>3. c = [i \in 1 .. len |-> c[i]]
    <3> HIDE DEF c, S
    <3> QED  BY <2>1
  <2> HIDE DEF c
  <2> QED  BY <2>2, <2>3 DEF c
<1>12. Padded(low, len) = high \o low
  BY <1>10 DEF Padded
<1> QED  BY <1>1, <1>6, <1>7, <1>11, <1>12

-----------------------------------------------------------------------------
(***************************************************************************)
(* A conversion prints what its item means                                 *)
(***************************************************************************)
Item == [conv : STRING \ {"l"}, l : BOOLEAN, word : Int, chars : Seq(STRING)]
Taking == {"d", "u", "x", "s"}
Argument(item) == [word |-> item.word, chars |-> item.chars]

\* A conversion of an int or a long prints what its item means.
LEMMA ConvertedIs ==
    ASSUME NEW item \in Item, item.conv \in Taking
    PROVE  Converted(item.conv, item.l, Argument(item)) = Meant(item)
<1>1. PICK bits, word, chars : /\ bits = (IF item.l THEN LongBits ELSE IntBits)
                               /\ word = item.word /\ chars = item.chars
  OBVIOUS
<1>2. bits \in {IntBits, LongBits} /\ word \in Int
  BY <1>1 DEF Item
<1>3. Argument(item).word = word /\ Argument(item).chars = chars
  BY <1>1 DEF Argument
<1>4. PICK x, u : x = Signed(word, bits) /\ u = Unsigned(word, bits)
  OBVIOUS
<1>5. x \in Int /\ u \in Nat /\ u < Power(2, bits)
  BY <1>2, <1>4, WordFacts
<1>6. CASE item.conv = "d"
  <2>1. Converted(item.conv, item.l, Argument(item)) = print_long(x)
    BY <1>1, <1>3, <1>4, <1>6 DEF Converted
  <2>2. Meant(item) = IF x < 0 THEN <<"-">> \o Numeral(-x, 10) ELSE Numeral(x, 10)
    BY <1>1, <1>4, <1>5, <1>6 DEF Meant
  <2>3. print_long(x) = IF x < 0 THEN <<"-">> \o Numeral(-x, 10) ELSE Numeral(x, 10)
    <3>1. (x < 0 => print_long(x) = <<"-">> \o Numeral(-x, 10)) /\ (x >= 0 => print_long(x) = Numeral(x, 10))
      BY <1>2, <1>4, LongIs
    <3>2. x < 0 \/ (x >= 0 /\ ~ (x < 0))
      BY <1>5
    <3> QED  BY <3>1, <3>2
  <2> QED  BY <2>1, <2>2, <2>3
<1>7. CASE item.conv = "u"
  <2>1. Converted(item.conv, item.l, Argument(item)) = print_ulong(u)
    BY <1>1, <1>3, <1>4, <1>7 DEF Converted
  <2>2. Meant(item) = Numeral(u, 10)
    BY <1>1, <1>4, <1>7 DEF Meant
  <2>3. print_ulong(u) = Numeral(u, 10)
    BY <1>2, <1>5, WordNumeral
  <2> QED  BY <2>1, <2>2, <2>3
<1>8. CASE item.conv = "x"
  <2>1. Converted(item.conv, item.l, Argument(item)) = print_hex(u, bits \div 4)
    BY <1>1, <1>3, <1>4, <1>8 DEF Converted
  <2>2. Meant(item) = <<"0", "x">> \o Padded(Numeral(u, 16), bits \div 4)
    BY <1>1, <1>4, <1>8 DEF Meant
  <2>3. print_hex(u, bits \div 4) = <<"0", "x">> \o Padded(Numeral(u, 16), bits \div 4)
    BY <1>2, <1>5, HexIs
  <2> QED  BY <2>1, <2>2, <2>3
<1>9. CASE item.conv = "s"
  <2>1. Converted(item.conv, item.l, Argument(item)) = chars
    BY <1>1, <1>3, <1>9 DEF Converted
  <2>2. Meant(item) = chars
    BY <1>1, <1>9 DEF Meant
  <2> QED  BY <2>1, <2>2
<1> QED  BY <1>6, <1>7, <1>8, <1>9 DEF Taking

\* The characters that conversions make besides those of their arguments.
Marks == {Digit[i] : i \in 1 .. 16} \cup {"-", "x", "%"}

\* A numeral is made of digits.
LEMMA NumeralType ==
    ASSUME NEW b \in {10, 16}, NEW bits \in {IntBits, LongBits}, NEW n \in Nat, n < Power(2, bits)
    PROVE  Numeral(n, b) \in Seq(Marks)
<1>1. b \in Nat /\ b >= 2
  OBVIOUS
<1>2. LongBits \in Nat /\ LongBits >= 1 /\ bits \in Nat /\ bits <= LongBits
  BY WidthFacts
<1>3. n < Power(b, LongBits)
  <2>1. PICK p, q, r : p = Power(2, bits) /\ q = Power(2, LongBits) /\ r = Power(b, LongBits)
    OBVIOUS
  <2>2. p \in Nat /\ q \in Nat /\ r \in Nat
    BY <1>1, <1>2, <2>1, PowerType
  <2>3. p <= q /\ q <= r
    BY <1>1, <1>2, <2>1, PowerGrows, PowerLeast
  <2> QED  BY <2>1, <2>2, <2>3
<1>4. PICK k \in 1 .. LongBits : Fits(n, b, k)
  BY <1>1, <1>2, <1>3, FitsSome
<1>5. Numeral(n, b) = Digits(n, b, k)
  BY <1>1, <1>4, NumeralIs
<1>6. \A i \in 1 .. k : Digit[((n \div Power(b, k - i)) % b) + 1] \in Marks
  <2> TAKE i \in 1 .. k
  <2>1. PICK p : p = Power(b, k - i)
    OBVIOUS
  <2>2. k - i \in Nat
    BY <1>2
  <2>3. p \in Nat /\ p >= 1
    BY <1>1, <2>1, <2>2, PowerType
  <2>4. PICK q : q = n \div p
    OBVIOUS
  <2>5. q \in Nat
    BY <2>3, <2>4, QuotientOf
  <2>6. (q % b) + 1 \in 1 .. 16
    BY <2>5
  <2> QED  BY <2>1, <2>4, <2>6 DEF Marks
<1>7. Digits(n, b, k) \in [1 .. k -> Marks] /\ k \in Nat
  BY <1>2, <1>6 DEF Digits
<1>8. \A a : a \in [1 .. k -> Marks] => a \in Seq(Marks)
  BY <1>7
<1> QED  BY <1>5, <1>7, <1>8

\* An item means digits, signs and the characters of its argument.
LEMMA MeantType ==
    ASSUME NEW item \in Item, NEW S, Marks \subseteq S, item.chars \in Seq(S)
    PROVE  Meant(item) \in Seq(S)
<1>1. PICK bits, word : bits = (IF item.l THEN LongBits ELSE IntBits) /\ word = item.word
  OBVIOUS
<1>2. bits \in {IntBits, LongBits} /\ word \in Int
  BY <1>1 DEF Item
<1>3. PICK x, u : x = Signed(word, bits) /\ u = Unsigned(word, bits)
  OBVIOUS
<1>4. /\ x \in Int /\ u \in Nat /\ u < Power(2, bits) /\ x < Power(2, bits) /\ -x < Power(2, bits)
  BY <1>2, <1>3, WordFacts
<1>5. \A b \in {10, 16}, n \in Nat : n < Power(2, bits) => Numeral(n, b) \in Seq(S)
  <2> TAKE b \in {10, 16}, n \in Nat
  <2> HAVE n < Power(2, bits)
  <2>1. Numeral(n, b) \in Seq(Marks)
    BY <1>2, NumeralType
  <2> QED  BY <2>1, SeqMonotonic
<1>6. "-" \in S /\ "x" \in S /\ "%" \in S /\ "0" \in S
  <2>1. 1 \in 1 .. 16 /\ Digit[1] = "0"
    BY DEF Digit
  <2> QED  BY <2>1 DEF Marks
<1>7. CASE item.conv \in {"text", "s"}
  BY <1>7 DEF Meant
<1>8. CASE item.conv = "%"
  <2>1. Meant(item) = <<"%">>
    BY <1>8 DEF Meant
  <2> QED  BY <1>6, <2>1
<1>9. CASE item.conv = "d"
  <2>1. Meant(item) = IF x < 0 THEN <<"-">> \o Numeral(-x, 10) ELSE Numeral(x, 10)
    BY <1>1, <1>3, <1>4, <1>9 DEF Meant
  <2>2. CASE x < 0
    <3>1. PICK d : d = Numeral(-x, 10)
      OBVIOUS
    <3>2. -x \in Nat
      BY <1>4, <2>2
    <3>3. d \in Seq(S)
      BY <1>4, <1>5, <3>1, <3>2
    <3>4. <<"-">> \in Seq(S)
      BY <1>6
    <3>5. <<"-">> \o d \in Seq(S)
      BY <3>3, <3>4, ConcatProperties
    <3> QED  BY <2>1, <2>2, <3>1, <3>5
  <2>3. CASE ~ (x < 0)
    <3>1. x \in Nat
      BY <1>4, <2>3
    <3> QED  BY <1>4, <1>5, <2>1, <2>3, <3>1
  <2> QED  BY <2>2, <2>3
<1>10. CASE item.conv = "u"
  <2>1. Meant(item) = Numeral(u, 10)
    BY <1>1, <1>3, <1>10 DEF Meant
  <2> QED  BY <1>4, <1>5, <2>1
<1>11. CASE item.conv = "x"
  <2>1. PICK d, len : d = Numeral(u, 16) /\ len = bits \div 4
    OBVIOUS
  <2>2. Meant(item) = <<"0", "x">> \o Padded(d, len)
    BY <1>1, <1>3, <1>11, <2>1 DEF Meant
  <2>3. d \in Seq(S)
    BY <1>4, <1>5, <2>1
  <2>4. PICK z : z = [i \in 1 .. (len - Len(d)) |-> "0"]
    OBVIOUS
  <2>5. len \in Nat /\ Len(d) \in Nat
    BY <1>2, <2>1, <2>3, WidthFacts
  <2>6. z \in Seq(S)
    <3>1. CASE len - Len(d) >= 0
      <4>1. len - Len(d) \in Nat /\ z \in [1 .. (len - Len(d)) -> S]
        BY <1>6, <2>4, <2>5, <3>1
      <4> QED  BY <4>1
    <3>2. CASE ~ (len - Len(d) >= 0)
      <4>1. 1 .. (len - Len(d)) = 1 .. 0
        BY <2>5, <3>2
      <4>2. z \in [1 .. 0 -> S] /\ 0 \in Nat
        BY <2>4, <4>1
      <4> QED  BY <4>2
    <3> QED  BY <3>1, <3>2
  <2>7. Padded(d, len) = z \o d
    BY <2>4 DEF Padded
  <2>8. PICK p : p = z \o d
    OBVIOUS
  <2>9. p \in Seq(S) /\ <<"0", "x">> \in Seq(S)
    BY <1>6, <2>3, <2>6, <2>8, ConcatProperties
  <2>10. <<"0", "x">> \o p \in Seq(S)
    BY <2>9, ConcatProperties
  <2> QED  BY <2>2, <2>7, <2>8, <2>10
<1>12. CASE item.conv \notin {"text", "s", "%", "d", "u", "x"}
  <2>1. Meant(item) = <<>>
    BY <1>12 DEF Meant
  <2> QED  BY <2>1
<1> QED  BY <1>7, <1>8, <1>9, <1>10, <1>11, <1>12

-----------------------------------------------------------------------------
(***************************************************************************)
(* Pieces put one after the other                                          *)
(***************************************************************************)
LEMMA Associative ==
    ASSUME NEW S, NEW a \in Seq(S), NEW b \in Seq(S), NEW c \in Seq(S)
    PROVE  a \o (b \o c) = (a \o b) \o c
OBVIOUS

IsFlat(f, p, n) == f = [k \in 1 .. n |-> IF k = 1 THEN p[k] ELSE f[k - 1] \o p[k]]

\* The function of the definition of FlattenSeq() exists.
LEMMA FlatExists ==
    ASSUME NEW p, NEW n \in Nat
    PROVE  \E f : IsFlat(f, p, n)
<1> DEFINE T == {m \in Nat : \E f : IsFlat(f, p, m)}
<1>1. 0 \in T
  <2> DEFINE f == [k \in 1 .. 0 |-> p]
  <2>1. \A k \in 1 .. 0 : FALSE
    OBVIOUS
  <2>2. IsFlat(f, p, 0)
    BY <2>1 DEF IsFlat
  <2> QED  BY <2>2
<1>2. ASSUME NEW m \in Nat, m \in T PROVE m + 1 \in T
  <2>1. PICK f : IsFlat(f, p, m)
    BY <1>2
  <2> DEFINE next == IF m = 0 THEN p[m + 1] ELSE f[m] \o p[m + 1]
             g == [k \in 1 .. (m + 1) |-> IF k = m + 1 THEN next ELSE f[k]]
  <2>2. \A k \in 1 .. (m + 1) : k # 1 => k - 1 \in 1 .. m /\ g[k - 1] = f[k - 1]
    OBVIOUS
  <2>3. \A k \in 1 .. m : f[k] = IF k = 1 THEN p[k] ELSE f[k - 1] \o p[k]
    BY <2>1 DEF IsFlat
  <2>4. g[m + 1] = next /\ \A k \in 1 .. m : g[k] = f[k]
    <3> HIDE DEF next
    <3> QED  OBVIOUS
  <2>5. g = [k \in 1 .. (m + 1) |-> g[k]]
    OBVIOUS
  <2> HIDE DEF g
  <2>6. \A k \in 1 .. (m + 1) : g[k] = IF k = 1 THEN p[k] ELSE g[k - 1] \o p[k]
    <3> TAKE k \in 1 .. (m + 1)
    <3>1. CASE k = m + 1
      <4>1. k - 1 = m /\ (k = 1 <=> m = 0)
        BY <3>1
      <4> QED  BY <2>2, <2>4, <3>1, <4>1
    <3>2. CASE k # m + 1
      <4>1. k \in 1 .. m
        BY <3>2
      <4> QED  BY <2>2, <2>3, <2>4, <4>1
    <3> QED  BY <3>1, <3>2
  <2>7. IsFlat(g, p, m + 1)
    BY <2>5, <2>6 DEF IsFlat
  <2>8. m + 1 \in Nat
    OBVIOUS
  <2> QED  BY <2>7, <2>8
<1>3. n \in T
  <2> HIDE DEF T
  <2> QED  BY <1>1, <1>2, SetInduction
<1> QED  BY <1>3

\* f[k] is made of the first k pieces.
Joins(f, p, S) ==
    /\ f \in [0 .. Len(p) -> Seq(S)] /\ f[0] = <<>>
    /\ \A k \in 1 .. Len(p) : f[k] = f[k - 1] \o p[k]

\* FlattenSeq() by a function of the number of pieces.
LEMMA JoinsExists ==
    ASSUME NEW S, NEW p \in Seq(Seq(S))
    PROVE  \E f : Joins(f, p, S) /\ FlattenSeq(p) = f[Len(p)]
<1> DEFINE n == Len(p)
<1>1. n \in Nat /\ \A k \in 1 .. n : p[k] \in Seq(S)
  OBVIOUS
<1>2. \E g : IsFlat(g, p, n) /\ (n # 0 => FlattenSeq(p) = g[n])
  <2> DEFINE g == CHOOSE x : IsFlat(x, p, n)
  <2>1. IsFlat(g, p, n)
    <3> HIDE DEF n
    <3> QED  BY <1>1, FlatExists
  <2>2. n # 0 => FlattenSeq(p) = g[n]
    BY DEF FlattenSeq, IsFlat
  <2> QED  BY <2>1, <2>2
<1>3. PICK g : IsFlat(g, p, n) /\ (n # 0 => FlattenSeq(p) = g[n])
  BY <1>2
<1>4. n = 0 => FlattenSeq(p) = <<>>
  BY DEF FlattenSeq
<1> HIDE DEF n
<1> DEFINE f == [k \in 0 .. n |-> IF k = 0 THEN <<>> ELSE g[k]]
<1>5. f[0] = <<>> /\ \A k \in 1 .. n : f[k] = g[k]
  BY <1>1
<1>6. f = [k \in 0 .. n |-> f[k]]
  OBVIOUS
<1>7. \A k \in 1 .. n : g[k] = IF k = 1 THEN p[k] ELSE g[k - 1] \o p[k]
  BY <1>3 DEF IsFlat
<1> HIDE DEF f
<1>8. \A k \in 1 .. n : f[k] = f[k - 1] \o p[k]
  <2> TAKE k \in 1 .. n
  <2>1. CASE k = 1
    <3>1. f[k] = p[k] /\ f[k - 1] = <<>>
      BY <1>5, <1>7, <2>1
    <3>2. p[k] \in Seq(S)
      BY <1>1
    <3> QED  BY <3>1, <3>2
  <2>2. CASE k # 1
    <3>1. k - 1 \in 1 .. n
      BY <1>1, <2>2
    <3> QED  BY <1>5, <1>7, <2>2, <3>1
  <2> QED  BY <2>1, <2>2
<1> DEFINE T == {k \in Nat : k <= n => f[k] \in Seq(S)}
<1>9. 0 \in T
  <2>1. <<>> \in Seq(S)
    OBVIOUS
  <2> QED  BY <1>5, <2>1
<1>10. ASSUME NEW k \in Nat, k \in T PROVE k + 1 \in T
  <2>1. SUFFICES ASSUME k + 1 <= n PROVE f[k + 1] \in Seq(S)
    OBVIOUS
  <2>2. k + 1 \in 1 .. n /\ (k + 1) - 1 = k
    BY <1>1, <2>1
  <2>3. f[k + 1] = f[k] \o p[k + 1] /\ p[k + 1] \in Seq(S)
    BY <1>1, <1>8, <2>2
  <2>4. f[k] \in Seq(S)
    BY <1>1, <1>10, <2>1
  <2> QED  BY <2>3, <2>4, ConcatProperties
<1>11. \A k \in Nat : k \in T
  <2> HIDE DEF T
  <2> QED  BY <1>9, <1>10, SetInduction
<1>12. f \in [0 .. n -> Seq(S)]
  BY <1>6, <1>11
<1>13. FlattenSeq(p) = f[n]
  <2>1. CASE n = 0
    BY <1>4, <1>5, <2>1
  <2>2. CASE n # 0
    <3>1. n \in 1 .. n
      BY <1>1, <2>2
    <3> QED  BY <1>3, <1>5, <2>2, <3>1
  <2> QED  BY <2>1, <2>2
<1> QED  BY <1>5, <1>8, <1>12, <1>13 DEF Joins, n

\* Where a piece is in the whole.
PieceAt(whole, base, piece) == \A j \in 1 .. Len(piece) : whole[base + j] = piece[j]

LEMMA JoinsPiece ==
    ASSUME NEW S, NEW p \in Seq(Seq(S)), NEW f, Joins(f, p, S), NEW m \in 1 .. Len(p)
    PROVE  /\ Len(f[m - 1]) + Len(p[m]) = Len(f[m]) /\ Len(f[m]) <= Len(f[Len(p)])
           /\ PieceAt(f[Len(p)], Len(f[m - 1]), p[m])
<1> DEFINE n == Len(p)
<1>1. n \in Nat /\ \A k \in 1 .. n : p[k] \in Seq(S)
  OBVIOUS
<1>2. (\A k \in 0 .. n : f[k] \in Seq(S)) /\ \A k \in 1 .. n : f[k] = f[k - 1] \o p[k]
  BY DEF Joins
<1>3. m \in 1 .. n
  OBVIOUS
<1> HIDE DEF n
<1> DEFINE T == {k \in Nat : m <= k /\ k <= n =>
                    Len(f[m]) <= Len(f[k]) /\ \A i \in 1 .. Len(f[m]) : f[k][i] = f[m][i]}
<1>4. 0 \in T
  BY <1>1, <1>3
<1>5. ASSUME NEW k \in Nat, k \in T PROVE k + 1 \in T
  <2>1. SUFFICES ASSUME m <= k + 1, k + 1 <= n
                 PROVE  /\ Len(f[m]) <= Len(f[k + 1])
                        /\ \A i \in 1 .. Len(f[m]) : f[k + 1][i] = f[m][i]
    OBVIOUS
  <2>2. m \in Nat /\ m \in 0 .. n /\ f[m] \in Seq(S)
    BY <1>1, <1>2, <1>3
  <2>3. CASE m = k + 1
    <3>1. Len(f[m]) \in Nat
      BY <2>2
    <3> QED  BY <2>3, <3>1
  <2>4. CASE m <= k
    <3>1. k + 1 \in 1 .. n /\ (k + 1) - 1 = k /\ k \in 0 .. n
      BY <1>1, <2>1
    <3>2. PICK a, b, c : a = f[k] /\ b = p[k + 1] /\ c = f[m]
      OBVIOUS
    <3>3. a \in Seq(S) /\ b \in Seq(S) /\ c \in Seq(S) /\ f[k + 1] = a \o b
      BY <1>1, <1>2, <2>2, <3>1, <3>2
    <3>4. Len(c) <= Len(a) /\ \A i \in 1 .. Len(c) : a[i] = c[i]
      BY <1>5, <2>1, <2>4, <3>1, <3>2
    <3>5. Len(c) <= Len(a \o b) /\ \A i \in 1 .. Len(c) : (a \o b)[i] = c[i]
      <4>1. Len(a) \in Nat /\ Len(b) \in Nat /\ Len(c) \in Nat
        BY <3>3
      <4>2. Len(a \o b) = Len(a) + Len(b)
        BY <3>3, ConcatProperties
      <4>3. \A i \in 1 .. Len(c) : (a \o b)[i] = a[i]
        <5> TAKE i \in 1 .. Len(c)
        <5>1. i \in 1 .. (Len(a) + Len(b)) /\ i <= Len(a)
          BY <3>4, <4>1
        <5> QED  BY <3>3, <5>1, ConcatProperties
      <4> QED  BY <3>4, <4>1, <4>2, <4>3
    <3> QED  BY <3>2, <3>3, <3>5
  <2> QED  BY <2>1, <2>2, <2>3, <2>4
<1>6. n \in T
  <2> HIDE DEF T
  <2> QED  BY <1>1, <1>4, <1>5, SetInduction
<1>7. PICK a, b, c, all : a = f[m - 1] /\ b = p[m] /\ c = f[m] /\ all = f[n]
  OBVIOUS
<1>8. a \in Seq(S) /\ b \in Seq(S) /\ c = a \o b
  <2>1. m - 1 \in 0 .. n
    BY <1>1, <1>3
  <2> QED  BY <1>1, <1>2, <1>3, <1>7, <2>1
<1>9. Len(c) <= Len(all) /\ \A i \in 1 .. Len(c) : all[i] = c[i]
  BY <1>1, <1>3, <1>6, <1>7
<1>10. Len(a) \in Nat /\ Len(b) \in Nat /\ Len(c) = Len(a) + Len(b)
  BY <1>8, ConcatProperties
<1>11. \A j \in 1 .. Len(b) : all[Len(a) + j] = b[j]
  <2> TAKE j \in 1 .. Len(b)
  <2>1. Len(a) + j \in 1 .. Len(c) /\ Len(a) + j \in 1 .. (Len(a) + Len(b))
        /\ ~ (Len(a) + j <= Len(a)) /\ (Len(a) + j) - Len(a) = j
    BY <1>10
  <2>2. c[Len(a) + j] = b[j]
    BY <1>8, <2>1, ConcatProperties
  <2> QED  BY <1>9, <2>1, <2>2
<1> QED  BY <1>7, <1>9, <1>10, <1>11 DEF n, PieceAt

\* What follows a piece.
Splits(a, b, q, r) == r = b \o q /\ a \o r = (a \o b) \o q

LEMMA Cut ==
    ASSUME NEW S, NEW a \in Seq(S), NEW b \in Seq(S), NEW r \in Seq(S),
           Len(a) + Len(b) <= Len(a \o r), PieceAt(a \o r, Len(a), b)
    PROVE  \E q \in Seq(S) : Splits(a, b, q, r)
<1> DEFINE q == SubSeq(r, Len(b) + 1, Len(r))
<1>1. Len(a) \in Nat /\ Len(b) \in Nat /\ Len(r) \in Nat /\ Len(a \o r) = Len(a) + Len(r)
  BY ConcatProperties
<1>2. Len(b) <= Len(r)
  BY <1>1
<1>3. \A j \in 1 .. Len(b) : r[j] = b[j]
  <2> TAKE j \in 1 .. Len(b)
  <2>1. Len(a) + j \in 1 .. (Len(a) + Len(r)) /\ ~ (Len(a) + j <= Len(a)) /\ (Len(a) + j) - Len(a) = j
    BY <1>1, <1>2
  <2>2. (a \o r)[Len(a) + j] = r[j]
    BY <2>1, ConcatProperties
  <2> QED  BY <2>2 DEF PieceAt
<1>4. q \in Seq(S) /\ Len(q) = Len(r) - Len(b) /\ \A j \in 1 .. Len(q) : q[j] = r[Len(b) + j]
  BY <1>1, <1>2
<1> HIDE DEF q
<1>5. b \o q \in Seq(S) /\ Len(b \o q) = Len(r)
  BY <1>1, <1>4, ConcatProperties
<1>6. \A i \in 1 .. Len(r) : (b \o q)[i] = r[i]
  <2> TAKE i \in 1 .. Len(r)
  <2>1. i \in 1 .. (Len(b) + Len(q))
    BY <1>1, <1>4
  <2>2. (b \o q)[i] = IF i <= Len(b) THEN b[i] ELSE q[i - Len(b)]
    BY <1>4, <2>1, ConcatProperties
  <2>3. CASE i <= Len(b)
    BY <1>1, <1>3, <2>2, <2>3
  <2>4. CASE ~ (i <= Len(b))
    <3>1. i - Len(b) \in 1 .. Len(q) /\ Len(b) + (i - Len(b)) = i
      BY <1>1, <1>4, <2>4
    <3> QED  BY <1>4, <2>2, <2>4, <3>1
  <2> QED  BY <2>3, <2>4
<1>7. r = b \o q
  BY <1>5, <1>6, SeqEqual
<1>8. a \o (b \o q) = (a \o b) \o q
  <2>1. q \in Seq(S)
    BY <1>4
  <2> QED  BY <2>1, Associative
<1> QED  BY <1>4, <1>7, <1>8 DEF Splits

-----------------------------------------------------------------------------
(***************************************************************************)
(* The loop over the format                                                *)
(***************************************************************************)
\* What the fields specifier and l hold.
On  == TRUE
Off == FALSE
State(specifier, l, args, out) == [specifier |-> specifier, l |-> l, args |-> args, out |-> out]

Opened(s) == [s EXCEPT !.specifier = TRUE, !.l = FALSE]
Lengthened(s) == [s EXCEPT !.l = TRUE]
Closed(s) == [s EXCEPT !.specifier = FALSE]
Emitted(s, x) == [s EXCEPT !.out = x]
Finished(s, x) == [s EXCEPT !.specifier = FALSE, !.out = x]

\* What the assignments of one round of the loop make of its state.
LEMMA ScanSets ==
    ASSUME NEW p, NEW l, NEW a, NEW o, NEW s, s = State(p, l, a, o), NEW x
    PROVE  /\ s.specifier = p /\ s.l = l /\ s.args = a /\ s.out = o
           /\ Opened(s) = State(On, Off, a, o)
           /\ Lengthened(s) = State(p, On, a, o)
           /\ Closed(s) = State(Off, l, a, o)
           /\ Emitted(s, x) = State(p, l, a, x)
           /\ Finished(s, x) = State(Off, l, a, x)
<1>1. s = [specifier |-> p, l |-> l, args |-> a, out |-> o]
  BY DEF State
<1>2. s.specifier = p /\ s.l = l /\ s.args = a /\ s.out = o
  BY <1>1
<1> DEFINE V == {p, l, a, o, x, On, Off}
           R == [specifier : V, l : V, args : V, out : V]
<1>3. p \in V /\ l \in V /\ a \in V /\ o \in V /\ x \in V /\ On \in V /\ Off \in V
  OBVIOUS
<1> HIDE DEF V
<1>4. s \in R
  BY <1>1, <1>3
<1>5. \A q \in R : q = State(q.specifier, q.l, q.args, q.out)
  BY DEF State
<1>6. Opened(s) = State(On, Off, a, o)
  <2> DEFINE q == [s EXCEPT !.specifier = TRUE, !.l = FALSE]
  <2>1. q \in R /\ q.specifier = On /\ q.l = Off /\ q.args = a /\ q.out = o
    BY <1>2, <1>3, <1>4 DEF On, Off
  <2> HIDE DEF q
  <2>2. q = State(q.specifier, q.l, q.args, q.out)
    BY <1>5, <2>1
  <2> QED  BY <2>1, <2>2 DEF q, Opened
<1>7. Lengthened(s) = State(p, On, a, o)
  <2> DEFINE q == [s EXCEPT !.l = TRUE]
  <2>1. q \in R /\ q.specifier = p /\ q.l = On /\ q.args = a /\ q.out = o
    BY <1>2, <1>3, <1>4 DEF On, Off
  <2> HIDE DEF q
  <2>2. q = State(q.specifier, q.l, q.args, q.out)
    BY <1>5, <2>1
  <2> QED  BY <2>1, <2>2 DEF q, Lengthened
<1>8. Closed(s) = State(Off, l, a, o)
  <2> DEFINE q == [s EXCEPT !.specifier = FALSE]
  <2>1. q \in R /\ q.specifier = Off /\ q.l = l /\ q.args = a /\ q.out = o
    BY <1>2, <1>3, <1>4 DEF On, Off
  <2> HIDE DEF q
  <2>2. q = State(q.specifier, q.l, q.args, q.out)
    BY <1>5, <2>1
  <2> QED  BY <2>1, <2>2 DEF q, Closed
<1>9. Emitted(s, x) = State(p, l, a, x)
  <2> DEFINE q == [s EXCEPT !.out = x]
  <2>1. q \in R /\ q.specifier = p /\ q.l = l /\ q.args = a /\ q.out = x
    BY <1>2, <1>3, <1>4 DEF On, Off
  <2> HIDE DEF q
  <2>2. q = State(q.specifier, q.l, q.args, q.out)
    BY <1>5, <2>1
  <2> QED  BY <2>1, <2>2 DEF q, Emitted
<1>10. Finished(s, x) = State(Off, l, a, x)
  <2> DEFINE q == [s EXCEPT !.specifier = FALSE, !.out = x]
  <2>1. q \in R /\ q.specifier = Off /\ q.l = l /\ q.args = a /\ q.out = x
    BY <1>2, <1>3, <1>4 DEF On, Off
  <2> HIDE DEF q
  <2>2. q = State(q.specifier, q.l, q.args, q.out)
    BY <1>5, <2>1
  <2> QED  BY <2>1, <2>2 DEF q, Finished
<1> QED  BY <1>2, <1>6, <1>7, <1>8, <1>9, <1>10

\* One round of the loop, by the character of the format.
LEMMA ScanIs ==
    ASSUME NEW l, NEW a, NEW o, NEW c
    PROVE  /\ c = "%" => Scan(State(Off, l, a, o), c) = State(On, Off, a, o)
           /\ c # "%" => Scan(State(Off, l, a, o), c) = State(Off, l, a, Append(o, c))
           /\ c = "l" => Scan(State(On, l, a, o), c) = State(On, On, a, o)
           /\ c = "%" => Scan(State(On, l, a, o), c) = State(Off, l, a, Append(o, c))
           /\ c \in Taking => Scan(State(On, l, a, o), c)
                                 = State(Off, l, Tail(a), o \o Converted(c, l, Head(a)))
           /\ c \notin Taking \cup {"l", "%"} => Scan(State(On, l, a, o), c) = State(Off, l, a, o)
<1>1. PICK f, t, n : f = State(Off, l, a, o) /\ t = State(On, l, a, o) /\ n = Append(o, c)
  OBVIOUS
<1>2. /\ ~ f.specifier /\ f.out = o
      /\ Opened(f) = State(On, Off, a, o)
      /\ Emitted(f, n) = State(Off, l, a, n)
  <2>1. PICK p : p = Off /\ ~ Off
    BY DEF Off
  <2>2. f = State(p, l, a, o)
    BY <1>1, <2>1
  <2>3. /\ f.specifier = p /\ f.out = o
        /\ Opened(f) = State(On, Off, a, o)
        /\ Emitted(f, n) = State(p, l, a, n)
    BY <2>2, ScanSets
  <2> QED  BY <2>1, <2>3
<1>3. /\ t.specifier /\ t.out = o /\ t.l = l /\ t.args = a
      /\ Lengthened(t) = State(On, On, a, o)
      /\ Closed(t) = State(Off, l, a, o)
      /\ Finished(t, n) = State(Off, l, a, n)
  <2>1. PICK p : p = On /\ On
    BY DEF On
  <2>2. t = State(p, l, a, o)
    BY <1>1, <2>1
  <2>3. /\ t.specifier = p /\ t.out = o /\ t.l = l /\ t.args = a
        /\ Lengthened(t) = State(p, On, a, o)
        /\ Closed(t) = State(Off, l, a, o)
        /\ Finished(t, n) = State(Off, l, a, n)
    BY <2>2, ScanSets
  <2> QED  BY <2>1, <2>3
<1>4. c = "%" => Scan(f, c) = State(On, Off, a, o)
  BY <1>2 DEF Scan, Opened
<1>5. c # "%" => Scan(f, c) = State(Off, l, a, n)
  <2>1. c # "%" => Scan(f, c) = [f EXCEPT !.out = Append(@, c)]
    BY <1>2 DEF Scan
  <2>2. [f EXCEPT !.out = Append(@, c)] = Emitted(f, n)
    BY <1>1, <1>2 DEF Emitted
  <2> QED  BY <1>2, <2>1, <2>2
<1>6. c = "l" => Scan(t, c) = State(On, On, a, o)
  BY <1>3 DEF Scan, Lengthened
<1>7. c = "%" => Scan(t, c) = State(Off, l, a, n)
  <2>1. c = "%" => Scan(t, c) = [t EXCEPT !.specifier = FALSE, !.out = Append(@, c)]
    BY <1>3 DEF Scan
  <2>2. [t EXCEPT !.specifier = FALSE, !.out = Append(@, c)] = Finished(t, n)
    BY <1>1, <1>3 DEF Finished
  <2> QED  BY <1>3, <2>1, <2>2
<1>8. c \in Taking => Scan(t, c) = State(Off, l, Tail(a), o \o Converted(c, l, Head(a)))
  BY <1>3 DEF Scan, State, Taking, Off
<1>9. c \notin Taking \cup {"l", "%"} => Scan(t, c) = State(Off, l, a, o)
  BY <1>3 DEF Scan, Taking, Closed
<1> QED  BY <1>1, <1>4, <1>5, <1>6, <1>7, <1>8, <1>9

\* f takes down the state before each character of the format.
IsScan(f, fmt, args, n) ==
    f = [k \in 0 .. n |-> IF k = 0 THEN [specifier |-> FALSE, l |-> FALSE, args |-> args, out |-> <<>>]
                                   ELSE Scan(f[k - 1], fmt[k])]

\* printk() by a function of the characters read.
LEMMA ScanExists ==
    ASSUME NEW fmt, NEW args, NEW n \in Nat
    PROVE  \E f : IsScan(f, fmt, args, n)
<1> DEFINE T == {m \in Nat : \E f : IsScan(f, fmt, args, m)}
           start == [specifier |-> FALSE, l |-> FALSE, args |-> args, out |-> <<>>]
<1>1. 0 \in T
  <2> DEFINE f == [k \in 0 .. 0 |-> start]
  <2>1. \A k \in 0 .. 0 : k = 0
    OBVIOUS
  <2>2. IsScan(f, fmt, args, 0)
    BY <2>1 DEF IsScan
  <2> QED  BY <2>2
<1>2. ASSUME NEW m \in Nat, m \in T PROVE m + 1 \in T
  <2>1. PICK f : IsScan(f, fmt, args, m)
    BY <1>2
  <2> DEFINE g == [k \in 0 .. (m + 1) |-> IF k = m + 1 THEN Scan(f[m], fmt[m + 1]) ELSE f[k]]
  <2>2. \A k \in 0 .. (m + 1) : k # 0 => k - 1 \in 0 .. m /\ g[k - 1] = f[k - 1]
    OBVIOUS
  <2>3. \A k \in 0 .. m : f[k] = IF k = 0 THEN start ELSE Scan(f[k - 1], fmt[k])
    BY <2>1 DEF IsScan
  <2>4. m + 1 \in 0 .. (m + 1) /\ g[m + 1] = Scan(f[m], fmt[m + 1]) /\ \A k \in 0 .. m : g[k] = f[k]
    OBVIOUS
  <2>5. g = [k \in 0 .. (m + 1) |-> g[k]]
    OBVIOUS
  <2> HIDE DEF g, start
  <2>6. \A k \in 0 .. (m + 1) : g[k] = IF k = 0 THEN start ELSE Scan(g[k - 1], fmt[k])
    <3> TAKE k \in 0 .. (m + 1)
    <3>1. CASE k = m + 1
      <4>1. k # 0 /\ k - 1 = m
        BY <3>1
      <4> QED  BY <2>2, <2>4, <3>1, <4>1
    <3>2. CASE k # m + 1
      <4>1. k \in 0 .. m
        BY <3>2
      <4> QED  BY <2>2, <2>3, <2>4, <4>1
    <3> QED  BY <3>1, <3>2
  <2>7. IsScan(g, fmt, args, m + 1)
    BY <2>5, <2>6 DEF IsScan, start
  <2>8. m + 1 \in Nat
    OBVIOUS
  <2> QED  BY <2>7, <2>8
<1>3. n \in T
  <2> HIDE DEF T
  <2> QED  BY <1>1, <1>2, SetInduction
<1> QED  BY <1>3

LEMMA PrintkIs ==
    ASSUME NEW fmt, NEW args, Len(fmt) \in Nat
    PROVE  \E f : IsScan(f, fmt, args, Len(fmt)) /\ printk(fmt, args) = f[Len(fmt)].out
<1> DEFINE n == Len(fmt)
           f == CHOOSE x : IsScan(x, fmt, args, n)
<1>1. IsScan(f, fmt, args, n)
  <2> HIDE DEF n
  <2> QED  BY ScanExists DEF n
<1>2. printk(fmt, args) = f[n].out
  BY DEF printk, IsScan
<1> QED  BY <1>1, <1>2

\* One more character of a text.
LEMMA Part ==
    ASSUME NEW S, NEW o \in Seq(S), NEW chars \in Seq(S), NEW j \in Nat, j + 1 <= Len(chars)
    PROVE  Append(o \o SubSeq(chars, 1, j), chars[j + 1]) = o \o SubSeq(chars, 1, j + 1)
<1>1. PICK p, q, c : p = SubSeq(chars, 1, j) /\ q = SubSeq(chars, 1, j + 1) /\ c = chars[j + 1]
  OBVIOUS
<1>2. c \in S /\ p \in Seq(S) /\ q \in Seq(S) /\ Len(p) = j /\ Len(q) = j + 1
      /\ (\A i \in 1 .. j : q[i] = p[i]) /\ q[j + 1] = c
  BY <1>1
<1>3. q = Append(p, c)
  BY <1>2
<1>4. Append(o \o p, c) = o \o Append(p, c)
  <2> HIDE <1>1
  <2>1. <<c>> \in Seq(S)
    BY <1>2
  <2>2. Append(o \o p, c) = (o \o p) \o <<c>> /\ Append(p, c) = p \o <<c>>
    BY <1>2, AppendIsConcat, ConcatProperties
  <2> QED  BY <1>2, <2>1, <2>2, Associative
<1> QED  BY <1>1, <1>3, <1>4

LEMMA PartEnds ==
    ASSUME NEW S, NEW o \in Seq(S), NEW chars \in Seq(S)
    PROVE  o \o SubSeq(chars, 1, 0) = o /\ SubSeq(chars, 1, Len(chars)) = chars
<1>1. SubSeq(chars, 1, 0) = <<>>
  OBVIOUS
<1>2. SubSeq(chars, 1, Len(chars)) = chars
  OBVIOUS
<1> QED  BY <1>1, <1>2

\* Strings; that a literal is one is unknown to the provers.
Chars == STRING \cup Marks \cup {"%", "l"}

\* The state before the next character of the format.
LEMMA ScanStep ==
    ASSUME NEW f, NEW fmt, NEW args, NEW n \in Nat, IsScan(f, fmt, args, n), NEW k \in Nat, k < n
    PROVE  f[0] = State(Off, Off, args, <<>>) /\ f[k + 1] = Scan(f[k], fmt[k + 1])
<1>1. \A i \in 0 .. n : f[i] = IF i = 0 THEN State(Off, Off, args, <<>>) ELSE Scan(f[i - 1], fmt[i])
  BY DEF IsScan, State, Off
<1>2. 0 \in 0 .. n /\ k + 1 \in 0 .. n /\ k + 1 # 0 /\ (k + 1) - 1 = k
  OBVIOUS
<1> QED  BY <1>1, <1>2

\* Text without a percent sign.
Plain(chars) == \A j \in 1 .. Len(chars) : chars[j] # "%"

\* Literal text goes through as it is.
LEMMA LiteralScanned ==
    ASSUME NEW f, NEW fmt, NEW args, NEW n \in Nat, IsScan(f, fmt, args, n),
           NEW chars \in Seq(Chars), NEW base \in Nat, base + Len(chars) <= n,
           PieceAt(fmt, base, chars), Plain(chars),
           NEW l, NEW a, NEW o \in Seq(Chars), f[base] = State(Off, l, a, o)
    PROVE  f[base + Len(chars)] = State(Off, l, a, o \o chars)
<1> DEFINE m == Len(chars)
           T == {j \in Nat : j <= m => f[base + j] = State(Off, l, a, o \o SubSeq(chars, 1, j))}
<1>1. m \in Nat
  OBVIOUS
<1>2. o \o SubSeq(chars, 1, 0) = o /\ SubSeq(chars, 1, m) = chars
  BY PartEnds
<1>3. 0 \in T
  <2>1. base + 0 = base
    OBVIOUS
  <2> QED  BY <1>2, <2>1
<1>4. ASSUME NEW j \in Nat, j \in T PROVE j + 1 \in T
  <2>1. SUFFICES ASSUME j + 1 <= m
                 PROVE  f[base + (j + 1)] = State(Off, l, a, o \o SubSeq(chars, 1, j + 1))
    OBVIOUS
  <2>2. PICK p, c : p = o \o SubSeq(chars, 1, j) /\ c = chars[j + 1]
    OBVIOUS
  <2>3. j <= m /\ j + 1 \in 1 .. m /\ base + j \in Nat /\ base + j < n /\ (base + j) + 1 = base + (j + 1)
    BY <1>1, <2>1
  <2>4. f[base + j] = State(Off, l, a, p) /\ fmt[base + (j + 1)] = c /\ c # "%"
    BY <1>4, <2>2, <2>3 DEF PieceAt, Plain
  <2>5. f[base + (j + 1)] = Scan(f[base + j], fmt[base + (j + 1)])
    BY <2>3, ScanStep
  <2>6. f[base + (j + 1)] = State(Off, l, a, Append(p, c))
    BY <2>4, <2>5, ScanIs
  <2>7. Append(p, c) = o \o SubSeq(chars, 1, j + 1)
    BY <2>1, <2>2, Part
  <2> QED  BY <2>6, <2>7
<1>5. \A j \in Nat : j \in T
  <2> HIDE DEF T
  <2> QED  BY <1>3, <1>4, SetInduction
<1>6. m \in T
  BY <1>1, <1>5
<1>7. f[base + m] = State(Off, l, a, o \o SubSeq(chars, 1, m))
  BY <1>1, <1>6
<1> QED  BY <1>2, <1>7

LEMMA ItemChars ==
    ASSUME NEW item \in Item
    PROVE  item.conv \in Chars /\ item.chars \in Seq(Chars)
<1>1. STRING \subseteq Chars
  BY DEF Chars
<1>2. item.conv \in STRING /\ item.chars \in Seq(STRING)
  BY DEF Item
<1>3. Seq(STRING) \subseteq Seq(Chars)
  BY <1>1, SeqMonotonic
<1> QED  BY <1>1, <1>2, <1>3

\* The state before the first character of an item, and the one after its last.
Before(f, fmt, args, n, base, item, l, q, o, A) ==
    /\ item \in Item /\ (item.conv = "text" => "%" \notin ToSet(item.chars))
    /\ n \in Nat /\ IsScan(f, fmt, args, n)
    /\ base \in Nat /\ base + Len(Spelled(item)) <= n /\ PieceAt(fmt, base, Spelled(item))
    /\ o \in Seq(Chars) /\ Argument(item) \in A /\ q \in Seq(A)
    /\ f[base] = State(Off, l, Passed(item) \o q, o)

After(f, base, item, q, o) == \E x : f[base + Len(Spelled(item))] = State(Off, x, q, o \o Meant(item))

\* An item goes through as what it means, and takes its argument.
LEMMA ItemScanned ==
    ASSUME NEW f, NEW fmt, NEW args, NEW n, NEW base, NEW item, NEW l, NEW q, NEW o, NEW A,
           Before(f, fmt, args, n, base, item, l, q, o, A)
    PROVE  After(f, base, item, q, o)
<1> SUFFICES ASSUME item \in Item, item.conv = "text" => "%" \notin ToSet(item.chars),
                    n \in Nat, IsScan(f, fmt, args, n), base \in Nat,
                    base + Len(Spelled(item)) <= n, PieceAt(fmt, base, Spelled(item)),
                    o \in Seq(Chars), Argument(item) \in A, q \in Seq(A),
                    f[base] = State(Off, l, Passed(item) \o q, o)
             PROVE  \E x : f[base + Len(Spelled(item))] = State(Off, x, q, o \o Meant(item))
  BY DEF Before, After
<1>1. CASE item.conv = "text"
  <2>1. PICK chars : chars = item.chars
    OBVIOUS
  <2>2. chars \in Seq(Chars)
    BY <2>1, ItemChars
  <2>3. Spelled(item) = chars /\ Meant(item) = chars
    BY <1>1, <2>1 DEF Spelled, Meant
  <2>4. Passed(item) = <<>>
    BY <1>1 DEF Passed
  <2>5. <<>> \o q = q
    OBVIOUS
  <2>6. Plain(chars)
    BY <1>1, <2>1, <2>2 DEF ToSet, Plain
  <2>7. f[base] = State(Off, l, q, o)
    BY <2>4, <2>5
  <2>8. base + Len(chars) <= n /\ PieceAt(fmt, base, chars)
    BY <2>3
  <2>9. f[base + Len(chars)] = State(Off, l, q, o \o chars)
    BY <2>2, <2>6, <2>7, <2>8, LiteralScanned
  <2> QED  BY <2>3, <2>9
<1>2. CASE item.conv # "text"
  <2>1. PICK c, x, p : c = item.conv /\ x = item.l /\ p = Passed(item) \o q
    OBVIOUS
  <2>2. c \in Chars /\ c # "text" /\ c # "l" /\ x \in {On, Off}
    BY <1>2, <2>1 DEF Item, On, Off, Chars
  <2>3. /\ x = On => Spelled(item) = <<"%", "l", c>>
        /\ x = Off => Spelled(item) = <<"%", c>>
    BY <1>2, <2>1 DEF Spelled, On, Off
  <2>4. \E b \in Nat : /\ b < n /\ b + 1 = base + Len(Spelled(item)) /\ fmt[b + 1] = c
                       /\ f[b] = State(On, x, p, o)
    <3>1. base < n /\ base + 1 \in Nat /\ fmt[base + 1] = "%"
      <4>1. CASE x = On
        <5>1. Len(Spelled(item)) = 3 /\ Spelled(item)[1] = "%" /\ 1 \in 1 .. 3
          BY <2>3, <4>1
        <5> QED  BY <5>1 DEF PieceAt
      <4>2. CASE x = Off
        <5>1. Len(Spelled(item)) = 2 /\ Spelled(item)[1] = "%" /\ 1 \in 1 .. 2
          BY <2>3, <4>2
        <5> QED  BY <5>1 DEF PieceAt
      <4> QED  BY <2>2, <4>1, <4>2
    <3>2. f[base + 1] = Scan(f[base], fmt[base + 1])
      BY <3>1, ScanStep
    <3>3. f[base + 1] = State(On, Off, p, o)
      BY <2>1, <3>1, <3>2, ScanIs
    <3>4. CASE x = Off
      <4>1. Len(Spelled(item)) = 2 /\ Spelled(item)[2] = c /\ 2 \in 1 .. 2
        BY <2>3, <3>4
      <4>2. fmt[base + 2] = c /\ base + 1 < n /\ (base + 1) + 1 = base + 2
        BY <4>1 DEF PieceAt
      <4> QED  BY <3>1, <3>3, <3>4, <4>1, <4>2
    <3>5. CASE x = On
      <4>1. /\ Len(Spelled(item)) = 3 /\ Spelled(item)[2] = "l" /\ Spelled(item)[3] = c
            /\ 2 \in 1 .. 3 /\ 3 \in 1 .. 3
        BY <2>3, <3>5
      <4>2. /\ fmt[base + 2] = "l" /\ fmt[base + 3] = c /\ base + 1 < n /\ base + 2 < n
            /\ base + 2 \in Nat /\ (base + 1) + 1 = base + 2 /\ (base + 2) + 1 = base + 3
        BY <4>1 DEF PieceAt
      <4>3. f[base + 2] = Scan(f[base + 1], fmt[base + 2])
        BY <3>1, <4>2, ScanStep
      <4>4. f[base + 2] = State(On, On, p, o)
        BY <3>3, <4>2, <4>3, ScanIs
      <4> QED  BY <3>5, <4>1, <4>2, <4>4
    <3> QED  BY <2>2, <3>4, <3>5
  <2>5. PICK b \in Nat : /\ b < n /\ b + 1 = base + Len(Spelled(item)) /\ fmt[b + 1] = c
                         /\ f[b] = State(On, x, p, o)
    BY <2>4
  <2>6. f[b + 1] = Scan(State(On, x, p, o), c)
    BY <2>5, ScanStep
  <2>7. CASE c \in Taking
    <3>1. PICK arg : arg = Argument(item)
      OBVIOUS
    <3>2. Passed(item) = <<arg>>
      BY <2>1, <2>7, <3>1 DEF Passed, Taking, Argument
    <3>3. p = <<arg>> \o q /\ arg \in A
      BY <2>1, <3>1, <3>2
    <3>4. Head(p) = arg /\ Tail(p) = q
      BY <3>3
    <3>5. Converted(c, x, arg) = Meant(item)
      BY <2>1, <2>7, <3>1, ConvertedIs
    <3>6. f[b + 1] = State(Off, x, Tail(p), o \o Converted(c, x, Head(p)))
      BY <2>6, <2>7, ScanIs
    <3> QED  BY <2>5, <3>4, <3>5, <3>6
  <2>8. CASE c \notin Taking
    <3>1. Passed(item) = <<>>
      BY <2>1, <2>8 DEF Passed, Taking
    <3>2. p = q
      <4>1. <<>> \o q = q
        OBVIOUS
      <4> QED  BY <2>1, <3>1, <4>1
    <3>3. CASE c = "%"
      <4>1. Meant(item) = <<"%">>
        BY <2>1, <3>3 DEF Meant
      <4>2. Append(o, c) = o \o <<"%">>
        BY <2>2, <3>3, AppendIsConcat
      <4>3. f[b + 1] = State(Off, x, p, Append(o, c))
        BY <2>6, <3>3, ScanIs
      <4> QED  BY <2>5, <3>2, <4>1, <4>2, <4>3
    <3>4. CASE c # "%"
      <4>1. Meant(item) = <<>>
        BY <2>1, <2>2, <2>8, <3>4 DEF Meant, Taking
      <4>2. o \o <<>> = o
        OBVIOUS
      <4>3. c \notin Taking \cup {"l", "%"}
        BY <2>2, <2>8, <3>4
      <4>4. f[b + 1] = State(Off, x, p, o)
        BY <2>6, <4>3, ScanIs
      <4> QED  BY <2>5, <3>2, <4>1, <4>2, <4>4
    <3> QED  BY <3>3, <3>4
  <2> QED  BY <2>7, <2>8
<1> QED  BY <1>1, <1>2

LEMMA SpelledType ==
    ASSUME NEW item \in Item
    PROVE  Spelled(item) \in Seq(Chars)
<1>1. PICK c : c = item.conv
  OBVIOUS
<1>2. c \in Chars /\ item.chars \in Seq(Chars)
  BY <1>1, ItemChars
<1>3. <<"%", "l", c>> \in Seq(Chars) /\ <<"%", c>> \in Seq(Chars)
  <2>1. "%" \in Chars /\ "l" \in Chars
    BY DEF Chars
  <2> QED  BY <1>2, <2>1
<1>4. Spelled(item) \in {item.chars, <<"%", "l", c>>, <<"%", c>>}
  BY <1>1 DEF Spelled
<1> QED  BY <1>2, <1>3, <1>4

Args == [word : Int, chars : Seq(Chars)]

LEMMA PassedType ==
    ASSUME NEW item \in Item
    PROVE  Argument(item) \in Args /\ Passed(item) \in Seq(Args)
<1>1. Argument(item) \in Args
  BY ItemChars DEF Argument, Args, Item
<1>2. PICK a : a = Argument(item)
  OBVIOUS
<1>3. <<a>> \in Seq(Args) /\ <<>> \in Seq(Args)
  BY <1>1, <1>2
<1>4. Passed(item) \in {<<a>>, <<>>}
  BY <1>2 DEF Passed, Argument
<1> QED  BY <1>1, <1>3, <1>4

LEMMA PiecesType ==
    ASSUME NEW S, NEW n \in Nat, NEW p, p = [i \in 1 .. n |-> p[i]], \A i \in 1 .. n : p[i] \in Seq(S)
    PROVE  p \in Seq(Seq(S)) /\ Len(p) = n
<1>1. p \in [1 .. n -> Seq(S)]
  OBVIOUS
<1> QED  BY <1>1

\* The items of a request are of the right type, and so is what they mean.
LEMMA ProperItems ==
    ASSUME NEW items, Proper(items)
    PROVE  /\ Len(items) \in Nat
           /\ \A i \in 1 .. Len(items) :
                 items[i] \in Item /\ (items[i].conv = "text" => "%" \notin ToSet(items[i].chars))
<1>1. items \in Seq(Item)
  BY DEF Proper, Item
<1> QED  BY <1>1 DEF Proper

\* A request means marks and characters of its items.
LEMMA MeaningType ==
    ASSUME NEW items, Proper(items), NEW S, Marks \subseteq S,
           \A i \in 1 .. Len(items) : items[i].chars \in Seq(S)
    PROVE  Meaning(items) \in Seq(S)
<1>1. PICK n, p : n = Len(items) /\ p = [i \in 1 .. n |-> Meant(items[i])]
  OBVIOUS
<1>2. n \in Nat /\ \A i \in 1 .. n : items[i] \in Item
  BY <1>1, ProperItems
<1>3. p = [i \in 1 .. n |-> p[i]] /\ \A i \in 1 .. n : p[i] = Meant(items[i])
  BY <1>1
<1>4. \A i \in 1 .. n : p[i] \in Seq(S)
  BY <1>1, <1>2, <1>3, MeantType
<1>5. p \in Seq(Seq(S)) /\ Len(p) = n
  BY <1>2, <1>3, <1>4, PiecesType
<1>6. PICK f : Joins(f, p, S) /\ FlattenSeq(p) = f[Len(p)]
  BY <1>5, JoinsExists
<1>7. f[n] \in Seq(S)
  BY <1>2, <1>5, <1>6 DEF Joins
<1>8. Meaning(items) = FlattenSeq(p)
  BY <1>1 DEF Meaning
<1> QED  BY <1>5, <1>6, <1>7, <1>8

LEMMA ScanStart ==
    ASSUME NEW f, NEW fmt, NEW args, NEW n \in Nat, IsScan(f, fmt, args, n)
    PROVE  f[0] = State(Off, Off, args, <<>>)
<1>1. \A i \in 0 .. n : f[i] = IF i = 0 THEN State(Off, Off, args, <<>>) ELSE Scan(f[i - 1], fmt[i])
  BY DEF IsScan, State, Off
<1>2. 0 \in 0 .. n
  OBVIOUS
<1> QED  BY <1>1, <1>2

\* printk() prints what its format and its arguments mean.
THEOREM FormatPrinted ==
    ASSUME NEW items, Proper(items)
    PROVE  printk(Format(items), Arguments(items)) = Meaning(items)
<1>1. PICK n, sp, pa, me : /\ n = Len(items) /\ sp = [i \in 1 .. n |-> Spelled(items[i])]
                           /\ pa = [i \in 1 .. n |-> Passed(items[i])]
                           /\ me = [i \in 1 .. n |-> Meant(items[i])]
  OBVIOUS
<1>2. n \in Nat /\ \A i \in 1 .. n : /\ items[i] \in Item
                                     /\ items[i].conv = "text" => "%" \notin ToSet(items[i].chars)
  BY <1>1, ProperItems
<1>3. sp \in Seq(Seq(Chars)) /\ Len(sp) = n /\ \A i \in 1 .. n : sp[i] = Spelled(items[i])
  <2>1. sp = [i \in 1 .. n |-> sp[i]] /\ \A i \in 1 .. n : sp[i] = Spelled(items[i])
    BY <1>1
  <2>2. \A i \in 1 .. n : sp[i] \in Seq(Chars)
    BY <1>2, <2>1, SpelledType
  <2> QED  BY <1>2, <2>1, <2>2, PiecesType
<1>4. pa \in Seq(Seq(Args)) /\ Len(pa) = n /\ \A i \in 1 .. n : pa[i] = Passed(items[i])
  <2>1. pa = [i \in 1 .. n |-> pa[i]] /\ \A i \in 1 .. n : pa[i] = Passed(items[i])
    BY <1>1
  <2>2. \A i \in 1 .. n : pa[i] \in Seq(Args)
    BY <1>2, <2>1, PassedType
  <2> QED  BY <1>2, <2>1, <2>2, PiecesType
<1>5. me \in Seq(Seq(Chars)) /\ Len(me) = n /\ \A i \in 1 .. n : me[i] = Meant(items[i])
  <2>1. me = [i \in 1 .. n |-> me[i]] /\ \A i \in 1 .. n : me[i] = Meant(items[i])
    BY <1>1
  <2>2. Marks \subseteq Chars
    BY DEF Chars
  <2>3. \A i \in 1 .. n : items[i].chars \in Seq(Chars)
    BY <1>2, ItemChars
  <2>4. \A i \in 1 .. n : me[i] \in Seq(Chars)
    BY <1>2, <2>1, <2>2, <2>3, MeantType
  <2> QED  BY <1>2, <2>1, <2>4, PiecesType
<1>6. PICK F : Joins(F, sp, Chars) /\ Format(items) = F[n]
  <2>1. PICK g : Joins(g, sp, Chars) /\ FlattenSeq(sp) = g[Len(sp)]
    BY <1>3, JoinsExists
  <2>2. Format(items) = FlattenSeq(sp)
    BY <1>1 DEF Format
  <2> QED  BY <1>3, <2>1, <2>2
<1>7. PICK A : Joins(A, pa, Args) /\ Arguments(items) = A[n]
  <2>1. PICK g : Joins(g, pa, Args) /\ FlattenSeq(pa) = g[Len(pa)]
    BY <1>4, JoinsExists
  <2>2. Arguments(items) = FlattenSeq(pa)
    BY <1>1 DEF Arguments
  <2> QED  BY <1>4, <2>1, <2>2
<1>8. PICK M : Joins(M, me, Chars) /\ Meaning(items) = M[n]
  <2>1. PICK g : Joins(g, me, Chars) /\ FlattenSeq(me) = g[Len(me)]
    BY <1>5, JoinsExists
  <2>2. Meaning(items) = FlattenSeq(me)
    BY <1>1 DEF Meaning
  <2> QED  BY <1>5, <2>1, <2>2
<1>9. PICK fmt, args : fmt = F[n] /\ args = A[n]
  OBVIOUS
<1>10. fmt \in Seq(Chars) /\ args \in Seq(Args) /\ Len(fmt) \in Nat
  BY <1>2, <1>3, <1>4, <1>6, <1>7, <1>9 DEF Joins
<1>11. PICK f : IsScan(f, fmt, args, Len(fmt)) /\ printk(fmt, args) = f[Len(fmt)].out
  BY <1>10, PrintkIs
<1> DEFINE T == {m \in Nat : m <= n => \E l, rest : /\ rest \in Seq(Args) /\ args = A[m] \o rest
                                                   /\ f[Len(F[m])] = State(Off, l, rest, M[m])}
<1>12. 0 \in T
  <2>1. F[0] = <<>> /\ A[0] = <<>> /\ M[0] = <<>>
    BY <1>6, <1>7, <1>8 DEF Joins
  <2>2. f[0] = State(Off, Off, args, <<>>)
    BY <1>10, <1>11, ScanStart
  <2>3. Len(F[0]) = 0 /\ A[0] \o args = args
    BY <1>10, <2>1
  <2> QED  BY <1>10, <2>1, <2>2, <2>3
<1>13. ASSUME NEW m \in Nat, m \in T PROVE m + 1 \in T
  <2>1. SUFFICES ASSUME m + 1 <= n
                 PROVE  \E l, rest : /\ rest \in Seq(Args) /\ args = A[m + 1] \o rest
                                     /\ f[Len(F[m + 1])] = State(Off, l, rest, M[m + 1])
    OBVIOUS
  <2>2. m <= n /\ m + 1 \in 1 .. n /\ (m + 1) - 1 = m /\ m \in 0 .. n
    BY <1>2, <2>1
  <2>3. PICK l, rest : /\ rest \in Seq(Args) /\ args = A[m] \o rest
                       /\ f[Len(F[m])] = State(Off, l, rest, M[m])
    BY <1>13, <2>2
  <2>4. PICK item, base, a, o : item = items[m + 1] /\ base = Len(F[m]) /\ a = A[m] /\ o = M[m]
    OBVIOUS
  <2>5. item \in Item /\ (item.conv = "text" => "%" \notin ToSet(item.chars))
    BY <1>2, <2>2, <2>4
  <2>6. base \in Nat /\ a \in Seq(Args) /\ o \in Seq(Chars)
    <3>1. F[m] \in Seq(Chars)
      BY <1>3, <1>6, <2>2 DEF Joins
    <3>2. A[m] \in Seq(Args)
      BY <1>4, <1>7, <2>2 DEF Joins
    <3>3. M[m] \in Seq(Chars)
      BY <1>5, <1>8, <2>2 DEF Joins
    <3> QED  BY <2>4, <3>1, <3>2, <3>3
  <2>7. A[m + 1] = a \o Passed(item) /\ M[m + 1] = o \o Meant(item)
    <3>1. A[m + 1] = A[(m + 1) - 1] \o pa[m + 1] /\ M[m + 1] = M[(m + 1) - 1] \o me[m + 1]
      BY <1>4, <1>5, <1>7, <1>8, <2>2 DEF Joins
    <3> QED  BY <1>4, <1>5, <2>2, <2>4, <3>1
  <2>8. /\ base + Len(Spelled(item)) = Len(F[m + 1]) /\ Len(F[m + 1]) <= Len(fmt)
        /\ PieceAt(fmt, base, Spelled(item))
    <3>1. /\ Len(F[(m + 1) - 1]) + Len(sp[m + 1]) = Len(F[m + 1]) /\ Len(F[m + 1]) <= Len(F[Len(sp)])
          /\ PieceAt(F[Len(sp)], Len(F[(m + 1) - 1]), sp[m + 1])
      BY <1>3, <1>6, <2>2, JoinsPiece
    <3> QED  BY <1>3, <1>9, <2>2, <2>4, <3>1
  <2>9. PICK b : b = Passed(item)
    OBVIOUS
  <2>10. b \in Seq(Args) /\ Argument(item) \in Args
    BY <2>5, <2>9, PassedType
  <2>11. Len(a) + Len(b) <= Len(a \o rest) /\ PieceAt(a \o rest, Len(a), b)
    <3>1. /\ Len(A[(m + 1) - 1]) + Len(pa[m + 1]) = Len(A[m + 1]) /\ Len(A[m + 1]) <= Len(A[Len(pa)])
          /\ PieceAt(A[Len(pa)], Len(A[(m + 1) - 1]), pa[m + 1])
      BY <1>4, <1>7, <2>2, JoinsPiece
    <3>2. pa[m + 1] = b
      BY <1>4, <2>2, <2>4, <2>9
    <3> QED  BY <1>4, <1>9, <2>2, <2>3, <2>4, <3>1, <3>2
  <2>12. PICK q \in Seq(Args) : rest = b \o q /\ a \o rest = (a \o b) \o q
    <3>1. \E q \in Seq(Args) : Splits(a, b, q, rest)
      BY <2>3, <2>6, <2>10, <2>11, Cut
    <3> QED  BY <3>1 DEF Splits
  <2>13. base + Len(Spelled(item)) <= Len(fmt)
    BY <2>8
  <2>14. f[base] = State(Off, l, Passed(item) \o q, o)
    BY <2>3, <2>4, <2>9, <2>12
  <2>15. Before(f, fmt, args, Len(fmt), base, item, l, q, o, Args)
    BY <1>10, <1>11, <2>5, <2>6, <2>8, <2>10, <2>12, <2>13, <2>14 DEF Before
  <2>16. PICK x : f[base + Len(Spelled(item))] = State(Off, x, q, o \o Meant(item))
    BY <2>15, ItemScanned DEF After
  <2>17. args = A[m + 1] \o q
    BY <2>3, <2>4, <2>7, <2>9, <2>12
  <2> QED  BY <2>7, <2>8, <2>12, <2>16, <2>17
<1>14. \A m \in Nat : m \in T
  <2> HIDE DEF T
  <2> QED  BY <1>12, <1>13, SetInduction
<1>15. n \in T
  BY <1>2, <1>14
<1>16. PICK l, rest : f[Len(F[n])] = State(Off, l, rest, M[n])
  BY <1>2, <1>15
<1>17. f[Len(fmt)].out = M[n]
  BY <1>9, <1>16 DEF State
<1> QED  BY <1>6, <1>7, <1>8, <1>9, <1>11, <1>17
=============================================================================

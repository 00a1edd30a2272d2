----------------------------- MODULE WireProofs -----------------------------
(***************************************************************************)
(* Numerals are read back as the numbers they print, and a value behind    *)
(* its length is recognised whole, whatever follows it, and not before its *)
(* end: what both the parser of S-expressions and the readers of messages  *)
(* and responses rest on.                                                  *)
(***************************************************************************)
EXTENDS Wire, SequenceTheorems, WellFoundedInduction, TLAPS

Less == {p \in Nat \X Nat : p[1] < p[2]}

(* A set that has each number below which it has all others has them all.  *)
LEMMA Strong ==
  ASSUME NEW T, \A n \in Nat : (\A m \in 0..(n - 1) : m \in T) => n \in T
  PROVE  \A n \in Nat : n \in T
<1> DEFINE Missing == {n \in Nat : n \notin T}
<1>1. SUFFICES ASSUME Missing # {} PROVE FALSE
  <2>1. Missing = {} => \A n \in Nat : n \in T
    OBVIOUS
  <2>2. QED
    BY <2>1
<1>2. IsWellFoundedOn(Less, Nat)
  BY NatLessThanWellFounded DEF OpToRel, Less
<1>3. PICK n \in Missing : \A m \in Missing : <<m, n>> \notin Less
  <2>1. Missing \subseteq Nat
    OBVIOUS
  <2>2. QED
    BY <1>1, <1>2, <2>1, WFMin
<1>4. ASSUME NEW m \in 0..(n - 1) PROVE m \in T
  <2>1. m \in Nat /\ m < n
    BY <1>3
  <2>2. <<m, n>> \in Less
    BY <1>3, <2>1 DEF Less
  <2>3. QED
    BY <1>3, <2>1, <2>2
<1>5. QED
  BY <1>3, <1>4

(* A set with 0 that has with any number below n the next one has all of   *)
(* them up to n.                                                           *)
LEMMA Steps ==
  ASSUME NEW n \in Nat, NEW T, 0 \in T, \A k \in 0..(n - 1) : k \in T => k + 1 \in T
  PROVE  \A k \in 0..n : k \in T
<1> DEFINE U == {k \in Nat : k \in 0..n => k \in T}
<1>1. ASSUME NEW k \in Nat, \A j \in 0..(k - 1) : j \in U PROVE k \in U
  <2>1. CASE k = 0
    BY <2>1
  <2>2. CASE k # 0
    <3>1. k - 1 \in 0..(k - 1) /\ (k - 1) + 1 = k
      BY <2>2
    <3>2. k - 1 \in U
      BY <1>1, <3>1
    <3>3. ASSUME k \in 0..n PROVE k \in T
      <4>1. k - 1 \in 0..(n - 1) /\ k - 1 \in 0..n
        BY <2>2, <3>3
      <4>2. k - 1 \in T
        BY <3>2, <4>1
      <4>3. QED
        BY <3>1, <4>1, <4>2
    <3>4. QED
      BY <3>3
  <2>3. QED
    BY <2>1, <2>2
<1>2. \A k \in Nat : k \in U
  <2> HIDE DEF U
  <2>1. QED
    BY <1>1, Strong
<1>3. QED
  BY <1>2

\* f is what a loop has after each of n rounds.
IsLoop(f, n, start, Round) ==
  f = [i \in 0..n |-> IF i = 0 THEN start ELSE Round[<<i, f[i - 1]>>]]

(* A loop has a result, however often it goes round.                       *)
LEMMA LoopExists ==
  ASSUME NEW n \in Nat, NEW start, NEW Round
  PROVE  \E f : IsLoop(f, n, start, Round)
<1> DEFINE T == {k \in Nat : \E f : IsLoop(f, k, start, Round)}
<1>1. 0 \in T
  <2>1. IsLoop([i \in 0..0 |-> start], 0, start, Round)
    BY DEF IsLoop
  <2>2. QED
    BY <2>1
<1>2. ASSUME NEW k \in 0..(n - 1), k \in T PROVE k + 1 \in T
  <2>1. PICK f : IsLoop(f, k, start, Round)
    BY <1>2
  <2> DEFINE g == [i \in 0..(k + 1) |-> IF i = k + 1 THEN Round[<<i, f[k]>>] ELSE f[i]]
  <2>2. ASSUME NEW i \in 0..(k + 1)
        PROVE  g[i] = IF i = 0 THEN start ELSE Round[<<i, g[i - 1]>>]
    <3>1. CASE i = k + 1
      <4>1. g[i] = Round[<<i, f[k]>>] /\ i # 0 /\ i - 1 = k /\ g[i - 1] = f[k]
        BY <3>1
      <4>2. QED
        BY <4>1
    <3>2. CASE i # k + 1 /\ i # 0
      <4>1. i \in 0..k /\ i - 1 \in 0..(k + 1) /\ i - 1 # k + 1
        BY <3>2
      <4>2. g[i] = f[i] /\ g[i - 1] = f[i - 1]
        BY <3>2, <4>1
      <4>3. f[i] = Round[<<i, f[i - 1]>>]
        BY <2>1, <3>2, <4>1 DEF IsLoop
      <4>4. QED
        BY <3>2, <4>2, <4>3
    <3>3. CASE i = 0
      <4>1. 0 \in 0..k /\ g[i] = f[i]
        BY <3>3
      <4>2. QED
        BY <2>1, <3>3, <4>1 DEF IsLoop
    <3>4. QED
      BY <3>1, <3>2, <3>3
  <2>3. IsLoop(g, k + 1, start, Round)
    BY <2>2 DEF IsLoop
  <2>4. QED
    BY <2>3
<1>3. n \in T
  <2> HIDE DEF T
  <2>1. \A k \in 0..n : k \in T
    BY <1>1, <1>2, Steps
  <2>2. QED
    BY <2>1
<1>4. QED
  BY <1>3

(* And it stays in the set in which every round stays.                     *)
LEMMA LoopStays ==
  ASSUME NEW n \in Nat, NEW S, NEW start \in S, NEW Round \in [(1..n) \X S -> S]
  PROVE  \E f \in [0..n -> S] : IsLoop(f, n, start, Round)
<1>1. PICK f : IsLoop(f, n, start, Round)
  BY LoopExists
<1> DEFINE T == {i \in 0..n : f[i] \in S}
<1>2. 0 \in T
  BY <1>1 DEF IsLoop
<1>3. ASSUME NEW i \in 0..(n - 1), i \in T PROVE i + 1 \in T
  <2>1. i + 1 \in 1..n /\ i + 1 \in 0..n /\ (i + 1) - 1 = i /\ i + 1 # 0
    OBVIOUS
  <2>2. f[i + 1] = Round[<<i + 1, f[i]>>]
    BY <1>1, <2>1 DEF IsLoop
  <2>3. Round[<<i + 1, f[i]>>] \in S
    BY <1>3, <2>1
  <2>4. QED
    BY <2>1, <2>2, <2>3
<1>4. \A i \in 0..n : i \in T
  <2> HIDE DEF T
  <2>1. QED
    BY <1>2, <1>3, Steps
<1>5. f = [i \in 0..n |-> f[i]]
  BY <1>1 DEF IsLoop
<1>6. f \in [0..n -> S]
  BY <1>4, <1>5
<1>7. QED
  BY <1>1, <1>6

-----------------------------------------------------------------------------
(***************************************************************************)
(* Numerals.                                                               *)
(***************************************************************************)
LEMMA Tenth ==
  ASSUME NEW n \in Nat, n >= 10
  PROVE  /\ n \div 10 \in 1..(n - 1)
         /\ n % 10 \in 0..9
         /\ n = (10 * (n \div 10)) + (n % 10)
OBVIOUS

\* f is Decimal up to k.
IsDecimal(f, k) ==
  f = [n \in 0..k |-> IF n < 10 THEN <<48 + n>> ELSE Append(f[n \div 10], 48 + (n % 10))]

LEMMA DecimalsExist ==
  ASSUME NEW k \in Nat
  PROVE  \E f : IsDecimal(f, k)
<1> DEFINE T == {m \in Nat : \E f : IsDecimal(f, m)}
<1>1. 0 \in T
  <2>1. IsDecimal([n \in 0..0 |-> <<48 + n>>], 0)
    <3>1. \A n \in 0..0 : n < 10
      OBVIOUS
    <3>2. QED
      BY <3>1 DEF IsDecimal
  <2>2. QED
    BY <2>1
<1>2. ASSUME NEW m \in 0..(k - 1), m \in T PROVE m + 1 \in T
  <2>1. PICK f : IsDecimal(f, m)
    BY <1>2
  <2> DEFINE Next(h, n) == IF n < 10 THEN <<48 + n>> ELSE Append(h[n \div 10], 48 + (n % 10))
             g == [n \in 0..(m + 1) |-> Next(f, n)]
  <2>2. ASSUME NEW n \in 0..(m + 1) PROVE g[n] = Next(g, n)
    <3>1. CASE n < 10
      BY <3>1
    <3>2. CASE n >= 10
      <4>1. n \div 10 \in 0..m /\ n \div 10 \in 0..(m + 1) /\ ~(n < 10)
        BY <3>2, Tenth
      <4>2. f[n \div 10] = Next(f, n \div 10)
        BY <2>1, <4>1 DEF IsDecimal
      <4>3. g[n \div 10] = f[n \div 10]
        <5> HIDE DEF Next
        <5>1. g[n \div 10] = Next(f, n \div 10)
          BY <4>1
        <5>2. QED
          BY <4>2, <5>1
      <4>4. g[n] = Next(f, n)
        BY <4>1
      <4> HIDE DEF g
      <4>5. QED
        BY <4>1, <4>3, <4>4
    <3>3. QED
      BY <3>1, <3>2
  <2>3. IsDecimal(g, m + 1)
    <3>1. g = [n \in 0..(m + 1) |-> g[n]]
      OBVIOUS
    <3>2. g = [n \in 0..(m + 1) |-> Next(g, n)]
      <4> HIDE DEF g
      <4>1. QED
        BY <2>2, <3>1
    <3>3. QED
      BY <3>2 DEF IsDecimal
  <2>4. QED
    BY <2>3
<1>3. \A m \in 0..k : m \in T
  <2> HIDE DEF T
  <2>1. QED
    BY <1>1, <1>2, Steps
<1>4. k \in T
  BY <1>3
<1>5. QED
  BY <1>4

LEMMA DecimalsAgree ==
  ASSUME NEW k \in Nat, NEW m \in Nat, NEW f, NEW g, IsDecimal(f, k), IsDecimal(g, m),
         NEW n \in Nat, n <= k, n <= m
  PROVE  f[n] = g[n]
<1> DEFINE T == {i \in Nat : i <= k /\ i <= m => f[i] = g[i]}
<1>1. ASSUME NEW i \in Nat, \A j \in 0..(i - 1) : j \in T PROVE i \in T
  <2>1. SUFFICES ASSUME i <= k, i <= m PROVE f[i] = g[i]
    OBVIOUS
  <2>2. i \in 0..k /\ i \in 0..m
    BY <2>1
  <2>3. f[i] = IF i < 10 THEN <<48 + i>> ELSE Append(f[i \div 10], 48 + (i % 10))
    BY <2>2 DEF IsDecimal
  <2>4. g[i] = IF i < 10 THEN <<48 + i>> ELSE Append(g[i \div 10], 48 + (i % 10))
    BY <2>2 DEF IsDecimal
  <2>5. CASE i < 10
    BY <2>3, <2>4, <2>5
  <2>6. CASE i >= 10
    <3>1. i \div 10 \in 0..(i - 1) /\ i \div 10 <= k /\ i \div 10 <= m
      BY <2>1, <2>6, Tenth
    <3>2. f[i \div 10] = g[i \div 10]
      BY <1>1, <3>1
    <3>3. ~(i < 10)
      BY <2>6
    <3>4. QED
      BY <2>3, <2>4, <3>2, <3>3
  <2>7. QED
    BY <2>5, <2>6
<1>2. \A i \in Nat : i \in T
  <2> HIDE DEF T
  <2>1. QED
    BY <1>1, Strong
<1>3. QED
  BY <1>2

(* Decimal is what its definition says.                                    *)
LEMMA DecimalDef ==
  ASSUME NEW n \in Nat
  PROVE  Decimal[n] = IF n < 10 THEN <<48 + n>> ELSE Append(Decimal[n \div 10], 48 + (n % 10))
<1> DEFINE Upto(k) == CHOOSE f : IsDecimal(f, k)
           F == [k \in Nat |-> Upto(k)[k]]
           D(f) == [k \in Nat |-> IF k < 10 THEN <<48 + k>>
                                           ELSE Append(f[k \div 10], 48 + (k % 10))]
<1>1. ASSUME NEW k \in Nat PROVE IsDecimal(Upto(k), k)
  BY DecimalsExist
<1>2. ASSUME NEW k \in Nat
      PROVE  F[k] = IF k < 10 THEN <<48 + k>> ELSE Append(F[k \div 10], 48 + (k % 10))
  <2> HIDE DEF Upto
  <2>1. F[k] = Upto(k)[k]
    OBVIOUS
  <2>2. Upto(k)[k] = IF k < 10 THEN <<48 + k>> ELSE Append(Upto(k)[k \div 10], 48 + (k % 10))
    <3>1. IsDecimal(Upto(k), k) /\ k \in 0..k
      BY <1>1
    <3>2. QED
      BY <3>1 DEF IsDecimal
  <2>3. ASSUME k >= 10 PROVE Upto(k)[k \div 10] = F[k \div 10]
    <3>1. k \div 10 \in Nat /\ k \div 10 <= k
      BY <2>3, Tenth
    <3>2. Upto(k)[k \div 10] = Upto(k \div 10)[k \div 10]
      BY <1>1, <3>1, DecimalsAgree
    <3>3. QED
      BY <3>1, <3>2
  <2> HIDE DEF F
  <2>4. QED
    BY <2>1, <2>2, <2>3
<1>3. F = D(F)
  <2>1. F = [k \in Nat |-> F[k]]
    OBVIOUS
  <2> HIDE DEF F
  <2>2. QED
    BY <1>2, <2>1
<1>4. Decimal = D(Decimal)
  <2> HIDE DEF F
  <2>1. \E f : f = D(f)
    BY <1>3
  <2>2. Decimal = CHOOSE f : f = D(f)
    BY DEF Decimal
  <2> HIDE DEF D
  <2>3. QED
    BY <2>1, <2>2
<1>5. Decimal[n] = D(Decimal)[n]
  <2> HIDE DEF D
  <2>1. QED
    BY <1>4
<1>6. QED
  BY <1>5

Digits == 48..57

(* A numeral is one digit or more.                                         *)
LEMMA DecimalIsDigits ==
  ASSUME NEW n \in Nat
  PROVE  Decimal[n] \in Seq(Digits) /\ Len(Decimal[n]) >= 1
<1> DEFINE T == {k \in Nat : Decimal[k] \in Seq(Digits) /\ Len(Decimal[k]) >= 1}
<1>1. ASSUME NEW k \in Nat, \A j \in 0..(k - 1) : j \in T PROVE k \in T
  <2>1. CASE k < 10
    <3>1. Decimal[k] = <<48 + k>>
      BY <2>1, DecimalDef
    <3>2. 48 + k \in Digits
      BY <2>1 DEF Digits
    <3>3. <<48 + k>> \in Seq(Digits) /\ Len(<<48 + k>>) = 1
      BY <3>2
    <3>4. Decimal[k] \in Seq(Digits) /\ Len(Decimal[k]) >= 1
      <4>1. 1 >= 1
        OBVIOUS
      <4>2. QED
        BY <3>1, <3>3, <4>1, Zenon
    <3>5. QED
      BY <3>4, Zenon
  <2>2. CASE k >= 10
    <3>1. k \div 10 \in 0..(k - 1) /\ 48 + (k % 10) \in Digits /\ ~(k < 10)
      BY <2>2, Tenth DEF Digits
    <3>2. Decimal[k] = Append(Decimal[k \div 10], 48 + (k % 10))
      BY <3>1, DecimalDef
    <3>3. Decimal[k \div 10] \in Seq(Digits) /\ Len(Decimal[k \div 10]) >= 1
      BY <1>1, <3>1
    <3>4. Append(Decimal[k \div 10], 48 + (k % 10)) \in Seq(Digits)
          /\ Len(Append(Decimal[k \div 10], 48 + (k % 10))) = Len(Decimal[k \div 10]) + 1
          /\ Len(Decimal[k \div 10]) \in Nat
      BY <3>1, <3>3, AppendProperties
    <3>5. Len(Decimal[k \div 10]) + 1 >= 1
      BY <3>4
    <3>6. Decimal[k] \in Seq(Digits) /\ Len(Decimal[k]) >= 1
      BY <3>2, <3>4, <3>5, Zenon
    <3>7. QED
      BY <3>6, Zenon
  <2>3. QED
    BY <2>1, <2>2
<1>2. \A k \in Nat : k \in T
  <2> HIDE DEF T
  <2>1. QED
    BY <1>1, Strong
<1>3. QED
  BY <1>2

(* The loop of Atoi over digits.                                           *)
LEMMA ValueLoop ==
  ASSUME NEW s \in Seq(Digits)
  PROVE  /\ ValueOf(s) \in [0..Len(s) -> Nat]
         /\ ValueOf(s)[0] = 0
         /\ \A i \in 1..Len(s) : ValueOf(s)[i] = (10 * ValueOf(s)[i - 1]) + (s[i] - 48)
<1> DEFINE n == Len(s)
           Body(f) == [i \in 0..n |-> IF i = 0 THEN 0 ELSE (10 * f[i - 1]) + (s[i] - 48)]
           Round == [p \in (1..n) \X Nat |-> (10 * p[2]) + (s[p[1]] - 48)]
<1>0. n \in Nat /\ \A i \in 1..n : s[i] \in 48..57
  BY DEF Digits
<1>1. Round \in [(1..n) \X Nat -> Nat]
  <2>1. ASSUME NEW p \in (1..n) \X Nat PROVE (10 * p[2]) + (s[p[1]] - 48) \in Nat
    <3>1. p[1] \in 1..n /\ p[2] \in Nat
      OBVIOUS
    <3>2. s[p[1]] \in 48..57
      BY <1>0, <3>1
    <3>3. QED
      BY SMTT(30), <3>1, <3>2
  <2>2. QED
    BY <2>1
<1>2. PICK f \in [0..n -> Nat] : IsLoop(f, n, 0, Round)
  <2> HIDE DEF n, Round
  <2>1. QED
    BY <1>0, <1>1, LoopStays
<1>3. f = Body(f)
  <2>1. ASSUME NEW i \in 0..n, i # 0
        PROVE  Round[<<i, f[i - 1]>>] = (10 * f[i - 1]) + (s[i] - 48)
    <3>1. i \in 1..n /\ i - 1 \in 0..n
      BY <2>1
    <3>2. f[i - 1] \in Nat
      BY <1>2, <3>1
    <3>3. QED
      BY <3>1, <3>2
  <2>2. f = [i \in 0..n |-> IF i = 0 THEN 0 ELSE Round[<<i, f[i - 1]>>]]
    BY <1>2 DEF IsLoop
  <2> HIDE DEF Round, n
  <2>3. QED
    BY <2>1, <2>2
<1>4. ValueOf(s) = Body(ValueOf(s)) /\ ValueOf(s) \in [0..n -> Nat]
  <2>1. ValueOf(s) = CHOOSE g : g = Body(g)
    BY DEF ValueOf
  <2>2. ValueOf(s) = Body(ValueOf(s))
    <3> HIDE DEF Body
    <3>1. QED
      BY <1>3, <2>1
  <2>3. ASSUME NEW g, g = Body(g) PROVE g = f
    <3>1. g = [i \in 0..n |-> g[i]]
      BY <2>3
    <3> DEFINE T == {i \in 0..n : g[i] = f[i]}
    <3>2. 0 \in T
      BY <1>0, <1>3, <2>3
    <3>3. ASSUME NEW i \in 0..(n - 1), i \in T PROVE i + 1 \in T
      <4>1. i + 1 \in 0..n /\ i + 1 # 0 /\ (i + 1) - 1 = i
        BY <1>0
      <4>2. g[i + 1] = (10 * g[i]) + (s[i + 1] - 48)
        BY <2>3, <4>1
      <4>3. f[i + 1] = (10 * f[i]) + (s[i + 1] - 48)
        BY <1>3, <4>1
      <4>4. QED
        BY <3>3, <4>1, <4>2, <4>3
    <3>4. \A i \in 0..n : i \in T
      <4> HIDE DEF T, n
      <4>1. QED
        BY <1>0, <3>2, <3>3, Steps
    <3>5. QED
      BY <1>2, <3>1, <3>4
  <2>4. QED
    <3> HIDE DEF Body
    <3>1. ValueOf(s) = f
      BY <2>2, <2>3
    <3>2. QED
      BY <1>2, <2>2, <3>1
<1>5. 0 \in 0..n /\ \A i \in 1..n : i \in 0..n /\ i # 0
  BY <1>0
<1> DEFINE V == ValueOf(s)
<1> HIDE DEF V
<1>6. V = [i \in 0..n |-> IF i = 0 THEN 0 ELSE (10 * V[i - 1]) + (s[i] - 48)]
  BY <1>4 DEF V
<1>7. V[0] = 0 /\ \A i \in 1..n : V[i] = (10 * V[i - 1]) + (s[i] - 48)
  BY <1>5, <1>6
<1>8. QED
  BY <1>4, <1>7 DEF V

LEMMA ValueAppend ==
  ASSUME NEW s \in Seq(Digits), NEW c \in Digits
  PROVE  ValueOf(Append(s, c))[Len(s) + 1] = (10 * ValueOf(s)[Len(s)]) + (c - 48)
<1> DEFINE t == Append(s, c)
           n == Len(s)
<1>1. /\ n \in Nat /\ t \in Seq(Digits) /\ Len(t) = n + 1
      /\ \A i \in 1..n : t[i] = s[i]
      /\ t[n + 1] = c
  BY AppendProperties
<1> HIDE DEF t
<1> DEFINE V == ValueOf(s)
           W == ValueOf(t)
<1>2. /\ V[0] = 0 /\ W[0] = 0
      /\ \A i \in 1..n : V[i] = (10 * V[i - 1]) + (s[i] - 48)
      /\ \A i \in 1..(n + 1) : W[i] = (10 * W[i - 1]) + (t[i] - 48)
  BY <1>1, ValueLoop
<1> HIDE DEF V, W, n
<1> DEFINE T == {i \in 0..n : V[i] = W[i]}
<1>3. 0 \in T
  BY <1>1, <1>2
<1>4. ASSUME NEW i \in 0..(n - 1), i \in T PROVE i + 1 \in T
  <2>1. i + 1 \in 1..n /\ i + 1 \in 1..(n + 1) /\ i + 1 \in 0..n /\ (i + 1) - 1 = i
    BY <1>1
  <2>2. V[i + 1] = (10 * V[i]) + (s[i + 1] - 48) /\ W[i + 1] = (10 * W[i]) + (t[i + 1] - 48)
    BY <1>2, <2>1
  <2>3. QED
    BY <1>1, <1>4, <2>1, <2>2
<1>5. \A i \in 0..n : i \in T
  <2> HIDE DEF T
  <2>1. QED
    BY <1>1, <1>3, <1>4, Steps
<1>6. V[n] = W[n]
  BY <1>1, <1>5
<1>7. W[n + 1] = (10 * W[n]) + (t[n + 1] - 48)
  <2>1. n + 1 \in 1..(n + 1) /\ (n + 1) - 1 = n
    BY <1>1
  <2>2. QED
    BY <1>2, <2>1
<1>8. W[n + 1] = (10 * V[n]) + (c - 48)
  BY <1>1, <1>6, <1>7
<1>9. QED
  BY <1>8 DEF V, W, n, t

(* A numeral has the value of the number it prints.                        *)
THEOREM ValueOfDecimal ==
  ASSUME NEW n \in Nat
  PROVE  ValueOf(Decimal[n])[Len(Decimal[n])] = n
<1> DEFINE V(k) == ValueOf(Decimal[k])[Len(Decimal[k])]
           T == {k \in Nat : V(k) = k}
<1>1. ASSUME NEW k \in Nat, \A j \in 0..(k - 1) : j \in T PROVE k \in T
  <2>1. CASE k < 10
    <3> DEFINE d == <<48 + k>>
    <3>1. Decimal[k] = d
      BY <2>1, DecimalDef
    <3>2. 48 + k \in Digits
      BY <2>1 DEF Digits
    <3>3. d \in Seq(Digits) /\ Len(d) = 1 /\ d[1] = 48 + k /\ 1 \in 1..1 /\ 1 - 1 = 0
      BY <3>2
    <3> HIDE DEF d
    <3>4. ValueOf(d)[0] = 0 /\ ValueOf(d)[1] = (10 * ValueOf(d)[1 - 1]) + (d[1] - 48)
      BY <3>3, ValueLoop
    <3>5. ValueOf(d)[1] = k
      BY <3>3, <3>4
    <3>6. V(k) = k
      BY <3>1, <3>3, <3>5, Zenon
    <3>7. QED
      BY <3>6, Zenon
  <2>2. CASE k >= 10
    <3> DEFINE q == k \div 10
               c == 48 + (k % 10)
    <3>1. q \in Nat /\ q \in 0..(k - 1) /\ c \in Digits /\ ~(k < 10) /\ k = (10 * q) + (c - 48)
      BY <2>2, Tenth DEF Digits
    <3>2. Decimal[k] = Append(Decimal[q], c)
      BY <3>1, DecimalDef
    <3>3. q \in T
      BY <1>1, <3>1
    <3> HIDE DEF q, c
    <3>4. V(q) = q
      BY <3>3, Zenon
    <3>5. Decimal[q] \in Seq(Digits)
      BY <3>1, DecimalIsDigits
    <3>6. ValueOf(Append(Decimal[q], c))[Len(Decimal[q]) + 1] = (10 * V(q)) + (c - 48)
      BY <3>1, <3>5, ValueAppend
    <3>7. Len(Append(Decimal[q], c)) = Len(Decimal[q]) + 1
      BY <3>1, <3>5, AppendProperties
    <3>8. V(k) = (10 * V(q)) + (c - 48)
      BY <3>2, <3>6, <3>7, Zenon
    <3>9. V(k) = k
      <4> HIDE DEF V
      <4>1. QED
        BY <3>1, <3>4, <3>8
    <3>10. QED
      BY <3>9, Zenon
  <2>3. QED
    BY <2>1, <2>2
<1>2. \A k \in Nat : k \in T
  <2> HIDE DEF T
  <2>1. QED
    BY <1>1, Strong
<1>3. QED
  BY <1>2

(* Digits are a number: they have no sign.                                 *)
LEMMA DigitsAreNumber ==
  ASSUME NEW s \in Seq(Digits), Len(s) >= 1
  PROVE  /\ IsNumber(s) /\ Atoi(s) = ValueOf(s)[Len(s)]
         /\ \A i \in 1..Len(s) : s[i] # Colon
<1>1. Len(s) \in Nat /\ 1 \in 1..Len(s) /\ \A i \in 1..Len(s) : s[i] \in 48..57
  BY DEF Digits
<1>2. DOMAIN s = 1..Len(s) /\ s # <<>> /\ Head(s) = s[1]
  BY <1>1
<1>3. Head(s) \notin {Plus, Minus} /\ Head(s) # Minus
  BY <1>1, <1>2 DEF Plus, Minus
<1>4. Magnitude(s) = s
  BY <1>3 DEF Magnitude
<1>5. \A i \in 1..Len(s) : s[i] # Colon /\ IsDigit(s[i])
  BY <1>1 DEF Colon, IsDigit
<1>6. IsNumber(s)
  BY <1>2, <1>4, <1>5 DEF IsNumber
<1>7. Atoi(s) = ValueOf(s)[Len(s)]
  BY <1>3, <1>4 DEF Atoi
<1>8. QED
  BY <1>5, <1>6, <1>7

-----------------------------------------------------------------------------
(***************************************************************************)
(* Strings of octets, place by place.                                      *)
(***************************************************************************)
LEMMA OctetsAre ==
  ASSUME NEW s \in Octets
  PROVE  Len(s) \in Nat /\ DOMAIN s = 1..Len(s) /\ \A i \in 1..Len(s) : s[i] \in Octet
BY DEF Octets

LEMMA NoOctets == <<>> \in Octets /\ Len(<<>>) = 0
BY DEF Octets

LEMMA OneOctet ==
  ASSUME NEW c \in Octet
  PROVE  <<c>> \in Octets /\ Len(<<c>>) = 1 /\ <<c>>[1] = c
BY DEF Octets

LEMMA OctetsEqual ==
  ASSUME NEW s \in Octets, NEW t \in Octets, Len(s) = Len(t), \A i \in 1..Len(s) : s[i] = t[i]
  PROVE  s = t
BY SeqEqual DEF Octets

LEMMA Joins ==
  ASSUME NEW s \in Octets, NEW t \in Octets
  PROVE  /\ s \o t \in Octets /\ Len(s \o t) = Len(s) + Len(t)
         /\ \A i \in 1..Len(s) : (s \o t)[i] = s[i]
         /\ \A i \in 1..Len(t) : (s \o t)[Len(s) + i] = t[i]
<1>1. Len(s) \in Nat /\ Len(t) \in Nat
  BY OctetsAre
<1>2. /\ s \o t \in Octets /\ Len(s \o t) = Len(s) + Len(t)
      /\ \A i \in 1..Len(s) + Len(t) : (s \o t)[i] = IF i <= Len(s) THEN s[i] ELSE t[i - Len(s)]
  BY ConcatProperties DEF Octets
<1> DEFINE u == s \o t
<1> HIDE DEF u
<1>3. \A i \in 1..Len(s) + Len(t) : u[i] = IF i <= Len(s) THEN s[i] ELSE t[i - Len(s)]
  BY <1>2 DEF u
<1>4. \A i \in 1..Len(s) : u[i] = s[i]
  BY <1>1, <1>3
<1>5. ASSUME NEW i \in 1..Len(t) PROVE u[Len(s) + i] = t[i]
  <2>1. Len(s) + i \in 1..Len(s) + Len(t) /\ ~(Len(s) + i <= Len(s)) /\ (Len(s) + i) - Len(s) = i
    BY <1>1
  <2>2. QED
    BY <1>3, <2>1
<1>6. QED
  BY <1>2, <1>4, <1>5 DEF u

LEMMA JoinsAssociate ==
  ASSUME NEW s \in Octets, NEW t \in Octets, NEW u \in Octets
  PROVE  (s \o t) \o u = s \o (t \o u)
BY ConcatAssociative DEF Octets

LEMMA JoinsNothing ==
  ASSUME NEW s \in Octets
  PROVE  s \o <<>> = s /\ <<>> \o s = s
BY ConcatEmptySeq DEF Octets

\* A piece of s from place m to place n; nothing if n = m - 1.
LEMMA Pieces ==
  ASSUME NEW s \in Octets, NEW m \in 1..(Len(s) + 1), NEW n \in (m - 1)..Len(s)
  PROVE  /\ SubSeq(s, m, n) \in Octets /\ Len(SubSeq(s, m, n)) = (n - m) + 1
         /\ \A i \in 1..((n - m) + 1) : SubSeq(s, m, n)[i] = s[(m + i) - 1]
<1>1. Len(s) \in Nat /\ \A i \in 1..Len(s) : s[i] \in Octet
  BY OctetsAre
<1>2. m \in Int /\ n \in Int /\ \A i \in m..n : s[i] \in Octet
  BY <1>1
<1> DEFINE t == SubSeq(s, m, n)
<1>3. /\ t \in Seq(Octet)
      /\ Len(t) = IF m <= n THEN n - m + 1 ELSE 0
      /\ \A i \in 1..n - m + 1 : t[i] = s[m + i - 1]
  BY <1>2, SubSeqProperties
<1> HIDE DEF t
<1>4. Len(t) = (n - m) + 1
  BY <1>1, <1>3
<1>5. t \in Octets
  BY <1>3 DEF Octets
<1>6. \A i \in 1..((n - m) + 1) : t[i] = s[(m + i) - 1]
  BY <1>2, <1>3
<1>7. QED
  BY <1>4, <1>5, <1>6 DEF t

(* The pieces of a join.                                                   *)
LEMMA JoinsSplit ==
  ASSUME NEW s \in Octets, NEW t \in Octets
  PROVE  /\ SubSeq(s \o t, 1, Len(s)) = s
         /\ SubSeq(s \o t, Len(s) + 1, Len(s \o t)) = t
<1> DEFINE u == s \o t
<1>1. /\ u \in Octets /\ Len(u) = Len(s) + Len(t)
      /\ \A i \in 1..Len(s) : u[i] = s[i]
      /\ \A i \in 1..Len(t) : u[Len(s) + i] = t[i]
  BY Joins
<1>2. Len(s) \in Nat /\ Len(t) \in Nat
  BY OctetsAre
<1> HIDE DEF u
<1>3. SubSeq(u, 1, Len(s)) = s
  <2> DEFINE p == SubSeq(u, 1, Len(s))
  <2>1. 1 \in 1..(Len(u) + 1) /\ Len(s) \in (1 - 1)..Len(u)
    BY <1>1, <1>2
  <2>2. /\ p \in Octets /\ Len(p) = (Len(s) - 1) + 1
        /\ \A i \in 1..((Len(s) - 1) + 1) : p[i] = u[(1 + i) - 1]
    BY <1>1, <2>1, Pieces
  <2> HIDE DEF p
  <2>3. Len(p) = Len(s) /\ \A i \in 1..Len(s) : p[i] = s[i]
    BY <1>1, <1>2, <2>2
  <2>4. p = s
    BY <2>2, <2>3, OctetsEqual
  <2>5. QED
    BY <2>4 DEF p
<1>4. SubSeq(u, Len(s) + 1, Len(u)) = t
  <2> DEFINE p == SubSeq(u, Len(s) + 1, Len(u))
             m == Len(s) + 1
             n == Len(u)
  <2>1. m \in 1..(Len(u) + 1) /\ n \in (m - 1)..Len(u)
    BY <1>1, <1>2
  <2>2. /\ SubSeq(u, m, n) \in Octets /\ Len(SubSeq(u, m, n)) = (n - m) + 1
        /\ \A i \in 1..((n - m) + 1) : SubSeq(u, m, n)[i] = u[(m + i) - 1]
    <3> HIDE DEF m, n
    <3>1. QED
      BY <1>1, <2>1, Pieces
  <2> HIDE DEF p
  <2>3. p \in Octets /\ Len(p) = (n - m) + 1 /\ \A i \in 1..((n - m) + 1) : p[i] = u[(m + i) - 1]
    BY <2>2 DEF p
  <2>4. (n - m) + 1 = Len(t) /\ \A i \in 1..Len(t) : (m + i) - 1 = Len(s) + i
    BY <1>1, <1>2
  <2> HIDE DEF m, n
  <2>5. Len(p) = Len(t) /\ \A i \in 1..Len(t) : p[i] = t[i]
    BY <1>1, <2>3, <2>4
  <2>6. p = t
    BY <2>3, <2>5, OctetsEqual
  <2>7. QED
    BY <2>6 DEF p
<1>5. QED
  BY <1>3, <1>4 DEF u

-----------------------------------------------------------------------------
(***************************************************************************)
(* Values behind their lengths.                                            *)
(***************************************************************************)
LEMMA DigitsAreOctets ==
  ASSUME NEW s \in Seq(Digits)
  PROVE  s \in Octets
<1>1. Digits \subseteq Octet
  BY DEF Digits, Octet
<1>2. QED
  BY <1>1, SeqMonotonic DEF Octets

(* The first place of an octet.                                            *)
LEMMA IndexByteIsFirst ==
  ASSUME NEW s \in Octets, NEW c, NEW k \in 1..Len(s), s[k] = c,
         \A j \in 1..(k - 1) : s[j] # c
  PROVE  IndexByte(s, c) = k
<1> DEFINE First(i) == s[i] = c /\ \A j \in 1..(i - 1) : s[j] # c
<1>1. DOMAIN s = 1..Len(s) /\ Len(s) \in Nat
  BY DEF Octets
<1>2. ASSUME NEW i \in 1..Len(s), First(i) PROVE i = k
  <2>1. ~(i < k) /\ ~(k < i)
    BY <1>1, <1>2
  <2>2. QED
    BY <1>1, <2>1
<1>3. IndexByte(s, c) = CHOOSE i \in 1..Len(s) : First(i)
  BY <1>1 DEF IndexByte
<1>4. First(k)
  OBVIOUS
<1> HIDE DEF First
<1>5. QED
  BY <1>2, <1>3, <1>4

LEMMA IndexByteIsNone ==
  ASSUME NEW s, NEW c, \A i \in DOMAIN s : s[i] # c
  PROVE  IndexByte(s, c) = 0
BY DEF IndexByte

LEMMA IndexByteFinds ==
  ASSUME NEW s \in Octets, NEW c, NEW i \in 1..Len(s), s[i] = c
  PROVE  /\ IndexByte(s, c) \in 1..i /\ s[IndexByte(s, c)] = c
         /\ \A j \in 1..(IndexByte(s, c) - 1) : s[j] # c
<1>0. Len(s) \in Nat
  BY DEF Octets
<1> DEFINE T == {n \in Nat : ~(n \in 1..Len(s) /\ s[n] = c)}
<1>1. PICK n \in Nat : (\A m \in 0..(n - 1) : m \in T) /\ n \notin T
  <2>1. ASSUME \A n \in Nat : (\A m \in 0..(n - 1) : m \in T) => n \in T PROVE FALSE
    <3>1. \A n \in Nat : n \in T
      <4> HIDE DEF T
      <4>1. QED
        BY <2>1, Strong
    <3>2. i \in Nat
      BY <1>0
    <3>3. QED
      BY <3>1, <3>2
  <2>2. QED
    BY <2>1
<1>2. n \in 1..Len(s) /\ s[n] = c
  BY <1>1
<1>3. \A j \in 1..(n - 1) : s[j] # c
  <2>1. ASSUME NEW j \in 1..(n - 1) PROVE s[j] # c
    <3>1. j \in 0..(n - 1) /\ j \in 1..Len(s)
      BY <1>0, <1>2
    <3>2. j \in T
      BY <1>1, <3>1
    <3>3. QED
      BY <3>1, <3>2
  <2>2. QED
    BY <2>1
<1>4. n <= i
  BY <1>2, <1>3
<1>5. IndexByte(s, c) = n
  BY <1>2, <1>3, IndexByteIsFirst
<1>6. QED
  BY <1>2, <1>3, <1>4, <1>5

\* What has a colon in it.
Framed(d, r) == (d \o <<Colon>>) \o r

(* What stands before the first colon and behind it.                       *)
LEMMA ColonSplits ==
  ASSUME NEW d \in Octets, NEW r \in Octets, \A i \in 1..Len(d) : d[i] # Colon
  PROVE  /\ Framed(d, r) \in Octets /\ Len(Framed(d, r)) = Len(d) + 1 + Len(r)
         /\ IndexByte(Framed(d, r), Colon) = Len(d) + 1
         /\ SubSeq(Framed(d, r), 1, Len(d)) = d
         /\ SubSeq(Framed(d, r), Len(d) + 2, Len(Framed(d, r))) = r
         /\ \A i \in 1..Len(d) : Framed(d, r)[i] = d[i]
         /\ Framed(d, r)[Len(d) + 1] = Colon
         /\ \A i \in 1..Len(r) : Framed(d, r)[Len(d) + 1 + i] = r[i]
<1> DEFINE e == d \o <<Colon>>
           s == Framed(d, r)
<1>1. Colon \in Octet
  BY DEF Octet, Colon
<1>2. /\ e \in Octets /\ Len(e) = Len(d) + 1 /\ Len(d) \in Nat /\ Len(r) \in Nat
      /\ \A i \in 1..Len(d) : e[i] = d[i]
      /\ e[Len(d) + 1] = Colon
  <2>1. <<Colon>> \in Octets /\ Len(<<Colon>>) = 1 /\ <<Colon>>[1] = Colon
    BY <1>1, OneOctet
  <2>2. /\ e \in Octets /\ Len(e) = Len(d) + Len(<<Colon>>)
        /\ \A i \in 1..Len(d) : e[i] = d[i]
        /\ \A i \in 1..Len(<<Colon>>) : e[Len(d) + i] = <<Colon>>[i]
    BY <2>1, Joins
  <2>3. Len(d) \in Nat /\ Len(r) \in Nat
    BY OctetsAre
  <2>4. 1 \in 1..Len(<<Colon>>)
    BY <2>1
  <2> HIDE DEF e
  <2>5. QED
    BY <2>1, <2>2, <2>3, <2>4
<1>3. s = e \o r
  BY DEF Framed
<1>4. /\ s \in Octets /\ Len(s) = Len(e) + Len(r)
      /\ \A i \in 1..Len(e) : s[i] = e[i]
      /\ \A i \in 1..Len(r) : s[Len(e) + i] = r[i]
      /\ SubSeq(s, Len(e) + 1, Len(s)) = r
  <2> HIDE DEF e, s
  <2>1. /\ e \o r \in Octets /\ Len(e \o r) = Len(e) + Len(r)
        /\ \A i \in 1..Len(e) : (e \o r)[i] = e[i]
        /\ \A i \in 1..Len(r) : (e \o r)[Len(e) + i] = r[i]
    BY <1>2, Joins, Zenon
  <2>2. SubSeq(e \o r, Len(e) + 1, Len(e \o r)) = r
    BY <1>2, JoinsSplit, Zenon
  <2>3. QED
    BY <1>3, <2>1, <2>2, Zenon
<1> HIDE DEF e, s
<1>5. \A i \in 1..Len(d) : s[i] = d[i]
  BY <1>2, <1>4
<1>6. s[Len(d) + 1] = Colon
  BY <1>2, <1>4
<1>7. IndexByte(s, Colon) = Len(d) + 1
  <2>1. Len(d) + 1 \in 1..Len(s) /\ (Len(d) + 1) - 1 = Len(d)
    BY <1>2, <1>4
  <2>2. \A j \in 1..((Len(d) + 1) - 1) : s[j] # Colon
    BY <1>5, <2>1
  <2>3. QED
    BY <1>4, <1>6, <2>1, <2>2, IndexByteIsFirst
<1>8. SubSeq(s, 1, Len(d)) = d
  <2> DEFINE p == SubSeq(s, 1, Len(d))
  <2>1. 1 \in 1..(Len(s) + 1) /\ Len(d) \in (1 - 1)..Len(s)
    BY <1>2, <1>4
  <2>2. /\ p \in Octets /\ Len(p) = (Len(d) - 1) + 1
        /\ \A i \in 1..((Len(d) - 1) + 1) : p[i] = s[(1 + i) - 1]
    BY <1>4, <2>1, Pieces
  <2> HIDE DEF p
  <2>3. Len(p) = Len(d) /\ \A i \in 1..Len(d) : p[i] = d[i]
    BY <1>2, <1>5, <2>2
  <2>4. p = d
    BY <2>2, <2>3, OctetsEqual
  <2>5. QED
    BY <2>4 DEF p
<1>9. SubSeq(s, Len(d) + 2, Len(s)) = r
  <2>1. Len(d) + 2 = Len(e) + 1
    BY <1>2
  <2>2. QED
    BY <1>4, <2>1
<1>10. /\ Len(s) = Len(d) + 1 + Len(r)
       /\ \A i \in 1..Len(r) : s[Len(d) + 1 + i] = r[i]
  BY <1>2, <1>4
<1>11. QED
  BY <1>4, <1>5, <1>6, <1>7, <1>8, <1>9, <1>10 DEF s

(* A beginning of it that ends before the colon has none; one that ends    *)
(* behind it is the same with a beginning of the rest.                     *)
LEMMA CutsOfFramed ==
  ASSUME NEW d \in Octets, NEW r \in Octets, \A i \in 1..Len(d) : d[i] # Colon,
         NEW n \in 0..Len(Framed(d, r))
  PROVE  /\ SubSeq(Framed(d, r), 1, n) \in Octets /\ Len(SubSeq(Framed(d, r), 1, n)) = n
         /\ n <= Len(d) => IndexByte(SubSeq(Framed(d, r), 1, n), Colon) = 0
         /\ n > Len(d) =>
              SubSeq(Framed(d, r), 1, n) = Framed(d, SubSeq(r, 1, n - (Len(d) + 1)))
<1> DEFINE s == Framed(d, r)
           c == SubSeq(s, 1, n)
<1>1. /\ s \in Octets /\ Len(s) = Len(d) + 1 + Len(r)
      /\ \A i \in 1..Len(d) : s[i] = d[i]
      /\ s[Len(d) + 1] = Colon
      /\ \A i \in 1..Len(r) : s[Len(d) + 1 + i] = r[i]
  BY ColonSplits
<1>2. Len(d) \in Nat /\ Len(r) \in Nat /\ n \in Nat
  BY OctetsAre, <1>1
<1> HIDE DEF s
<1>3. c \in Octets /\ Len(c) = n /\ \A i \in 1..n : c[i] = s[i]
  <2>1. 1 \in 1..(Len(s) + 1) /\ n \in (1 - 1)..Len(s)
    BY <1>1, <1>2 DEF s
  <2>2. /\ c \in Octets /\ Len(c) = (n - 1) + 1
        /\ \A i \in 1..((n - 1) + 1) : c[i] = s[(1 + i) - 1]
    BY <1>1, <2>1, Pieces
  <2> HIDE DEF c
  <2>3. QED
    BY <1>2, <2>2
<1> HIDE DEF c
<1>4. ASSUME n <= Len(d) PROVE IndexByte(c, Colon) = 0
  <2>1. DOMAIN c = 1..n
    BY <1>3, OctetsAre
  <2>2. \A i \in DOMAIN c : c[i] # Colon
    BY <1>1, <1>2, <1>3, <1>4, <2>1
  <2>3. QED
    BY <2>2, IndexByteIsNone
<1>5. ASSUME n > Len(d) PROVE c = Framed(d, SubSeq(r, 1, n - (Len(d) + 1)))
  <2> DEFINE m == n - (Len(d) + 1)
             q == SubSeq(r, 1, m)
             f == Framed(d, q)
  <2>1. m \in Nat /\ m <= Len(r) /\ n = Len(d) + 1 + m
    BY <1>1, <1>2, <1>5 DEF s
  <2>2. q \in Octets /\ Len(q) = m /\ \A i \in 1..m : q[i] = r[i]
    <3>1. 1 \in 1..(Len(r) + 1) /\ m \in (1 - 1)..Len(r)
      BY <1>2, <2>1
    <3> HIDE DEF m
    <3>2. /\ q \in Octets /\ Len(q) = (m - 1) + 1
          /\ \A i \in 1..((m - 1) + 1) : q[i] = r[(1 + i) - 1]
      BY <3>1, Pieces
    <3> HIDE DEF q
    <3>3. QED
      BY <2>1, <3>2
  <2> HIDE DEF m, q
  <2>3. /\ f \in Octets /\ Len(f) = Len(d) + 1 + m
        /\ \A i \in 1..Len(d) : f[i] = d[i]
        /\ f[Len(d) + 1] = Colon
        /\ \A i \in 1..m : f[Len(d) + 1 + i] = q[i]
    <3>1. /\ f \in Octets /\ Len(f) = Len(d) + 1 + Len(q)
          /\ \A i \in 1..Len(d) : f[i] = d[i]
          /\ f[Len(d) + 1] = Colon
          /\ \A i \in 1..Len(q) : f[Len(d) + 1 + i] = q[i]
      BY <2>2, ColonSplits
    <3> HIDE DEF f
    <3>2. QED
      BY <2>2, <3>1
  <2> HIDE DEF f
  <2>4. ASSUME NEW i \in 1..n PROVE c[i] = f[i]
    <3>1. CASE i <= Len(d)
      BY <1>1, <1>2, <1>3, <2>3, <3>1
    <3>2. CASE i = Len(d) + 1
      BY <1>1, <1>3, <2>3, <3>2
    <3>3. CASE i > Len(d) + 1
      <4> DEFINE k == i - (Len(d) + 1)
      <4>1. k \in 1..m /\ k \in 1..Len(r) /\ i = Len(d) + 1 + k
        BY <1>2, <2>1, <3>3
      <4> HIDE DEF k
      <4>2. s[i] = r[k] /\ f[i] = q[k] /\ q[k] = r[k]
        BY <1>1, <2>2, <2>3, <4>1
      <4>3. QED
        BY <1>3, <4>2
    <3>4. QED
      BY <1>2, <3>1, <3>2, <3>3
  <2>5. c = f
    BY <1>3, <2>1, <2>3, <2>4, OctetsEqual
  <2>6. QED
    BY <2>5 DEF f, q, m
<1>6. QED
  BY <1>3, <1>4, <1>5 DEF c, s

(* A value behind its length, and whatever follows.                        *)
LEMMA LengthValueFrames ==
  ASSUME NEW v \in Octets
  PROVE  /\ Decimal[Len(v)] \in Octets
         /\ \A i \in 1..Len(Decimal[Len(v)]) : Decimal[Len(v)][i] # Colon
         /\ Len(Decimal[Len(v)]) >= 1
         /\ IsNumber(Decimal[Len(v)]) /\ Atoi(Decimal[Len(v)]) = Len(v)
         /\ LengthValue(v) = Framed(Decimal[Len(v)], v)
         /\ LengthValue(v) \in Octets /\ Len(LengthValue(v)) >= 2
         /\ Len(LengthValue(v)) = Len(Decimal[Len(v)]) + 1 + Len(v)
         /\ \A t \in Octets : LengthValue(v) \o t = Framed(Decimal[Len(v)], v \o t)
<1> DEFINE d == Decimal[Len(v)]
<1>1. Len(v) \in Nat
  BY OctetsAre
<1>2. d \in Seq(Digits) /\ Len(d) >= 1 /\ ValueOf(d)[Len(d)] = Len(v)
  BY <1>1, DecimalIsDigits, ValueOfDecimal
<1> HIDE DEF d
<1>3. d \in Octets
  BY <1>2, DigitsAreOctets
<1>4. (\A i \in 1..Len(d) : d[i] # Colon) /\ IsNumber(d) /\ Atoi(d) = Len(v)
  BY <1>2, DigitsAreNumber
<1>5. LengthValue(v) = Framed(d, v)
  BY DEF LengthValue, Framed, d
<1>6. LengthValue(v) \in Octets /\ Len(LengthValue(v)) = Len(d) + 1 + Len(v)
  <2>1. Framed(d, v) \in Octets /\ Len(Framed(d, v)) = Len(d) + 1 + Len(v)
    BY <1>3, <1>4, ColonSplits
  <2>2. QED
    BY <1>5, <2>1, Zenon
<1>7. Len(LengthValue(v)) >= 2
  <2>1. Len(d) + 1 + Len(v) >= 2
    BY <1>1, <1>2, <1>3, OctetsAre
  <2>2. QED
    BY <1>6, <2>1
<1>8. ASSUME NEW t \in Octets PROVE LengthValue(v) \o t = Framed(d, v \o t)
  <2> DEFINE e == d \o <<Colon>>
  <2>1. e \in Octets
    <3>1. <<Colon>> \in Octets
      BY OneOctet DEF Octet, Colon
    <3>2. QED
      BY <1>3, <3>1, Joins
  <2> HIDE DEF e
  <2>2. (e \o v) \o t = e \o (v \o t)
    BY <2>1, JoinsAssociate
  <2>3. Framed(d, v) = e \o v /\ Framed(d, v \o t) = e \o (v \o t)
    BY DEF Framed, e
  <2>4. QED
    BY <1>5, <2>2, <2>3, Zenon
<1>9. QED
  BY <1>2, <1>3, <1>4, <1>5, <1>6, <1>7, <1>8 DEF d

-----------------------------------------------------------------------------
(***************************************************************************)
(* Numbers and pieces.                                                     *)
(***************************************************************************)
(* What Atoi takes for a number has a value.                               *)
LEMMA NumbersAreInts ==
  ASSUME NEW s \in Octets, IsNumber(s)
  PROVE  Atoi(s) \in Int
<1> DEFINE m == Magnitude(s)
<1>1. m \in Octets
  <2>1. CASE s # <<>>
    <3>1. Tail(s) \in Octets
      BY <2>1, HeadTailProperties DEF Octets
    <3>2. QED
      BY <3>1 DEF Magnitude
  <2>2. CASE s = <<>>
    BY <2>2 DEF Magnitude
  <2>3. QED
    BY <2>1, <2>2
<1>2. \A i \in DOMAIN m : IsDigit(m[i])
  BY DEF IsNumber
<1>3. Atoi(s) = LET n == ValueOf(m)[Len(m)] IN IF Head(s) = Minus THEN -n ELSE n
  BY DEF Atoi
<1> HIDE DEF m
<1>4. Len(m) \in Nat /\ DOMAIN m = 1..Len(m)
  BY <1>1, OctetsAre
<1>5. m \in Seq(Digits)
  <2>1. \A i \in 1..Len(m) : m[i] \in Digits
    BY <1>2, <1>4 DEF IsDigit, Digits
  <2>2. m = [i \in 1..Len(m) |-> m[i]]
    BY <1>1 DEF Octets
  <2>3. QED
    BY <1>1, <1>4, <2>1, <2>2 DEF Octets
<1>6. ValueOf(m) \in [0..Len(m) -> Nat]
  BY <1>5, ValueLoop
<1>7. ValueOf(m)[Len(m)] \in Nat
  BY <1>4, <1>6
<1>8. QED
  BY <1>3, <1>7

\* What is left of a string when some of its octets have been read.
Rest(s, k) == SubSeq(s, k + 1, Len(s))

LEMMA RestIs ==
  ASSUME NEW s \in Octets, NEW k \in 0..Len(s)
  PROVE  /\ Rest(s, k) \in Octets /\ Len(Rest(s, k)) = Len(s) - k
         /\ \A i \in 1..(Len(s) - k) : Rest(s, k)[i] = s[k + i]
<1> DEFINE m == k + 1
           n == Len(s)
<1>1. Len(s) \in Nat
  BY OctetsAre
<1>2. m \in 1..(Len(s) + 1) /\ n \in (m - 1)..Len(s) /\ (n - m) + 1 = Len(s) - k
      /\ \A i \in 1..(Len(s) - k) : (m + i) - 1 = k + i
  BY <1>1
<1> HIDE DEF m, n
<1>3. /\ SubSeq(s, m, n) \in Octets /\ Len(SubSeq(s, m, n)) = (n - m) + 1
      /\ \A i \in 1..((n - m) + 1) : SubSeq(s, m, n)[i] = s[(m + i) - 1]
  BY <1>2, Pieces
<1>4. Rest(s, k) = SubSeq(s, m, n)
  BY DEF Rest, m, n
<1> DEFINE r == Rest(s, k)
<1> HIDE DEF r
<1>5. /\ r \in Octets /\ Len(r) = (n - m) + 1
      /\ \A i \in 1..((n - m) + 1) : r[i] = s[(m + i) - 1]
  BY <1>3, <1>4 DEF r
<1>6. /\ r \in Octets /\ Len(r) = Len(s) - k
      /\ \A i \in 1..(Len(s) - k) : r[i] = s[k + i]
  BY <1>2, <1>5
<1>7. QED
  BY <1>6 DEF r

LEMMA RestOfRest ==
  ASSUME NEW s \in Octets, NEW k \in 0..Len(s), NEW j \in 0..(Len(s) - k)
  PROVE  Rest(Rest(s, k), j) = Rest(s, k + j)
<1>1. Len(s) \in Nat
  BY OctetsAre
<1> DEFINE r == Rest(s, k)
           t == Rest(r, j)
           u == Rest(s, k + j)
<1>2. /\ r \in Octets /\ Len(r) = Len(s) - k
      /\ \A i \in 1..(Len(s) - k) : r[i] = s[k + i]
  BY RestIs
<1> HIDE DEF r
<1>3. j \in 0..Len(r) /\ k + j \in 0..Len(s)
  BY <1>1, <1>2
<1>4. /\ t \in Octets /\ Len(t) = Len(r) - j
      /\ \A i \in 1..(Len(r) - j) : t[i] = r[j + i]
  BY <1>2, <1>3, RestIs
<1>5. /\ u \in Octets /\ Len(u) = Len(s) - (k + j)
      /\ \A i \in 1..(Len(s) - (k + j)) : u[i] = s[(k + j) + i]
  BY <1>3, RestIs
<1> HIDE DEF t, u
<1>6. Len(t) = Len(u)
  BY <1>1, <1>2, <1>4, <1>5
<1>7. ASSUME NEW i \in 1..Len(t) PROVE t[i] = u[i]
  <2>1. i \in 1..(Len(r) - j) /\ i \in 1..(Len(s) - (k + j)) /\ j + i \in 1..(Len(s) - k)
        /\ k + (j + i) = (k + j) + i
    BY <1>1, <1>2, <1>4, <1>5
  <2>2. t[i] = r[j + i] /\ r[j + i] = s[k + (j + i)] /\ u[i] = s[(k + j) + i]
    BY <1>2, <1>4, <1>5, <2>1
  <2>3. QED
    BY <2>1, <2>2
<1>8. t = u
  BY <1>4, <1>5, <1>6, <1>7, OctetsEqual
<1>9. QED
  BY <1>8 DEF t, u, r

-----------------------------------------------------------------------------
(***************************************************************************)
(* Strings one behind the other.                                           *)
(***************************************************************************)
LEMMA JoinedLoop ==
  ASSUME NEW a \in Seq(Octets)
  PROVE  /\ Joined(a) \in [0..Len(a) -> Octets]
         /\ Joined(a)[0] = <<>>
         /\ \A i \in 1..Len(a) : Joined(a)[i] = Joined(a)[i - 1] \o a[i]
<1> DEFINE n == Len(a)
           Body(f) == [i \in 0..n |-> IF i = 0 THEN <<>> ELSE f[i - 1] \o a[i]]
           Round == [p \in (1..n) \X Octets |-> p[2] \o a[p[1]]]
           L == Joined(a)
<1>0. n \in Nat /\ \A i \in 1..n : a[i] \in Octets
  OBVIOUS
<1>1. \A i \in 1..n : a[i] \in Octets
  BY <1>0
<1>2. Round \in [(1..n) \X Octets -> Octets]
  <2> HIDE DEF n
  <2>1. ASSUME NEW p \in (1..n) \X Octets PROVE p[2] \o a[p[1]] \in Octets
    <3>1. p[1] \in 1..n /\ p[2] \in Octets
      OBVIOUS
    <3>2. QED
      BY <1>1, <3>1, Joins
  <2>2. QED
    BY <2>1
<1>3. PICK f \in [0..n -> Octets] : IsLoop(f, n, <<>>, Round)
  <2> HIDE DEF n, Round
  <2>1. QED
    BY <1>0, <1>2, NoOctets, LoopStays
<1>4. f = Body(f)
  <2>1. ASSUME NEW i \in 0..n, i # 0
        PROVE  Round[<<i, f[i - 1]>>] = f[i - 1] \o a[i]
    <3>1. <<i, f[i - 1]>> \in (1..n) \X Octets
      <4>1. i \in 1..n /\ i - 1 \in 0..n
        BY <2>1
      <4>2. QED
        BY <1>3, <4>1
    <3>2. QED
      BY <3>1
  <2>2. f = [i \in 0..n |-> IF i = 0 THEN <<>> ELSE Round[<<i, f[i - 1]>>]]
    BY <1>3 DEF IsLoop
  <2> HIDE DEF Round, n
  <2>3. QED
    BY <2>1, <2>2
<1>5. L = Body(L)
  <2>1. L = CHOOSE g : g = Body(g)
    BY DEF Joined
  <2> HIDE DEF Body, L
  <2>2. QED
    BY <1>4, <2>1
<1> HIDE DEF L
<1>6. L[0] = <<>>
  <2>1. 0 \in 0..n
    BY <1>0
  <2>2. QED
    BY <1>5, <2>1
<1>7. ASSUME NEW i \in 1..n PROVE L[i] = L[i - 1] \o a[i]
  <2>1. i \in 0..n /\ i # 0
    BY <1>0
  <2>2. QED
    BY <1>5, <2>1
<1> HIDE DEF n
<1>8. L \in [0..n -> Octets]
  <2> DEFINE T == {i \in 0..n : L[i] \in Octets}
  <2>1. 0 \in T
    BY <1>0, <1>6, NoOctets
  <2>2. ASSUME NEW i \in 0..(n - 1), i \in T PROVE i + 1 \in T
    <3>1. i + 1 \in 1..n /\ i + 1 \in 0..n /\ (i + 1) - 1 = i
      BY <1>0
    <3>2. L[i + 1] = L[i] \o a[i + 1]
      BY <1>7, <3>1
    <3>3. L[i] \in Octets /\ a[i + 1] \in Octets
      BY <1>1, <2>2, <3>1
    <3>4. QED
      BY ZenonT(30), <3>1, <3>2, <3>3, Joins
  <2>3. \A i \in 0..n : i \in T
    <3> HIDE DEF T
    <3>1. QED
      BY <1>0, <2>1, <2>2, Steps
  <2>4. L = [i \in 0..n |-> L[i]]
    BY <1>5
  <2> HIDE DEF Body
  <2>5. QED
    BY <2>3, <2>4
<1>9. QED
  BY <1>6, <1>7, <1>8 DEF L, n

\* r is what is left of the strings, one behind the other, when some of them
\* have been read.
AreRemainders(r, a) ==
  /\ r \in [0..Len(a) -> Octets]
  /\ r[Len(a)] = <<>>
  /\ \A i \in 1..Len(a) : r[i - 1] = a[i] \o r[i]

LEMMA RemaindersExist ==
  ASSUME NEW a \in Seq(Octets)
  PROVE  \E r : AreRemainders(r, a) /\ r[0] = Concat(a)
<1> DEFINE n == Len(a)
           Round == [p \in (1..n) \X Octets |-> a[(n - p[1]) + 1] \o p[2]]
           L == Joined(a)
<1>0. n \in Nat /\ \A i \in 1..n : a[i] \in Octets
  OBVIOUS
<1>1. \A i \in 1..n : a[i] \in Octets
  BY <1>0
<1>2. /\ L \in [0..n -> Octets] /\ L[0] = <<>>
      /\ \A i \in 1..n : L[i] = L[i - 1] \o a[i]
  BY JoinedLoop
<1> HIDE DEF n, L
<1>3. Round \in [(1..n) \X Octets -> Octets]
  <2>1. ASSUME NEW p \in (1..n) \X Octets
        PROVE  a[(n - p[1]) + 1] \o p[2] \in Octets
    <3>1. p[1] \in 1..n /\ p[2] \in Octets
      OBVIOUS
    <3>2. (n - p[1]) + 1 \in 1..n
      BY <1>0, <3>1
    <3>3. QED
      BY <1>1, <3>1, <3>2, Joins
  <2>2. QED
    BY <2>1
<1>4. PICK g \in [0..n -> Octets] : IsLoop(g, n, <<>>, Round)
  <2> HIDE DEF Round
  <2>1. QED
    BY <1>0, <1>3, NoOctets, LoopStays
<1> DEFINE r == [i \in 0..n |-> g[n - i]]
<1>5. r \in [0..n -> Octets] /\ \A i \in 0..n : r[i] = g[n - i]
  <2>1. \A i \in 0..n : n - i \in 0..n
    BY <1>0
  <2>2. QED
    BY <1>4, <2>1
<1> HIDE DEF r
<1>6. r[n] = <<>>
  <2>1. n \in 0..n /\ n - n = 0 /\ 0 \in 0..n
    BY <1>0
  <2>2. g[0] = <<>>
    BY <1>4, <2>1 DEF IsLoop
  <2>3. QED
    BY <1>5, <2>1, <2>2
<1>7. ASSUME NEW i \in 1..n PROVE r[i - 1] = a[i] \o r[i]
  <2> DEFINE j == n - (i - 1)
  <2>1. /\ i - 1 \in 0..n /\ i \in 0..n
        /\ j \in 1..n /\ j \in 0..n /\ j # 0 /\ j - 1 = n - i /\ j - 1 \in 0..n /\ (n - j) + 1 = i
    BY <1>0
  <2>2. r[i - 1] = g[j] /\ r[i] = g[j - 1]
    BY <1>5, <2>1
  <2> HIDE DEF j
  <2>3. g[j] = Round[<<j, g[j - 1]>>]
    BY <1>4, <2>1 DEF IsLoop
  <2>4. <<j, g[j - 1]>> \in (1..n) \X Octets
    BY <1>4, <2>1
  <2>5. Round[<<j, g[j - 1]>>] = a[(n - j) + 1] \o g[j - 1]
    BY <2>4
  <2>6. QED
    BY <2>1, <2>2, <2>3, <2>5
<1>8. r[0] = L[n]
  <2> DEFINE T == {j \in 0..n : L[n - j] \o r[n - j] = L[n]}
  <2>1. 0 \in T
    <3>1. 0 \in 0..n /\ n - 0 = n /\ n \in 0..n
      BY <1>0
    <3>2. L[n] \o <<>> = L[n]
      BY <1>2, <3>1, JoinsNothing
    <3>3. QED
      BY <1>6, <3>1, <3>2
  <2>2. ASSUME NEW j \in 0..(n - 1), j \in T PROVE j + 1 \in T
    <3> DEFINE i == n - j
    <3>1. i \in 1..n /\ i \in 0..n /\ i - 1 \in 0..n /\ n - (j + 1) = i - 1 /\ j + 1 \in 0..n
      BY <1>0
    <3>2. L[i] \o r[i] = L[n]
      BY <2>2
    <3> HIDE DEF i
    <3>3. L[i] = L[i - 1] \o a[i] /\ r[i - 1] = a[i] \o r[i]
      BY <1>2, <1>7, <3>1
    <3>4. L[i - 1] \in Octets /\ a[i] \in Octets /\ r[i] \in Octets
      BY <1>1, <1>2, <1>5, <3>1
    <3>5. (L[i - 1] \o a[i]) \o r[i] = L[i - 1] \o (a[i] \o r[i])
      BY <3>4, JoinsAssociate
    <3>6. L[i - 1] \o r[i - 1] = L[n]
      BY <3>2, <3>3, <3>5
    <3>7. QED
      BY <3>1, <3>6
  <2>3. n \in T
    <3>1. n \in 0..n
      BY <1>0
    <3> HIDE DEF T
    <3>2. \A j \in 0..n : j \in T
      BY <1>0, <2>1, <2>2, Steps
    <3>3. QED
      BY <3>1, <3>2
  <2>4. L[0] \o r[0] = L[n]
    <3>1. n - n = 0
      BY <1>0
    <3>2. QED
      BY <2>3, <3>1
  <2>5. 0 \in 0..n
    BY <1>0
  <2>6. QED
    BY <1>2, <1>5, <2>4, <2>5, JoinsNothing
<1>9. AreRemainders(r, a)
  BY <1>5, <1>6, <1>7 DEF AreRemainders, n
<1>10. QED
  BY <1>8, <1>9 DEF L, n, Concat

IsJoin(s, t, u) == s = t \o u

(* Two ways to cut a string in two: the first piece of the one begins with *)
(* the first piece of the other, or the other way round.                   *)
LEMMA CutsMeet ==
  ASSUME NEW s, NEW c \in Octets, NEW u \in Octets, NEW a \in Octets, NEW b \in Octets,
         IsJoin(s, c, u), IsJoin(s, a, b)
  PROVE  \/ \E d \in Octets : IsJoin(c, a, d) /\ IsJoin(b, d, u)
         \/ \E d \in Octets : d # <<>> /\ IsJoin(a, c, d) /\ IsJoin(u, d, b)
<1>0. Len(c) \in Nat /\ Len(u) \in Nat /\ Len(a) \in Nat /\ Len(b) \in Nat
  BY OctetsAre
<1>1. /\ s \in Octets /\ Len(s) = Len(c) + Len(u)
      /\ \A i \in 1..Len(c) : s[i] = c[i]
      /\ \A i \in 1..Len(u) : s[Len(c) + i] = u[i]
  <2>1. s = c \o u
    BY DEF IsJoin
  <2>2. QED
    BY <2>1, Joins
<1>2. /\ Len(s) = Len(a) + Len(b)
      /\ \A i \in 1..Len(a) : s[i] = a[i]
      /\ \A i \in 1..Len(b) : s[Len(a) + i] = b[i]
  <2>1. s = a \o b
    BY DEF IsJoin
  <2>2. QED
    BY <2>1, Joins
<1>3. CASE Len(a) <= Len(c)
  <2> DEFINE d == Rest(c, Len(a))
  <2>1. Len(a) \in 0..Len(c)
    BY <1>0, <1>3
  <2>2. /\ d \in Octets /\ Len(d) = Len(c) - Len(a)
        /\ \A i \in 1..(Len(c) - Len(a)) : d[i] = c[Len(a) + i]
    BY <2>1, RestIs
  <2> HIDE DEF d
  <2>3. c = a \o d
    <3> DEFINE e == a \o d
    <3>1. /\ e \in Octets /\ Len(e) = Len(a) + Len(d)
          /\ \A i \in 1..Len(a) : e[i] = a[i]
          /\ \A i \in 1..Len(d) : e[Len(a) + i] = d[i]
      BY <2>2, Joins
    <3> HIDE DEF e
    <3>2. Len(e) = Len(c)
      BY <1>0, <2>2, <3>1
    <3>3. ASSUME NEW i \in 1..Len(c) PROVE e[i] = c[i]
      <4>1. s[i] = c[i]
        BY <1>1
      <4>2. CASE i <= Len(a)
        <5>1. i \in 1..Len(a)
          BY <1>0, <4>2
        <5>2. QED
          BY <1>2, <3>1, <4>1, <5>1
      <4>3. CASE i > Len(a)
        <5> DEFINE k == i - Len(a)
        <5>1. k \in 1..Len(d) /\ k \in 1..(Len(c) - Len(a)) /\ i = Len(a) + k
          BY <1>0, <2>2, <4>3
        <5> HIDE DEF k
        <5>2. QED
          BY <2>2, <3>1, <5>1
      <4>4. QED
        BY <1>0, <4>2, <4>3
    <3>4. e = c
      BY <3>1, <3>2, <3>3, OctetsEqual
    <3>5. QED
      BY <3>4 DEF e
  <2>4. d \o u = b
    <3> DEFINE e == d \o u
    <3>1. /\ e \in Octets /\ Len(e) = Len(d) + Len(u)
          /\ \A i \in 1..Len(d) : e[i] = d[i]
          /\ \A i \in 1..Len(u) : e[Len(d) + i] = u[i]
      BY <2>2, Joins
    <3> HIDE DEF e
    <3>2. Len(e) = Len(b)
      <4>1. Len(e) = Len(d) + Len(u) /\ Len(d) = Len(c) - Len(a)
        BY <2>2, <3>1
      <4>2. Len(c) + Len(u) = Len(a) + Len(b)
        BY <1>1, <1>2
      <4>3. QED
        BY <1>0, <4>1, <4>2
    <3>3. ASSUME NEW i \in 1..Len(b) PROVE e[i] = b[i]
      <4>1. s[Len(a) + i] = b[i]
        BY <1>2
      <4>2. CASE i <= Len(d)
        <5>1. i \in 1..Len(d) /\ i \in 1..(Len(c) - Len(a)) /\ Len(a) + i \in 1..Len(c)
          BY <1>0, <2>2, <4>2
        <5>2. e[i] = d[i] /\ d[i] = c[Len(a) + i] /\ s[Len(a) + i] = c[Len(a) + i]
          BY <1>1, <2>2, <3>1, <5>1
        <5>3. QED
          BY <4>1, <5>2
      <4>3. CASE i > Len(d)
        <5> DEFINE k == i - Len(d)
        <5>1. k \in 1..Len(u) /\ i = Len(d) + k /\ Len(a) + i = Len(c) + k
          BY <1>0, <1>1, <1>2, <2>2, <3>2, <4>3
        <5> HIDE DEF k
        <5>2. e[i] = u[k] /\ s[Len(a) + i] = u[k]
          BY <1>1, <3>1, <5>1
        <5>3. QED
          BY <4>1, <5>2
      <4>4. QED
        BY <1>0, <2>2, <4>2, <4>3
    <3>4. e = b
      BY <3>1, <3>2, <3>3, OctetsEqual
    <3>5. QED
      BY <3>4 DEF e
  <2>5. IsJoin(c, a, d) /\ IsJoin(b, d, u)
    BY <2>3, <2>4 DEF IsJoin
  <2>6. QED
    BY <2>2, <2>5
<1>4. CASE Len(a) > Len(c)
  <2> DEFINE d == Rest(a, Len(c))
  <2>1. Len(c) \in 0..Len(a)
    BY <1>0, <1>4
  <2>2. /\ d \in Octets /\ Len(d) = Len(a) - Len(c)
        /\ \A i \in 1..(Len(a) - Len(c)) : d[i] = a[Len(c) + i]
    BY <2>1, RestIs
  <2> HIDE DEF d
  <2>3. a = c \o d
    <3> DEFINE e == c \o d
    <3>1. /\ e \in Octets /\ Len(e) = Len(c) + Len(d)
          /\ \A i \in 1..Len(c) : e[i] = c[i]
          /\ \A i \in 1..Len(d) : e[Len(c) + i] = d[i]
      BY <2>2, Joins
    <3> HIDE DEF e
    <3>2. Len(e) = Len(a)
      BY <1>0, <2>2, <3>1
    <3>3. ASSUME NEW i \in 1..Len(a) PROVE e[i] = a[i]
      <4>1. s[i] = a[i]
        BY <1>2
      <4>2. CASE i <= Len(c)
        <5>1. i \in 1..Len(c)
          BY <1>0, <4>2
        <5>2. QED
          BY <1>1, <3>1, <4>1, <5>1
      <4>3. CASE i > Len(c)
        <5> DEFINE k == i - Len(c)
        <5>1. k \in 1..Len(d) /\ k \in 1..(Len(a) - Len(c)) /\ i = Len(c) + k
          BY <1>0, <2>2, <4>3
        <5> HIDE DEF k
        <5>2. QED
          BY <2>2, <3>1, <5>1
      <4>4. QED
        BY <1>0, <4>2, <4>3
    <3>4. e = a
      BY <3>1, <3>2, <3>3, OctetsEqual
    <3>5. QED
      BY <3>4 DEF e
  <2>4. d \o b = u
    <3> DEFINE e == d \o b
    <3>1. /\ e \in Octets /\ Len(e) = Len(d) + Len(b)
          /\ \A i \in 1..Len(d) : e[i] = d[i]
          /\ \A i \in 1..Len(b) : e[Len(d) + i] = b[i]
      BY <2>2, Joins
    <3> HIDE DEF e
    <3>2. Len(e) = Len(u)
      <4>1. Len(e) = Len(d) + Len(b) /\ Len(d) = Len(a) - Len(c)
        BY <2>2, <3>1
      <4>2. Len(c) + Len(u) = Len(a) + Len(b)
        BY <1>1, <1>2
      <4>3. QED
        BY <1>0, <4>1, <4>2
    <3>3. ASSUME NEW i \in 1..Len(u) PROVE e[i] = u[i]
      <4>1. s[Len(c) + i] = u[i]
        BY <1>1
      <4>2. CASE i <= Len(d)
        <5>1. i \in 1..Len(d) /\ i \in 1..(Len(a) - Len(c)) /\ Len(c) + i \in 1..Len(a)
          BY <1>0, <2>2, <4>2
        <5>2. e[i] = d[i] /\ d[i] = a[Len(c) + i] /\ s[Len(c) + i] = a[Len(c) + i]
          BY <1>2, <2>2, <3>1, <5>1
        <5>3. QED
          BY <4>1, <5>2
      <4>3. CASE i > Len(d)
        <5> DEFINE k == i - Len(d)
        <5>1. k \in 1..Len(b) /\ i = Len(d) + k /\ Len(c) + i = Len(a) + k
          BY <1>0, <1>1, <1>2, <2>2, <3>2, <4>3
        <5> HIDE DEF k
        <5>2. e[i] = b[k] /\ s[Len(c) + i] = b[k]
          BY <1>2, <3>1, <5>1
        <5>3. QED
          BY <4>1, <5>2
      <4>4. QED
        BY <1>0, <2>2, <4>2, <4>3
    <3>4. e = u
      BY <3>1, <3>2, <3>3, OctetsEqual
    <3>5. QED
      BY <3>4 DEF e
  <2>5. d # <<>>
    <3>1. Len(d) # 0
      BY <1>0, <1>4, <2>2
    <3>2. QED
      BY <3>1, NoOctets
  <2>6. IsJoin(a, c, d) /\ IsJoin(u, d, b)
    BY <2>3, <2>4 DEF IsJoin
  <2>7. QED
    BY <2>2, <2>5, <2>6
<1>5. Len(a) <= Len(c) \/ Len(a) > Len(c)
  BY <1>0
<1>6. QED
  BY <1>3, <1>4, <1>5, Zenon
=============================================================================

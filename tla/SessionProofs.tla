---------------------------- MODULE SessionProofs ----------------------------
(***************************************************************************)
(* The handler carries out what the client has sent, in its order, and a   *)
(* decision that a call returns is an answer that the handler has written, *)
(* for any set of requests and any number of calls.                        *)
(***************************************************************************)
EXTENDS Session, WireProofs, FiniteSetTheorems

-----------------------------------------------------------------------------
(***************************************************************************)
(* readLV.                                                                 *)
(***************************************************************************)
(* The definition, with names for what stands before the colon and behind. *)
Before(s) == SubSeq(s, 1, IndexByte(s, Colon) - 1)
Behind(s) == SubSeq(s, IndexByte(s, Colon) + 1, Len(s))

ReadLVOf(s) ==
  IF IndexByte(s, Colon) = 0 THEN [kind |-> "ended"]
  ELSE IF ~IsNumber(Before(s)) \/ Atoi(Before(s)) < 0 THEN Invalid(Behind(s))
  ELSE IF Len(Behind(s)) < Atoi(Before(s)) THEN [kind |-> "short"]
  ELSE Got(SubSeq(Behind(s), 1, Atoi(Before(s))),
           SubSeq(Behind(s), Atoi(Before(s)) + 1, Len(Behind(s))))

LEMMA ReadLVDef ==
  ASSUME NEW s \in Octets
  PROVE  ReadLV[s] = ReadLVOf(s)
BY Zenon DEF ReadLV, ReadLVOf, Before, Behind

(* A reader takes octets off the front of a stream, one of them at least.  *)
LEMMA ReadLVTakes ==
  ASSUME NEW s \in Octets
  PROVE  \/ ReadLV[s] = [kind |-> "ended"]
         \/ ReadLV[s] = [kind |-> "short"]
         \/ \E k \in 1..Len(s) : ReadLV[s] = Invalid(Rest(s, k))
         \/ \E v \in Octets, k \in 1..Len(s) : ReadLV[s] = Got(v, Rest(s, k))
<1> DEFINE colon  == IndexByte(s, Colon)
           digits == Before(s)
           rest   == Behind(s)
           n      == Atoi(digits)
<1>0. Len(s) \in Nat /\ DOMAIN s = 1..Len(s)
  BY OctetsAre
<1>1. ReadLV[s] = IF colon = 0 THEN [kind |-> "ended"]
                  ELSE IF ~IsNumber(digits) \/ n < 0 THEN Invalid(rest)
                  ELSE IF Len(rest) < n THEN [kind |-> "short"]
                  ELSE Got(SubSeq(rest, 1, n), SubSeq(rest, n + 1, Len(rest)))
  BY ReadLVDef DEF ReadLVOf
<1>2. CASE \A i \in DOMAIN s : s[i] # Colon
  <2>1. colon = 0
    BY <1>2, IndexByteIsNone
  <2>2. QED
    BY <1>1, <2>1
<1>3. CASE \E i \in DOMAIN s : s[i] = Colon
  <2>1. colon \in 1..Len(s)
    <3>1. PICK i \in 1..Len(s) : s[i] = Colon
      BY <1>0, <1>3
    <3>2. colon \in 1..i
      BY <3>1, IndexByteFinds
    <3> HIDE DEF colon
    <3>3. QED
      BY <1>0, <3>2
  <2>2. rest = Rest(s, colon)
    BY DEF Rest, Behind
  <2> HIDE DEF colon
  <2>3. rest \in Octets /\ Len(rest) = Len(s) - colon
    <3>1. colon \in 0..Len(s)
      BY <2>1
    <3>2. QED
      BY <2>2, <3>1, RestIs
  <2>4. digits \in Octets
    <3> DEFINE m == IndexByte(s, Colon) - 1
    <3>1. 1 \in 1..(Len(s) + 1) /\ m \in (1 - 1)..Len(s)
      BY <1>0, <2>1 DEF colon
    <3> HIDE DEF m
    <3>2. SubSeq(s, 1, m) \in Octets
      BY <3>1, Pieces
    <3>3. QED
      BY <3>2 DEF m, Before
  <2> HIDE DEF rest, digits
  <2>5. CASE ~IsNumber(digits) \/ n < 0
    <3>1. ReadLV[s] = Invalid(rest)
      BY <1>1, <2>1, <2>5
    <3>2. QED
      BY <2>1, <2>2, <3>1
  <2>6. CASE IsNumber(digits) /\ ~(n < 0)
    <3>1. n \in Nat
      BY <2>4, <2>6, NumbersAreInts
    <3> HIDE DEF n
    <3>2. CASE Len(rest) < n
      BY <1>1, <2>1, <2>6, <3>2
    <3>3. CASE ~(Len(rest) < n)
      <4>1. ReadLV[s] = Got(SubSeq(rest, 1, n), SubSeq(rest, n + 1, Len(rest)))
        BY <1>1, <2>1, <2>6, <3>3
      <4>2. 1 \in 1..(Len(rest) + 1) /\ n \in (1 - 1)..Len(rest) /\ n \in 0..Len(rest)
        BY <1>0, <2>1, <2>3, <3>1, <3>3
      <4>3. SubSeq(rest, 1, n) \in Octets
        BY <2>3, <4>2, Pieces
      <4>4. SubSeq(rest, n + 1, Len(rest)) = Rest(s, colon + n)
        <5>1. colon \in 0..Len(s) /\ n \in 0..(Len(s) - colon)
          BY <2>1, <2>3, <4>2
        <5>2. Rest(Rest(s, colon), n) = Rest(s, colon + n)
          BY <5>1, RestOfRest
        <5>3. QED
          BY <2>2, <5>2 DEF Rest
      <4>5. colon + n \in 1..Len(s)
        BY <1>0, <2>1, <2>3, <4>2
      <4>6. QED
        BY <4>1, <4>3, <4>4, <4>5
    <3>4. QED
      BY <3>2, <3>3
  <2>7. QED
    BY <2>5, <2>6
<1>4. QED
  BY <1>2, <1>3

(* Octets without a colon, one, and the rest.                               *)
LEMMA ReadLVFramed ==
  ASSUME NEW d \in Octets, \A i \in 1..Len(d) : d[i] # Colon, NEW r \in Octets
  PROVE  /\ Framed(d, r) \in Octets
         /\ ReadLV[Framed(d, r)] =
              IF ~IsNumber(d) \/ Atoi(d) < 0 THEN Invalid(r)
              ELSE IF Len(r) < Atoi(d) THEN [kind |-> "short"]
              ELSE Got(SubSeq(r, 1, Atoi(d)), SubSeq(r, Atoi(d) + 1, Len(r)))
<1>0. PICK s \in Octets : s = Framed(d, r)
  BY ColonSplits
<1> DEFINE colon == IndexByte(s, Colon)
<1>1. /\ colon = Len(d) + 1
      /\ SubSeq(s, 1, Len(d)) = d /\ SubSeq(s, Len(d) + 2, Len(s)) = r
  BY <1>0, ColonSplits
<1>2. colon - 1 = Len(d) /\ colon + 1 = Len(d) + 2 /\ colon # 0
  <2>1. Len(d) \in Nat
    BY OctetsAre
  <2> HIDE DEF colon
  <2>2. QED
    BY <1>1, <2>1
<1>3. Before(s) = d /\ Behind(s) = r
  BY <1>1, <1>2, Zenon DEF Before, Behind
<1>4. ReadLV[s] = ReadLVOf(s)
  BY ReadLVDef
<1>5. QED
  BY <1>0, <1>2, <1>3, <1>4 DEF ReadLVOf

(* A value behind its length is read as itself, whatever follows.          *)
LEMMA ReadLVExact ==
  ASSUME NEW v \in Octets, NEW t \in Octets
  PROVE  ReadLV[LengthValue(v) \o t] = Got(v, t)
<1> DEFINE d == Decimal[Len(v)]
           r == v \o t
           s == Framed(d, r)
<1>1. /\ d \in Octets /\ \A i \in 1..Len(d) : d[i] # Colon
      /\ IsNumber(d) /\ Atoi(d) = Len(v)
      /\ LengthValue(v) \o t = s
  BY LengthValueFrames
<1>2. /\ r \in Octets /\ Len(r) = Len(v) + Len(t)
      /\ SubSeq(r, 1, Len(v)) = v /\ SubSeq(r, Len(v) + 1, Len(r)) = t
  BY Joins, JoinsSplit
<1> HIDE DEF d, r
<1>3. ReadLV[s] = IF ~IsNumber(d) \/ Atoi(d) < 0 THEN Invalid(r)
                  ELSE IF Len(r) < Atoi(d) THEN [kind |-> "short"]
                  ELSE Got(SubSeq(r, 1, Atoi(d)), SubSeq(r, Atoi(d) + 1, Len(r)))
  BY <1>1, <1>2, ReadLVFramed
<1> HIDE DEF s
<1>4. ~(Atoi(d) < 0) /\ ~(Len(r) < Atoi(d))
  <2>1. Len(v) \in Nat /\ Len(t) \in Nat
    BY OctetsAre
  <2>2. QED
    BY <1>1, <1>2, <2>1
<1>5. ReadLV[s] = Got(SubSeq(r, 1, Len(v)), SubSeq(r, Len(v) + 1, Len(r)))
  BY <1>1, <1>3, <1>4
<1>6. QED
  BY <1>1, <1>2, <1>5

(* Cut off before its end, it is waited for.                               *)
LEMMA ReadLVCut ==
  ASSUME NEW v \in Octets, NEW n \in 0..(Len(LengthValue(v)) - 1)
  PROVE  /\ SubSeq(LengthValue(v), 1, n) \in Octets
         /\ ReadLV[SubSeq(LengthValue(v), 1, n)] \in {[kind |-> "ended"], [kind |-> "short"]}
<1> DEFINE d == Decimal[Len(v)]
           c == SubSeq(LengthValue(v), 1, n)
<1>1. /\ d \in Octets /\ \A i \in 1..Len(d) : d[i] # Colon
      /\ IsNumber(d) /\ Atoi(d) = Len(v)
      /\ LengthValue(v) = Framed(d, v)
      /\ LengthValue(v) \in Octets /\ Len(LengthValue(v)) = Len(d) + 1 + Len(v)
  BY LengthValueFrames
<1> HIDE DEF d
<1>2. Len(d) \in Nat /\ Len(v) \in Nat
  BY <1>1, OctetsAre
<1>3. n \in 0..Len(Framed(d, v)) /\ n \in Nat /\ n < Len(d) + 1 + Len(v)
  BY <1>1, <1>2
<1>4. /\ c \in Octets /\ Len(c) = n
      /\ n <= Len(d) => IndexByte(c, Colon) = 0
      /\ n > Len(d) => c = Framed(d, SubSeq(v, 1, n - (Len(d) + 1)))
  BY <1>1, <1>3, CutsOfFramed
<1> HIDE DEF c
<1>5. CASE n <= Len(d)
  <2>1. IndexByte(c, Colon) = 0
    BY <1>4, <1>5
  <2>2. ReadLV[c] = [kind |-> "ended"]
    BY <1>4, <2>1, ReadLVDef DEF ReadLVOf
  <2>3. QED
    BY <1>4, <2>2 DEF c
<1>6. CASE n > Len(d)
  <2> DEFINE m == n - (Len(d) + 1)
             r == SubSeq(v, 1, m)
  <2>1. m \in Nat /\ m < Len(v)
    BY <1>2, <1>3, <1>6
  <2>2. c = Framed(d, r)
    BY <1>4, <1>6
  <2> HIDE DEF m
  <2>3. r \in Octets /\ Len(r) = m
    <3>1. 1 \in 1..(Len(v) + 1) /\ m \in (1 - 1)..Len(v) /\ (m - 1) + 1 = m
      BY <1>2, <2>1
    <3>2. QED
      BY <3>1, Pieces
  <2> HIDE DEF r
  <2>4. ReadLV[c] = IF ~IsNumber(d) \/ Atoi(d) < 0 THEN Invalid(r)
                    ELSE IF Len(r) < Atoi(d) THEN [kind |-> "short"]
                    ELSE Got(SubSeq(r, 1, Atoi(d)), SubSeq(r, Atoi(d) + 1, Len(r)))
    BY <1>1, <2>2, <2>3, ReadLVFramed
  <2>5. ~(Atoi(d) < 0) /\ Len(r) < Atoi(d)
    BY <1>1, <1>2, <2>1, <2>3
  <2>6. ReadLV[c] = [kind |-> "short"]
    BY <1>1, <2>4, <2>5
  <2>7. QED
    BY <1>4, <2>6 DEF c
<1>7. QED
  BY <1>2, <1>3, <1>5, <1>6

-----------------------------------------------------------------------------
(***************************************************************************)
(* Messages.                                                               *)
(***************************************************************************)
LEMMA LengthValuesLoop ==
  ASSUME NEW a \in Seq(Octets)
  PROVE  /\ LengthValues(a) \in [0..Len(a) -> Octets]
         /\ LengthValues(a)[0] = <<>>
         /\ \A i \in 1..Len(a) : LengthValues(a)[i] = LengthValues(a)[i - 1] \o LengthValue(a[i])
<1> DEFINE n == Len(a)
           Body(f) == [i \in 0..n |-> IF i = 0 THEN <<>> ELSE f[i - 1] \o LengthValue(a[i])]
           Round == [p \in (1..n) \X Octets |-> p[2] \o LengthValue(a[p[1]])]
           L == LengthValues(a)
<1>0. n \in Nat /\ \A i \in 1..n : a[i] \in Octets
  OBVIOUS
<1>1. \A i \in 1..n : LengthValue(a[i]) \in Octets
  <2> HIDE DEF n
  <2>1. QED
    BY <1>0, LengthValueFrames
<1>2. Round \in [(1..n) \X Octets -> Octets]
  <2> HIDE DEF n
  <2>1. ASSUME NEW p \in (1..n) \X Octets PROVE p[2] \o LengthValue(a[p[1]]) \in Octets
    <3>1. p[1] \in 1..n /\ p[2] \in Octets
      OBVIOUS
    <3>2. QED
      BY <1>1, <3>1, Joins
  <2>2. QED
    BY <2>1
<1>3. PICK f \in [0..n -> Octets] : IsLoop(f, n, <<>>, Round)
  <2> HIDE DEF n, Round
  <2>1. QED
    BY <1>0, <1>2, NoOctets, LoopStays
<1>4. f = Body(f)
  <2>1. ASSUME NEW i \in 0..n, i # 0
        PROVE  Round[<<i, f[i - 1]>>] = f[i - 1] \o LengthValue(a[i])
    <3>1. <<i, f[i - 1]>> \in (1..n) \X Octets
      <4>1. i \in 1..n /\ i - 1 \in 0..n
        BY <2>1
      <4>2. QED
        BY <1>3, <4>1
    <3>2. QED
      BY <3>1
  <2>2. f = [i \in 0..n |-> IF i = 0 THEN <<>> ELSE Round[<<i, f[i - 1]>>]]
    BY <1>3 DEF IsLoop
  <2> HIDE DEF Round, n
  <2>3. QED
    BY <2>1, <2>2
<1>5. L = Body(L)
  <2>1. L = CHOOSE g : g = Body(g)
    BY DEF LengthValues
  <2> HIDE DEF Body, L
  <2>2. QED
    BY <1>4, <2>1
<1> HIDE DEF L
<1>6. L[0] = <<>>
  <2>1. 0 \in 0..n
    BY <1>0
  <2>2. QED
    BY <1>5, <2>1
<1>7. ASSUME NEW i \in 1..n PROVE L[i] = L[i - 1] \o LengthValue(a[i])
  <2>1. i \in 0..n /\ i # 0
    BY <1>0
  <2>2. QED
    BY <1>5, <2>1
<1> HIDE DEF n
<1>8. L \in [0..n -> Octets]
  <2> DEFINE T == {i \in 0..n : L[i] \in Octets}
  <2>1. 0 \in T
    BY <1>0, <1>6, NoOctets
  <2>2. ASSUME NEW i \in 0..(n - 1), i \in T PROVE i + 1 \in T
    <3>1. i + 1 \in 1..n /\ i + 1 \in 0..n /\ (i + 1) - 1 = i
      BY <1>0
    <3>2. L[i + 1] = L[i] \o LengthValue(a[i + 1])
      BY <1>7, <3>1
    <3>3. L[i] \in Octets /\ LengthValue(a[i + 1]) \in Octets
      BY <1>1, <2>2, <3>1
    <3>4. QED
      BY ZenonT(30), <3>1, <3>2, <3>3, Joins
  <2>3. \A i \in 0..n : i \in T
    <3> HIDE DEF T
    <3>1. QED
      BY <1>0, <2>1, <2>2, Steps
  <2>4. L = [i \in 0..n |-> L[i]]
    BY <1>5
  <2> HIDE DEF Body
  <2>5. QED
    BY <2>3, <2>4
<1>9. QED
  BY <1>6, <1>7, <1>8 DEF L, n

\* r is what is left of the arguments when some of them have been read.
AreSuffixes(r, a) ==
  /\ r \in [0..Len(a) -> Octets]
  /\ r[Len(a)] = <<>>
  /\ \A i \in 1..Len(a) : r[i - 1] = LengthValue(a[i]) \o r[i]

LEMMA SuffixesExist ==
  ASSUME NEW a \in Seq(Octets)
  PROVE  \E r : AreSuffixes(r, a) /\ r[0] = LengthValues(a)[Len(a)]
<1> DEFINE n == Len(a)
           Round == [p \in (1..n) \X Octets |-> LengthValue(a[(n - p[1]) + 1]) \o p[2]]
           L == LengthValues(a)
<1>0. n \in Nat /\ \A i \in 1..n : a[i] \in Octets
  OBVIOUS
<1>1. \A i \in 1..n : LengthValue(a[i]) \in Octets
  <2> HIDE DEF n
  <2>1. QED
    BY <1>0, LengthValueFrames
<1>2. /\ L \in [0..n -> Octets] /\ L[0] = <<>>
      /\ \A i \in 1..n : L[i] = L[i - 1] \o LengthValue(a[i])
  BY LengthValuesLoop
<1> HIDE DEF n, L
<1>3. Round \in [(1..n) \X Octets -> Octets]
  <2>1. ASSUME NEW p \in (1..n) \X Octets
        PROVE  LengthValue(a[(n - p[1]) + 1]) \o p[2] \in Octets
    <3>1. p[1] \in 1..n /\ p[2] \in Octets
      OBVIOUS
    <3>2. (n - p[1]) + 1 \in 1..n
      BY <1>0, <3>1
    <3>3. QED
      BY <1>1, <3>1, <3>2, Joins
  <2>2. QED
    BY <2>1
<1>4. PICK g \in [0..n -> Octets] : IsLoop(g, n, <<>>, Round)
  <2> HIDE DEF Round
  <2>1. QED
    BY <1>0, <1>3, NoOctets, LoopStays
<1> DEFINE r == [i \in 0..n |-> g[n - i]]
<1>5. r \in [0..n -> Octets] /\ \A i \in 0..n : r[i] = g[n - i]
  <2>1. \A i \in 0..n : n - i \in 0..n
    BY <1>0
  <2>2. QED
    BY <1>4, <2>1
<1> HIDE DEF r
<1>6. r[n] = <<>>
  <2>1. n \in 0..n /\ n - n = 0 /\ 0 \in 0..n
    BY <1>0
  <2>2. g[0] = <<>>
    BY <1>4, <2>1 DEF IsLoop
  <2>3. QED
    BY <1>5, <2>1, <2>2
<1>7. ASSUME NEW i \in 1..n PROVE r[i - 1] = LengthValue(a[i]) \o r[i]
  <2> DEFINE j == n - (i - 1)
  <2>1. /\ i - 1 \in 0..n /\ i \in 0..n
        /\ j \in 1..n /\ j \in 0..n /\ j # 0 /\ j - 1 = n - i /\ j - 1 \in 0..n /\ (n - j) + 1 = i
    BY <1>0
  <2>2. r[i - 1] = g[j] /\ r[i] = g[j - 1]
    BY <1>5, <2>1
  <2> HIDE DEF j
  <2>3. g[j] = Round[<<j, g[j - 1]>>]
    BY <1>4, <2>1 DEF IsLoop
  <2>4. <<j, g[j - 1]>> \in (1..n) \X Octets
    BY <1>4, <2>1
  <2>5. Round[<<j, g[j - 1]>>] = LengthValue(a[(n - j) + 1]) \o g[j - 1]
    BY <2>4
  <2>6. QED
    BY <2>1, <2>2, <2>3, <2>5
<1>8. r[0] = L[n]
  <2> DEFINE T == {j \in 0..n : L[n - j] \o r[n - j] = L[n]}
  <2>1. 0 \in T
    <3>1. 0 \in 0..n /\ n - 0 = n /\ n \in 0..n
      BY <1>0
    <3>2. L[n] \o <<>> = L[n]
      BY <1>2, <3>1, JoinsNothing
    <3>3. QED
      BY <1>6, <3>1, <3>2
  <2>2. ASSUME NEW j \in 0..(n - 1), j \in T PROVE j + 1 \in T
    <3> DEFINE i == n - j
    <3>1. i \in 1..n /\ i \in 0..n /\ i - 1 \in 0..n /\ n - (j + 1) = i - 1 /\ j + 1 \in 0..n
      BY <1>0
    <3>2. L[i] \o r[i] = L[n]
      BY <2>2
    <3> HIDE DEF i
    <3>3. L[i] = L[i - 1] \o LengthValue(a[i]) /\ r[i - 1] = LengthValue(a[i]) \o r[i]
      BY <1>2, <1>7, <3>1
    <3>4. L[i - 1] \in Octets /\ LengthValue(a[i]) \in Octets /\ r[i] \in Octets
      BY <1>1, <1>2, <1>5, <3>1
    <3>5. (L[i - 1] \o LengthValue(a[i])) \o r[i] = L[i - 1] \o (LengthValue(a[i]) \o r[i])
      BY <3>4, JoinsAssociate
    <3>6. L[i - 1] \o r[i - 1] = L[n]
      BY <3>2, <3>3, <3>5
    <3>7. QED
      BY <3>1, <3>6
  <2>3. n \in T
    <3>1. n \in 0..n
      BY <1>0
    <3> HIDE DEF T
    <3>2. \A j \in 0..n : j \in T
      BY <1>0, <2>1, <2>2, Steps
    <3>3. QED
      BY <3>1, <3>2
  <2>4. L[0] \o r[0] = L[n]
    <3>1. n - n = 0
      BY <1>0
    <3>2. QED
      BY <2>3, <3>1
  <2>5. 0 \in 0..n
    BY <1>0
  <2>6. QED
    BY <1>2, <1>5, <2>4, <2>5, JoinsNothing
<1>9. AreSuffixes(r, a)
  BY <1>5, <1>6, <1>7 DEF AreSuffixes, n
<1>10. QED
  BY <1>8, <1>9 DEF L, n

(* Every argument takes two octets or more.                                *)
LEMMA SuffixesAreLong ==
  ASSUME NEW a \in Seq(Octets), NEW r, AreSuffixes(r, a)
  PROVE  Len(r[0]) >= Len(a)
<1> DEFINE n == Len(a)
           T == {j \in 0..n : Len(r[n - j]) >= j}
<1>0. /\ n \in Nat /\ r \in [0..n -> Octets] /\ r[n] = <<>>
      /\ \A i \in 1..n : a[i] \in Octets
      /\ \A i \in 1..n : r[i - 1] = LengthValue(a[i]) \o r[i]
  BY DEF AreSuffixes
<1> HIDE DEF n
<1>1. 0 \in T
  <2>1. n - 0 = n /\ 0 \in 0..n
    BY <1>0
  <2>2. Len(r[n - 0]) = 0
    BY <1>0, <2>1, NoOctets
  <2>3. QED
    BY <2>1, <2>2
<1>2. ASSUME NEW j \in 0..(n - 1), j \in T PROVE j + 1 \in T
  <2> DEFINE i == n - j
  <2>1. i \in 1..n /\ i \in 0..n /\ n - (j + 1) = i - 1 /\ j + 1 \in 0..n /\ j \in Nat
    BY <1>0
  <2>2. Len(r[i]) >= j
    BY <1>2
  <2> HIDE DEF i
  <2>3. r[i] \in Octets /\ LengthValue(a[i]) \in Octets /\ Len(LengthValue(a[i])) >= 2
    BY <1>0, <2>1, LengthValueFrames
  <2>4. Len(LengthValue(a[i]) \o r[i]) = Len(LengthValue(a[i])) + Len(r[i])
    BY <2>3, Joins
  <2>5. Len(r[i]) \in Nat /\ Len(LengthValue(a[i])) \in Nat
    BY <2>3, OctetsAre
  <2>6. Len(LengthValue(a[i])) + Len(r[i]) >= j + 1
    <3> DEFINE p == Len(LengthValue(a[i]))
               q == Len(r[i])
    <3>1. p \in Nat /\ p >= 2 /\ q \in Nat /\ q >= j /\ j \in Nat
      BY <2>1, <2>2, <2>3, <2>5
    <3> HIDE DEF p, q
    <3>2. p + q >= j + 1
      BY <3>1
    <3>3. QED
      BY <3>2 DEF p, q
  <2>7. r[n - (j + 1)] = LengthValue(a[i]) \o r[i]
    BY <1>0, <2>1
  <2>8. QED
    BY <2>1, <2>4, <2>6, <2>7
<1>3. n \in T
  <2>1. n \in 0..n
    BY <1>0
  <2> HIDE DEF T
  <2>2. \A j \in 0..n : j \in T
    BY <1>0, <1>1, <1>2, Steps
  <2>3. QED
    BY <2>1, <2>2
<1>4. n - n = 0
  BY <1>0
<1>5. QED
  BY <1>3, <1>4 DEF n

LEMMA ReadArgumentReads ==
  ASSUME NEW args, NEW v \in Octets, NEW t \in Octets
  PROVE  ReadArgument(Reading(args, LengthValue(v) \o t)) = Reading(Append(args, v), t)
<1> DEFINE s == LengthValue(v) \o t
           loop == Reading(args, s)
<1>1. ReadLV[s] = Got(v, t)
  BY ReadLVExact
<1> HIDE DEF s
<1>2. loop.kind = "reading" /\ loop.value = args /\ loop.rest = s
  BY DEF Reading
<1>3. Got(v, t).kind = "value" /\ Got(v, t).value = v /\ Got(v, t).rest = t
  BY DEF Got
<1> HIDE DEF loop
<1>4. ReadArgument(loop) = Reading(Append(args, v), t)
  BY <1>1, <1>2, <1>3 DEF ReadArgument
<1>5. QED
  BY <1>4 DEF loop, s

LEMMA ReadArgumentEnds ==
  ASSUME NEW args
  PROVE  /\ ReadArgument(Reading(args, <<>>)) = Got(args, <<>>)
         /\ ReadArgument(Got(args, <<>>)) = Got(args, <<>>)
<1>1. ReadLV[<<>>] = [kind |-> "ended"]
  <2>1. <<>> \in Octets /\ DOMAIN <<>> = {}
    BY NoOctets
  <2>2. IndexByte(<<>>, Colon) = 0
    BY <2>1, IndexByteIsNone
  <2>3. QED
    BY <2>1, <2>2, ReadLVDef DEF ReadLVOf
<1> DEFINE loop == Reading(args, <<>>)
           done == Got(args, <<>>)
<1>2. loop.kind = "reading" /\ loop.value = args /\ loop.rest = <<>> /\ done.kind = "value"
  BY DEF Reading, Got
<1>3. done = Got(args, <<>>)
  OBVIOUS
<1> HIDE DEF loop, done
<1>4. ReadArgument(loop) = Got(args, <<>>)
  <2>1. ReadLV[loop.rest].kind = "ended"
    BY <1>1, <1>2
  <2>2. ReadLV[loop.rest].kind # "value"
    BY <2>1
  <2>3. QED
    BY <1>2, <2>1, <2>2 DEF ReadArgument
<1>5. ReadArgument(done) = done
  BY <1>2 DEF ReadArgument
<1>6. QED
  BY <1>3, <1>4, <1>5 DEF loop

(* The arguments are read as they were written.                            *)
LEMMA ReadArgumentsExact ==
  ASSUME NEW a \in Seq(Octets)
  PROVE  LET content == LengthValues(a)[Len(a)]
         IN  ReadArguments(content)[Len(content) + 1] = Got(a, <<>>)
<1> DEFINE n == Len(a)
<1>0. n \in Nat /\ \A i \in 1..n : a[i] \in Octets
  OBVIOUS
<1>1. PICK r : AreSuffixes(r, a) /\ r[0] = LengthValues(a)[n]
  BY SuffixesExist
<1>2. /\ r \in [0..n -> Octets] /\ r[n] = <<>>
      /\ \A i \in 1..n : r[i - 1] = LengthValue(a[i]) \o r[i]
  BY <1>1 DEF AreSuffixes
<1>3. Len(r[0]) >= n
  BY <1>1, SuffixesAreLong
<1> DEFINE content == r[0]
           m == Len(content) + 1
           f == [i \in 0..m |-> IF i <= n THEN Reading(SubSeq(a, 1, i), r[i]) ELSE Got(a, <<>>)]
           Body(g) == [i \in 0..m |-> IF i = 0 THEN Reading(<<>>, content) ELSE ReadArgument(g[i - 1])]
           L == ReadArguments(content)
<1>4. m \in Nat /\ m >= n + 1
  <2>1. r[0] \in Octets
    BY <1>0, <1>2
  <2>2. Len(r[0]) \in Nat
    BY <2>1, OctetsAre
  <2>3. QED
    BY <1>0, <1>3, <2>2
<1>5. L = CHOOSE g : g = Body(g)
  BY DEF ReadArguments
<1> HIDE DEF n, L
<1>6. f[0] = Reading(<<>>, content)
  <2>1. 0 \in 0..m /\ 0 <= n
    BY <1>0, <1>4
  <2>2. SubSeq(a, 1, 0) = <<>>
    BY SubSeqEmpty
  <2>3. QED
    BY <2>1, <2>2
<1>7. ASSUME NEW i \in 1..m PROVE f[i] = ReadArgument(f[i - 1])
  <2>0. i \in 0..m /\ i - 1 \in 0..m /\ i \in Nat
    BY <1>4
  <2>1. CASE i <= n
    <3>1. i \in 1..n /\ i - 1 <= n /\ i \in 0..n
      BY <1>0, <2>0, <2>1
    <3>2. f[i] = Reading(SubSeq(a, 1, i), r[i]) /\ f[i - 1] = Reading(SubSeq(a, 1, i - 1), r[i - 1])
      BY <2>0, <2>1, <3>1
    <3>3. SubSeq(a, 1, i) = Append(SubSeq(a, 1, i - 1), a[i])
      BY <3>1 DEF n
    <3>4. a[i] \in Octets /\ r[i] \in Octets /\ r[i - 1] = LengthValue(a[i]) \o r[i]
      BY <1>0, <1>2, <3>1
    <3> DEFINE before == SubSeq(a, 1, i - 1)
    <3> HIDE DEF f, before
    <3>5. ReadArgument(Reading(before, LengthValue(a[i]) \o r[i])) = Reading(Append(before, a[i]), r[i])
      BY <3>4, ReadArgumentReads
    <3>6. QED
      BY <3>2, <3>3, <3>4, <3>5, Zenon DEF before
  <2>2. CASE i = n + 1
    <3>1. ~(i <= n) /\ i - 1 = n /\ n <= n
      BY <1>0, <2>0, <2>2
    <3>2. f[i] = Got(a, <<>>) /\ f[i - 1] = Reading(SubSeq(a, 1, n), r[n])
      BY <2>0, <3>1
    <3>3. SubSeq(a, 1, n) = a
      BY <1>0 DEF n
    <3> HIDE DEF f
    <3>4. QED
      BY <1>2, <3>2, <3>3, ReadArgumentEnds
  <2>3. CASE i > n + 1
    <3>1. ~(i <= n) /\ ~(i - 1 <= n)
      BY <1>0, <2>0, <2>3
    <3>2. f[i] = Got(a, <<>>) /\ f[i - 1] = Got(a, <<>>)
      BY <2>0, <3>1
    <3> HIDE DEF f
    <3>3. QED
      BY <3>2, ReadArgumentEnds
  <2>4. QED
    BY <1>0, <2>0, <2>1, <2>2, <2>3
<1>8. f = Body(f)
  <2>1. ASSUME NEW i \in 0..m
        PROVE  f[i] = IF i = 0 THEN Reading(<<>>, content) ELSE ReadArgument(f[i - 1])
    <3>1. CASE i = 0
      BY <1>6, <3>1
    <3>2. CASE i # 0
      <4>1. i \in 1..m
        BY <1>4, <3>2
      <4> HIDE DEF f
      <4>2. QED
        BY <1>7, <3>2, <4>1
    <3>3. QED
      BY <3>1, <3>2
  <2>2. f = [i \in 0..m |-> f[i]]
    OBVIOUS
  <2> HIDE DEF f, m
  <2>3. QED
    BY <2>1, <2>2
<1>9. L = Body(L)
  <2> HIDE DEF f, Body
  <2>1. QED
    BY <1>5, <1>8
<1> HIDE DEF f, m
<1>10. L[m] = f[m]
  <2> DEFINE T == {i \in 0..m : L[i] = f[i]}
  <2>1. 0 \in T
    <3>1. 0 \in 0..m
      BY <1>4
    <3>2. L[0] = Reading(<<>>, content)
      BY <1>9, <3>1
    <3>3. QED
      BY <1>6, <3>1, <3>2
  <2>2. ASSUME NEW i \in 0..(m - 1), i \in T PROVE i + 1 \in T
    <3>1. i + 1 \in 1..m /\ i + 1 \in 0..m /\ (i + 1) - 1 = i /\ i + 1 # 0
      BY <1>4
    <3>2. L[i + 1] = ReadArgument(L[i])
      BY <1>9, <3>1
    <3>3. QED
      BY <1>7, <2>2, <3>1, <3>2
  <2>3. m \in 0..m
    BY <1>4
  <2> HIDE DEF T
  <2>4. \A i \in 0..m : i \in T
    BY <1>4, <2>1, <2>2, Steps
  <2>5. QED
    BY <2>3, <2>4 DEF T
<1>11. f[m] = Got(a, <<>>)
  <2>1. m \in 0..m /\ ~(m <= n)
    BY <1>0, <1>4
  <2>2. QED
    BY <2>1 DEF f
<1>12. QED
  BY <1>1, <1>10, <1>11 DEF L, m, n

LEMMA MessageContent ==
  ASSUME NEW m \in Messages
  PROVE  LET args    == LengthValues(m.arguments)[Len(m.arguments)]
             content == LengthValue(m.operation) \o args
         IN  /\ m.operation \in Octets /\ m.arguments \in Seq(Octets)
             /\ args \in Octets /\ content \in Octets
             /\ EncodeMessage(m) = LengthValue(content)
             /\ EncodeMessage(m) \in Octets /\ Len(EncodeMessage(m)) >= 2
<1> DEFINE a       == m.arguments
           args    == LengthValues(a)[Len(a)]
           content == LengthValue(m.operation) \o args
<1>1. m.operation \in Octets /\ a \in Seq(Octets)
  BY DEF Messages
<1>2. args \in Octets
  <2>1. Len(a) \in 0..Len(a)
    BY <1>1
  <2>2. LengthValues(a) \in [0..Len(a) -> Octets]
    <3> HIDE DEF a
    <3>1. QED
      BY <1>1, LengthValuesLoop
  <2> HIDE DEF a
  <2>3. QED
    BY <2>1, <2>2
<1>3. content \in Octets
  <2> HIDE DEF args
  <2>1. LengthValue(m.operation) \in Octets
    BY <1>1, LengthValueFrames
  <2>2. QED
    BY <1>2, <2>1, Joins
<1>4. EncodeMessage(m) = LengthValue(content)
  BY DEF EncodeMessage
<1>5. EncodeMessage(m) \in Octets /\ Len(EncodeMessage(m)) >= 2
  <2> HIDE DEF content
  <2>1. LengthValue(content) \in Octets /\ Len(LengthValue(content)) >= 2
    BY <1>3, LengthValueFrames
  <2>2. QED
    BY <1>4, <2>1
<1>6. QED
  BY <1>1, <1>2, <1>3, <1>4, <1>5

LEMMA GotIs ==
  ASSUME NEW v, NEW t
  PROVE  Got(v, t).kind = "value" /\ Got(v, t).value = v /\ Got(v, t).rest = t
BY DEF Got

LEMMA MessageInExact ==
  ASSUME NEW m \in Messages, NEW t \in Octets
  PROVE  MessageIn(LengthValue(m.operation) \o LengthValues(m.arguments)[Len(m.arguments)], t)
           = Got(m, t)
<1> DEFINE a       == m.arguments
           args    == LengthValues(a)[Len(a)]
           content == LengthValue(m.operation) \o args
<1>1. m.operation \in Octets /\ a \in Seq(Octets) /\ args \in Octets /\ content \in Octets
  BY MessageContent
<1>2. ReadLV[content] = Got(m.operation, args)
  <2> HIDE DEF args
  <2>1. QED
    BY <1>1, ReadLVExact
<1>3. ReadArguments(args)[Len(args) + 1] = Got(a, <<>>)
  <2> HIDE DEF a
  <2>1. QED
    BY <1>1, ReadArgumentsExact
<1> HIDE DEF content, args
<1> DEFINE op == ReadLV[content]
<1>4. op.kind = "value" /\ op.value = m.operation /\ op.rest = args
  BY <1>2, GotIs
<1>5. MessageIn(content, t) =
        LET loop == ReadArguments(op.rest)[Len(op.rest) + 1]
        IN  IF op.kind # "value" \/ loop.kind # "value" THEN Invalid(t)
            ELSE Got(Message(op.value, loop.value), t)
  BY Zenon DEF MessageIn
<1> HIDE DEF op
<1>6. ReadArguments(op.rest)[Len(op.rest) + 1] = Got(a, <<>>)
  BY <1>3, <1>4
<1>7. MessageIn(content, t) = Got(Message(m.operation, a), t)
  BY <1>4, <1>5, <1>6, GotIs
<1>8. Message(m.operation, a) = m
  BY DEF Message, Messages
<1>9. QED
  BY <1>7, <1>8 DEF content, args

(* A message that has arrived whole is read as it was written, and nothing *)
(* of what follows it is touched.                                          *)
THEOREM MessagesArriveExactly ==
  ASSUME NEW m \in Messages, NEW t \in Octets
  PROVE  DecodeMessage[EncodeMessage(m) \o t] = Got(m, t)
<1> DEFINE args    == LengthValues(m.arguments)[Len(m.arguments)]
           content == LengthValue(m.operation) \o args
           s       == EncodeMessage(m) \o t
<1>1. content \in Octets /\ EncodeMessage(m) = LengthValue(content) /\ EncodeMessage(m) \in Octets
  BY MessageContent
<1>2. MessageIn(content, t) = Got(m, t)
  BY MessageInExact
<1> HIDE DEF content
<1>3. s \in Octets
  BY <1>1, Joins
<1>4. ReadLV[s] = Got(content, t)
  BY <1>1, ReadLVExact
<1> HIDE DEF s
<1> DEFINE outer == ReadLV[s]
<1>5. outer.kind = "value" /\ outer.value = content /\ outer.rest = t
  BY <1>4, GotIs
<1>6. DecodeMessage[s] = IF outer.kind \in {"ended", "short"} THEN Incomplete
                         ELSE IF outer.kind = "invalid" THEN outer
                         ELSE MessageIn(outer.value, outer.rest)
  BY <1>3, Zenon DEF DecodeMessage
<1> HIDE DEF outer
<1>7. outer.kind \notin {"ended", "short"} /\ outer.kind # "invalid"
  BY <1>5
<1>8. DecodeMessage[s] = MessageIn(outer.value, outer.rest)
  BY <1>5, <1>6, <1>7
<1>9. QED
  BY <1>2, <1>5, <1>8 DEF s

(* One that has not is waited for, wherever it is cut off.                 *)
THEOREM CutMessagesAreWaitedFor ==
  ASSUME NEW m \in Messages, NEW n \in 0..(Len(EncodeMessage(m)) - 1)
  PROVE  DecodeMessage[SubSeq(EncodeMessage(m), 1, n)] = Incomplete
<1> DEFINE args    == LengthValues(m.arguments)[Len(m.arguments)]
           content == LengthValue(m.operation) \o args
           s       == SubSeq(EncodeMessage(m), 1, n)
<1>1. content \in Octets /\ EncodeMessage(m) = LengthValue(content)
  BY MessageContent
<1> HIDE DEF content
<1>2. s \in Octets /\ ReadLV[s] \in {[kind |-> "ended"], [kind |-> "short"]}
  <2>1. n \in 0..(Len(LengthValue(content)) - 1)
    BY <1>1
  <2>2. QED
    BY <1>1, <2>1, ReadLVCut
<1> HIDE DEF s
<1> DEFINE outer == ReadLV[s]
<1>3. DecodeMessage[s] = IF outer.kind \in {"ended", "short"} THEN Incomplete
                         ELSE IF outer.kind = "invalid" THEN outer
                         ELSE MessageIn(outer.value, outer.rest)
  BY <1>2, Zenon DEF DecodeMessage
<1>4. outer.kind \in {"ended", "short"}
  BY <1>2
<1> HIDE DEF outer
<1>5. outer.kind # "invalid" /\ outer.kind # "value"
  BY <1>4
<1>6. DecodeMessage[s] = Incomplete
  BY <1>3, <1>4, <1>5
<1>7. QED
  BY <1>6 DEF s

-----------------------------------------------------------------------------
(***************************************************************************)
(* What the handler carries out.                                           *)
(***************************************************************************)
\* at[i] is what the stream to the handler held, or will hold, when i messages of
\* s have been read, if nothing more is sent; e of them have been, k are whole, and
\* one more is cut off.
Arranged(s, e, stream, cut, k, at) ==
  /\ e <= k /\ at[e] = stream
  /\ \A i \in (e + 1)..k : at[i - 1] = EncodeMessage(s[i]) \o at[i]
  /\ \/ k = Len(s) /\ at[k] = <<>>
     \/ /\ cut /\ k + 1 = Len(s)
        /\ \E n \in 0..(Len(EncodeMessage(s[k + 1])) - 1) :
             at[k] = SubSeq(EncodeMessage(s[k + 1]), 1, n)

RequestsAre(k, at) == Arranged(sent, Len(executed), requests, client = "closed", k, at)

RequestInv ==
  /\ sent \in Seq(Messages) /\ executed \in Seq(Messages) /\ requests \in Octets
  /\ Len(executed) <= Len(sent) /\ \A i \in 1..Len(executed) : executed[i] = sent[i]
  /\ \E k \in 0..Len(sent) : \E at \in [0..k -> Octets] : RequestsAre(k, at)

LEMMA RequestInvStays ==
  ASSUME RequestInv, UNCHANGED <<sent, requests, executed>>,
         client = "closed" => client' = "closed"
  PROVE  RequestInv'
<1>1. PICK k \in 0..Len(sent) : \E at \in [0..k -> Octets] : RequestsAre(k, at)
  BY DEF RequestInv
<1>2. PICK at \in [0..k -> Octets] : RequestsAre(k, at)
  BY <1>1
<1>3. RequestsAre(k, at)'
  BY <1>2 DEF RequestsAre, Arranged
<1>4. QED
  BY <1>1, <1>2, <1>3 DEF RequestInv

\* The whole messages, and the last one cut off behind n of its octets.
LEMMA RequestInvTorn ==
  ASSUME RequestInv, client # "closed", NEW m \in Messages, sent' = Append(sent, m),
         UNCHANGED executed, client' = "closed",
         NEW n \in 0..(Len(EncodeMessage(m)) - 1),
         requests' = requests \o SubSeq(EncodeMessage(m), 1, n)
  PROVE  RequestInv'
<1> DEFINE k == Len(sent)
           e == Len(executed)
           c == SubSeq(EncodeMessage(m), 1, n)
<1>1. /\ k \in Nat /\ e \in Nat /\ sent \in Seq(Messages) /\ executed \in Seq(Messages)
      /\ requests \in Octets /\ e <= k /\ \A i \in 1..e : executed[i] = sent[i]
  BY DEF RequestInv
<1>2. PICK at \in [0..k -> Octets] :
        /\ e <= k /\ at[e] = requests /\ at[k] = <<>>
        /\ \A i \in (e + 1)..k : at[i - 1] = EncodeMessage(sent[i]) \o at[i]
  BY DEF RequestInv, RequestsAre, Arranged
<1>3. /\ sent' \in Seq(Messages) /\ Len(sent') = k + 1 /\ sent'[k + 1] = m
      /\ \A i \in 1..k : sent'[i] = sent[i]
  BY <1>1, AppendProperties
<1>4. c \in Octets
  <2>1. EncodeMessage(m) \in Octets
    BY MessageContent
  <2>2. 1 \in 1..(Len(EncodeMessage(m)) + 1) /\ n \in (1 - 1)..Len(EncodeMessage(m))
    BY <2>1, OctetsAre
  <2>3. QED
    BY <2>1, <2>2, Pieces
<1> HIDE DEF c
<1> DEFINE new == [i \in 0..k |-> at[i] \o c]
<1>5. \A i \in 0..k : at[i] \o c \in Octets
  BY <1>2, <1>4, Joins
<1>6. new \in [0..k -> Octets] /\ \A i \in 0..k : new[i] = at[i] \o c
  BY <1>5
<1> HIDE DEF new
<1>7. new[e] = requests' /\ e \in 0..k
  <2>1. e \in 0..k
    BY <1>1
  <2>2. new[e] = at[e] \o c /\ at[e] = requests
    BY <1>2, <1>6, <2>1
  <2>3. requests' = requests \o c
    BY DEF c
  <2>4. QED
    BY <2>1, <2>2, <2>3
<1>8. new[k] = c
  <2>1. k \in 0..k
    BY <1>1
  <2>2. QED
    BY <1>2, <1>4, <1>6, <2>1, JoinsNothing
<1>9. ASSUME NEW i \in (e + 1)..k PROVE new[i - 1] = EncodeMessage(sent[i]) \o new[i]
  <2>1. i \in 1..k /\ i \in 0..k /\ i - 1 \in 0..k
    BY <1>1, <1>7
  <2>2. EncodeMessage(sent[i]) \in Octets
    <3>1. sent[i] \in Messages
      BY <1>1, <2>1
    <3>2. QED
      BY <3>1, MessageContent
  <2>3. (EncodeMessage(sent[i]) \o at[i]) \o c = EncodeMessage(sent[i]) \o (at[i] \o c)
    BY SMTT(30), <1>2, <1>4, <2>1, <2>2, JoinsAssociate
  <2>4. QED
    BY <1>2, <1>6, <2>1, <2>3
<1>10. Arranged(sent', e, requests', TRUE, k, new)
  <2>1. \A i \in (e + 1)..k : new[i - 1] = EncodeMessage(sent'[i]) \o new[i]
    <3>1. \A i \in (e + 1)..k : i \in 1..k
      BY <1>1
    <3>2. QED
      BY <1>3, <1>9, <3>1
  <2>2. new[k] = SubSeq(EncodeMessage(sent'[k + 1]), 1, n)
        /\ n \in 0..(Len(EncodeMessage(sent'[k + 1])) - 1)
    BY <1>3, <1>8 DEF c
  <2> HIDE DEF k, e
  <2>3. QED
    BY <1>1, <1>3, <1>7, <2>1, <2>2 DEF Arranged
<1>11. k \in 0..Len(sent')
  BY <1>1, <1>3
<1>12. requests' \in Octets /\ executed' \in Seq(Messages)
  BY <1>1, <1>6, <1>7
<1>13. e <= Len(sent') /\ \A i \in 1..e : executed'[i] = sent'[i]
  <2>1. e <= k + 1 /\ \A i \in 1..e : i \in 1..k
    BY <1>1
  <2>2. QED
    BY <1>1, <1>3, <2>1
<1>14. Len(executed') = e /\ (client' = "closed" <=> TRUE)
  OBVIOUS
<1>15. \E i \in 0..Len(sent') : \E f \in [0..i -> Octets] :
         Arranged(sent', Len(executed'), requests', client' = "closed", i, f)
  <2> HIDE DEF k, e
  <2>1. Arranged(sent', Len(executed'), requests', client' = "closed", k, new)
    BY <1>10, <1>14
  <2>2. QED
    BY <1>6, <1>11, <2>1
<1>16. QED
  <2> HIDE DEF k, e
  <2>1. QED
    BY <1>3, <1>12, <1>13, <1>14, <1>15 DEF RequestInv, RequestsAre

LEMMA RequestInvSent ==
  ASSUME RequestInv, client # "closed", NEW m \in Messages, sent' = Append(sent, m),
         UNCHANGED executed, requests' = requests \o EncodeMessage(m)
  PROVE  RequestInv'
<1> DEFINE k == Len(sent)
           e == Len(executed)
           c == EncodeMessage(m)
<1>1. /\ k \in Nat /\ e \in Nat /\ sent \in Seq(Messages) /\ executed \in Seq(Messages)
      /\ requests \in Octets /\ e <= k /\ \A i \in 1..e : executed[i] = sent[i]
  BY SMTT(30) DEF RequestInv
<1>2. PICK at \in [0..k -> Octets] :
        /\ e <= k /\ at[e] = requests /\ at[k] = <<>>
        /\ \A i \in (e + 1)..k : at[i - 1] = EncodeMessage(sent[i]) \o at[i]
  BY DEF RequestInv, RequestsAre, Arranged
<1>3. /\ sent' \in Seq(Messages) /\ Len(sent') = k + 1 /\ sent'[k + 1] = m
      /\ \A i \in 1..k : sent'[i] = sent[i]
  BY <1>1, AppendProperties
<1>4. c \in Octets
  BY MessageContent
<1> HIDE DEF c
<1> DEFINE new == [i \in 0..(k + 1) |-> IF i = k + 1 THEN <<>> ELSE at[i] \o c]
<1>5. \A i \in 0..k : at[i] \o c \in Octets
  BY <1>2, <1>4, Joins
<1>6. /\ new \in [0..(k + 1) -> Octets] /\ new[k + 1] = <<>>
      /\ \A i \in 0..k : new[i] = at[i] \o c
  <2>1. \A i \in 0..(k + 1) : i # k + 1 => i \in 0..k
    BY <1>1
  <2>2. k + 1 \in 0..(k + 1) /\ \A i \in 0..k : i \in 0..(k + 1) /\ i # k + 1
    BY <1>1
  <2>3. QED
    BY <1>5, <2>1, <2>2, NoOctets
<1> HIDE DEF new
<1>7. new[e] = requests' /\ e \in 0..k
  <2>1. e \in 0..k
    BY <1>1
  <2>2. new[e] = at[e] \o c /\ at[e] = requests
    BY <1>2, <1>6, <2>1
  <2>3. requests' = requests \o c
    BY DEF c
  <2>4. QED
    BY <2>1, <2>2, <2>3
<1>8. new[k] = c
  <2>1. k \in 0..k
    BY <1>1
  <2>2. QED
    BY <1>2, <1>4, <1>6, <2>1, JoinsNothing
<1>9. ASSUME NEW i \in (e + 1)..(k + 1) PROVE new[i - 1] = EncodeMessage(sent'[i]) \o new[i]
  <2>1. CASE i = k + 1
    <3>1. i - 1 = k /\ c \o <<>> = c
      BY <1>1, <1>4, <2>1, JoinsNothing
    <3>2. QED
      BY <1>3, <1>6, <1>8, <2>1, <3>1 DEF c
  <2>2. CASE i # k + 1
    <3>1. i \in 1..k /\ i \in 0..k /\ i - 1 \in 0..k /\ i \in (e + 1)..k
      BY <1>1, <1>7, <2>2
    <3>2. EncodeMessage(sent[i]) \in Octets
      <4>1. sent[i] \in Messages
        BY <1>1, <3>1
      <4>2. QED
        BY <4>1, MessageContent
    <3>3. (EncodeMessage(sent[i]) \o at[i]) \o c = EncodeMessage(sent[i]) \o (at[i] \o c)
      BY SMTT(30), <1>2, <1>4, <3>1, <3>2, JoinsAssociate
    <3>4. QED
      BY <1>2, <1>3, <1>6, <3>1, <3>3
  <2>3. QED
    BY <2>1, <2>2
<1>10. Arranged(sent', e, requests', client' = "closed", k + 1, new)
  <2>1. e <= k + 1
    BY <1>1
  <2> HIDE DEF k, e
  <2>2. QED
    BY <1>3, <1>6, <1>7, <1>9, <2>1 DEF Arranged
<1>11. k + 1 \in 0..Len(sent')
  BY <1>1, <1>3
<1>12. requests' \in Octets /\ executed' \in Seq(Messages)
  <2>1. new[e] \in Octets
    BY <1>5, <1>6, <1>7
  <2>2. QED
    BY <1>1, <1>7, <2>1
<1>13. e <= Len(sent') /\ \A i \in 1..e : executed'[i] = sent'[i]
  <2>1. e <= k + 1 /\ \A i \in 1..e : i \in 1..k
    BY <1>1
  <2>2. QED
    BY <1>1, <1>3, <2>1
<1>14. Len(executed') = e /\ (client' = "closed" <=> client' = "closed")
  OBVIOUS
<1>15. \E i \in 0..Len(sent') : \E f \in [0..i -> Octets] :
         Arranged(sent', Len(executed'), requests', client' = "closed", i, f)
  <2> HIDE DEF k, e
  <2>1. Arranged(sent', Len(executed'), requests', client' = "closed", k + 1, new)
    BY <1>10, <1>14
  <2>2. QED
    BY <1>6, <1>11, <2>1
<1>16. QED
  <2> HIDE DEF k, e
  <2>1. QED
    BY <1>3, <1>12, <1>13, <1>14, <1>15 DEF RequestInv, RequestsAre

(* What the handler reads is the next message that the client has sent.    *)
LEMMA HandlerReads ==
  ASSUME RequestInv, Request.kind = "value"
  PROVE  /\ Len(executed) < Len(sent)
         /\ Request.value = sent[Len(executed) + 1]
         /\ sent[Len(executed) + 1] \in Messages
         /\ \A k \in 0..Len(sent) : \A at \in [0..k -> Octets] :
              RequestsAre(k, at) =>
                Len(executed) < k /\ Request.rest = at[Len(executed) + 1]
<1> DEFINE e == Len(executed)
<1>1. e \in Nat /\ sent \in Seq(Messages) /\ Len(sent) \in Nat
  BY DEF RequestInv
<1>2. ASSUME NEW k \in 0..Len(sent), NEW at \in [0..k -> Octets], RequestsAre(k, at)
      PROVE  /\ e < k /\ sent[e + 1] \in Messages
             /\ Request = Got(sent[e + 1], at[e + 1])
  <2>1. /\ e <= k /\ at[e] = requests
        /\ \A i \in (e + 1)..k : at[i - 1] = EncodeMessage(sent[i]) \o at[i]
        /\ \/ k = Len(sent) /\ at[k] = <<>>
           \/ /\ k + 1 = Len(sent)
              /\ \E n \in 0..(Len(EncodeMessage(sent[k + 1])) - 1) :
                   at[k] = SubSeq(EncodeMessage(sent[k + 1]), 1, n)
    BY <1>2 DEF RequestsAre, Arranged
  <2>2. ASSUME e = k PROVE FALSE
    <3>1. requests = at[k]
      BY <2>1, <2>2
    <3>2. CASE at[k] = <<>>
      <4>1. Message(<<>>, <<>>) \in Messages
        BY NoOctets DEF Message, Messages
      <4>2. PICK m \in Messages : TRUE
        BY <4>1
      <4>3. 0 \in 0..(Len(EncodeMessage(m)) - 1) /\ EncodeMessage(m) \in Octets
        BY MessageContent, OctetsAre
      <4>4. SubSeq(EncodeMessage(m), 1, 0) = <<>>
        BY SubSeqEmpty
      <4>5. DecodeMessage[<<>>] = Incomplete
        <5> DEFINE n == 0
        <5>1. n \in 0..(Len(EncodeMessage(m)) - 1) /\ SubSeq(EncodeMessage(m), 1, n) = <<>>
          BY <4>3, <4>4
        <5> HIDE DEF n
        <5>2. DecodeMessage[SubSeq(EncodeMessage(m), 1, n)] = Incomplete
          BY <5>1, CutMessagesAreWaitedFor
        <5>3. QED
          BY <5>1, <5>2
      <4>6. QED
        BY <3>1, <3>2, <4>5 DEF Request, Incomplete
    <3>3. CASE at[k] # <<>>
      <4>1. k + 1 = Len(sent)
        BY <2>1, <3>3
      <4>2. PICK n \in 0..(Len(EncodeMessage(sent[k + 1])) - 1) :
              at[k] = SubSeq(EncodeMessage(sent[k + 1]), 1, n)
        BY <2>1, <3>3
      <4>3. sent[k + 1] \in Messages
        <5>1. k + 1 \in 1..Len(sent)
          BY <1>1, <4>1
        <5>2. QED
          BY <1>1, <5>1
      <4>4. DecodeMessage[at[k]] = Incomplete
        BY <4>2, <4>3, CutMessagesAreWaitedFor
      <4>5. QED
        BY <3>1, <4>4 DEF Request, Incomplete
    <3>4. QED
      BY <3>2, <3>3
  <2>3. e < k
    BY <1>1, <2>1, <2>2
  <2>4. e + 1 \in (e + 1)..k /\ e + 1 \in 0..k /\ (e + 1) - 1 = e /\ e + 1 \in 1..Len(sent)
    BY <1>1, <2>3
  <2>5. sent[e + 1] \in Messages /\ at[e + 1] \in Octets
    BY <1>1, <1>2, <2>4
  <2>6. requests = EncodeMessage(sent[e + 1]) \o at[e + 1]
    BY <2>1, <2>4
  <2>7. DecodeMessage[requests] = Got(sent[e + 1], at[e + 1])
    BY <2>5, <2>6, MessagesArriveExactly
  <2>8. QED
    BY <2>3, <2>5, <2>7 DEF Request
<1>3. PICK k \in 0..Len(sent) : \E at \in [0..k -> Octets] : RequestsAre(k, at)
  BY DEF RequestInv
<1>4. e < k /\ sent[e + 1] \in Messages /\ Request.value = sent[e + 1]
  BY <1>2, <1>3, GotIs
<1>5. e < Len(sent)
  BY <1>1, <1>4
<1>6. QED
  BY <1>2, <1>4, <1>5, GotIs

LEMMA RequestInvReceived ==
  ASSUME RequestInv, Request.kind = "value", requests' = Request.rest,
         executed' = Append(executed, Request.value), UNCHANGED <<client, sent>>
  PROVE  RequestInv'
<1> DEFINE e == Len(executed)
<1>1. /\ e \in Nat /\ sent \in Seq(Messages) /\ Len(sent) \in Nat /\ executed \in Seq(Messages)
      /\ \A i \in 1..e : executed[i] = sent[i]
  BY DEF RequestInv
<1>2. PICK k \in 0..Len(sent) : \E at \in [0..k -> Octets] : RequestsAre(k, at)
  BY DEF RequestInv
<1>3. PICK at \in [0..k -> Octets] : RequestsAre(k, at)
  BY <1>2
<1>4. /\ e < k /\ Request.rest = at[e + 1]
      /\ Request.value = sent[e + 1] /\ sent[e + 1] \in Messages
  BY <1>2, <1>3, HandlerReads
<1>5. /\ executed' \in Seq(Messages) /\ Len(executed') = e + 1
      /\ executed'[e + 1] = sent[e + 1]
      /\ \A i \in 1..e : executed'[i] = executed[i]
  BY <1>1, <1>4, AppendProperties
<1>6. Arranged(sent, e + 1, requests', client = "closed", k, at)
  <2>1. e + 1 <= k
    BY <1>1, <1>2, <1>4
  <2>2. \A i \in ((e + 1) + 1)..k : i \in (e + 1)..k
    BY <1>1
  <2> HIDE DEF e
  <2>3. Arranged(sent, e, requests, client = "closed", k, at)
    BY <1>3 DEF RequestsAre, e
  <2>4. QED
    BY <1>4, <2>1, <2>2, <2>3 DEF Arranged
<1>7. requests' \in Octets
  <2>1. e + 1 \in 0..k
    BY <1>1, <1>2, <1>4
  <2>2. QED
    BY <1>4, <2>1
<1>8. RequestsAre(k, at)'
  BY <1>5, <1>6 DEF RequestsAre
<1>9. e + 1 <= Len(sent) /\ \A i \in 1..(e + 1) : executed'[i] = sent[i]
  <2>1. e + 1 <= Len(sent) /\ \A i \in 1..(e + 1) : i # e + 1 => i \in 1..e
    BY <1>1, <1>2, <1>4
  <2>2. QED
    BY <1>1, <1>5, <2>1
<1>10. \E i \in 0..Len(sent') : \E f \in [0..i -> Octets] : RequestsAre(i, f)'
  BY <1>8
<1>11. QED
  BY <1>1, <1>5, <1>7, <1>9, <1>10 DEF RequestInv

LEMMA LogoutIsMessage == Logout \in Messages
<1>1. LOGOUT \in Seq(Octet)
  BY DEF LOGOUT, Octet
<1>2. <<>> \in Seq(Octets)
  OBVIOUS
<1>3. QED
  BY <1>1, <1>2 DEF Logout, Message, Messages, Octets

LEMMA RequestInvLeave ==
  ASSUME RequestInv, client # "closed", NEW m \in Messages, Leave(m)
  PROVE  RequestInv'
<1> DEFINE octets == EncodeMessage(m)
<1>1. PICK n \in {Len(octets) \div 2, Len(octets) - 1, Len(octets)} :
        requests' = requests \o SubSeq(octets, 1, n)
  BY DEF Leave
<1>2. sent' = Append(sent, m) /\ client' = "closed" /\ UNCHANGED executed
  BY DEF Leave, handlerVars
<1>3. octets \in Octets /\ Len(octets) >= 2 /\ Len(octets) \in Nat
  BY MessageContent, OctetsAre
<1> HIDE DEF octets
<1>4. CASE n = Len(octets)
  <2>1. SubSeq(octets, 1, n) = octets
    BY <1>3, <1>4 DEF Octets
  <2>2. requests' = requests \o EncodeMessage(m)
    BY <1>1, <2>1 DEF octets
  <2>3. QED
    BY <1>2, <2>2, RequestInvSent
<1>5. CASE n # Len(octets)
  <2>1. n \in 0..(Len(octets) - 1)
    BY <1>3, <1>5
  <2>2. n \in 0..(Len(EncodeMessage(m)) - 1) /\ requests' = requests \o SubSeq(EncodeMessage(m), 1, n)
    BY <1>1, <2>1 DEF octets
  <2>3. QED
    BY <1>2, <2>2, RequestInvTorn
<1>6. QED
  BY <1>4, <1>5

LEMMA RequestInvHolds == Spec => []RequestInv
<1>1. Init => RequestInv
  <2>1. SUFFICES ASSUME Init PROVE RequestInv
    OBVIOUS
  <2>2. sent = <<>> /\ executed = <<>> /\ requests = <<>>
    BY <2>1 DEF Init
  <2>3. /\ <<>> \in Seq(Messages) /\ <<>> \in Octets /\ Len(<<>>) = 0
    BY NoOctets
  <2> DEFINE at == [i \in 0..0 |-> <<>>]
  <2>4. at \in [0..0 -> Octets] /\ at[0] = <<>>
    BY <2>3
  <2> HIDE DEF at
  <2>5. RequestsAre(0, at)
    BY <2>2, <2>3, <2>4 DEF RequestsAre, Arranged
  <2>6. Len(sent) = 0 /\ 0 \in 0..0
    BY <2>2, <2>3
  <2>7. \E k \in 0..Len(sent) : \E f \in [0..k -> Octets] : RequestsAre(k, f)
    BY <2>4, <2>5, <2>6
  <2>8. QED
    BY <2>2, <2>3, <2>7 DEF RequestInv
<1>2. ASSUME RequestInv, [Next]_vars PROVE RequestInv'
  <2>1. CASE UNCHANGED vars
    BY <1>2, <2>1, RequestInvStays DEF vars, callVars, handlerVars
  <2>2. CASE SendMessage
    <3>1. PICK m \in Requests : sent' = Append(sent, m) /\ requests' = requests \o EncodeMessage(m)
      BY <2>2 DEF SendMessage
    <3>2. m \in Messages /\ client # "closed" /\ UNCHANGED executed
      BY <2>2, RequestsAreMessages DEF SendMessage, handlerVars
    <3>3. QED
      BY <1>2, <3>1, <3>2, RequestInvSent
  <2>3. CASE CloseClient
    BY <1>2, <2>3, LogoutIsMessage, RequestInvLeave DEF CloseClient
  <2>4. CASE DieSending
    <3>1. PICK m \in Requests : Leave(m)
      BY <2>4 DEF DieSending
    <3>2. m \in Messages /\ client # "closed"
      BY <2>4, RequestsAreMessages DEF DieSending
    <3>3. QED
      BY <1>2, <3>1, <3>2, RequestInvLeave
  <2>5. CASE Receive
    BY <1>2, <2>5, RequestInvReceived DEF Receive
  <2>6. CASE NewClient \/ DialFails
    BY <1>2, <2>6, RequestInvStays DEF NewClient, DialFails, callVars
  <2>7. CASE ReadEnds
    <3>1. UNCHANGED <<sent, requests, executed>> /\ client # "closed"
      BY <2>7 DEF ReadEnds, Timeout, Disconnected, ReadResponse, ReadInvalid, Return, callVars, handlerVars
    <3>2. QED
      BY <1>2, <3>1, RequestInvStays
  <2>8. CASE Die
    BY <1>2, <2>8, RequestInvStays DEF Die, callVars, handlerVars
  <2>9. CASE ReadFails \/ RespondFails \/ Respond
    BY <1>2, <2>9, RequestInvStays DEF ReadFails, RespondFails, Respond, callVars
  <2>10. QED
    BY <1>2, <2>1, <2>2, <2>3, <2>4, <2>5, <2>6, <2>7, <2>8, <2>9 DEF Next, HandlerStep
<1>3. QED
  BY <1>1, <1>2, PTL DEF Spec

(* What the handler has carried out is what the client has sent first, in  *)
(* its order and unchanged, whatever the messages hold, wherever the last  *)
(* one was cut off, and however many calls there are.                      *)
THEOREM ExecutedInOrderHolds == Spec => []ExecutedInOrder
<1>1. RequestInv => ExecutedInOrder
  <2>1. SUFFICES ASSUME RequestInv PROVE ExecutedInOrder
    OBVIOUS
  <2> DEFINE e == Len(executed)
  <2>2. /\ sent \in Seq(Messages) /\ executed \in Seq(Messages) /\ e \in 0..Len(sent)
        /\ \A i \in 1..e : executed[i] = sent[i]
    BY <2>1 DEF RequestInv
  <2>3. \A i \in 1..e : i \in 1..Len(sent)
    BY <2>2
  <2>4. SubSeq(sent, 1, e) \in Seq(Messages) /\ Len(SubSeq(sent, 1, e)) = e
        /\ \A i \in 1..e : SubSeq(sent, 1, e)[i] = sent[i]
    BY <2>2, <2>3
  <2>5. executed = SubSeq(sent, 1, e)
    <3> HIDE DEF e
    <3>1. Len(executed) = e
      BY DEF e
    <3>2. QED
      BY <2>2, <2>4, <3>1, SeqEqual
  <2>6. QED
    BY <2>2, <2>5 DEF ExecutedInOrder
<1>2. QED
  BY <1>1, RequestInvHolds, PTL

-----------------------------------------------------------------------------
(***************************************************************************)
(* Responses.                                                              *)
(***************************************************************************)
Replies == {Ok, Denied, Bye, Reloaded, Failed, Unknown}
Letters == 65..122

LEMMA RepliesAre ==
  ASSUME NEW r \in Replies
  PROVE  /\ r.code \in Octets /\ Len(r.code) = 3 /\ \A i \in 1..3 : r.code[i] \in Digits
         /\ r.message \in Octets /\ Len(r.message) \in {2, 3, 6, 8}
         /\ \A i \in 1..Len(r.message) : r.message[i] \in Letters
         /\ r = Response(r.code, r.message)
<1>1. /\ r = Response(r.code, r.message)
      /\ r.code \in {CodeOK, CodeBye, CodeDenied, CodeError, CodeUnknown}
      /\ r.message \in {<<79, 107>>, <<68, 101, 110, 105, 101, 100>>, <<66, 121, 101>>,
                        <<82, 101, 108, 111, 97, 100, 101, 100>>, <<69, 114, 114>>}
  BY DEF Replies, Ok, Denied, Bye, Reloaded, Failed, Unknown, Response
<1> DEFINE code == r.code
           message == r.message
<1>2. code \in Octets /\ Len(code) = 3 /\ \A i \in 1..3 : code[i] \in Digits
  <2> HIDE DEF code
  <2>1. code \in {<<50, 48, 48>>, <<50, 48, 51>>, <<52, 48, 48>>, <<53, 48, 48>>, <<53, 48, 49>>}
    BY <1>1 DEF code, CodeOK, CodeBye, CodeDenied, CodeError, CodeUnknown
  <2>2. CASE code = <<50, 48, 48>>
    BY <2>2 DEF Octet, Octets, Digits
  <2>3. CASE code = <<50, 48, 51>>
    BY <2>3 DEF Octet, Octets, Digits
  <2>4. CASE code = <<52, 48, 48>>
    BY <2>4 DEF Octet, Octets, Digits
  <2>5. CASE code = <<53, 48, 48>>
    BY <2>5 DEF Octet, Octets, Digits
  <2>6. CASE code = <<53, 48, 49>>
    BY <2>6 DEF Octet, Octets, Digits
  <2>7. QED
    BY <2>1, <2>2, <2>3, <2>4, <2>5, <2>6
<1>3. message \in Octets /\ Len(message) \in {2, 3, 6, 8}
      /\ \A i \in 1..Len(message) : message[i] \in Letters
  <2> HIDE DEF message
  <2>1. CASE message = <<79, 107>>
    BY <2>1 DEF Octet, Octets, Letters
  <2>2. CASE message = <<68, 101, 110, 105, 101, 100>>
    BY <2>2 DEF Octet, Octets, Letters
  <2>3. CASE message = <<66, 121, 101>>
    BY <2>3 DEF Octet, Octets, Letters
  <2>4. CASE message = <<82, 101, 108, 111, 97, 100, 101, 100>>
    BY <2>4 DEF Octet, Octets, Letters
  <2>5. CASE message = <<69, 114, 114>>
    BY <2>5 DEF Octet, Octets, Letters
  <2>6. QED
    BY <1>1, <2>1, <2>2, <2>3, <2>4, <2>5 DEF message
<1>4. QED
  BY <1>1, <1>2, <1>3

\* A numeral of w digits, a colon, the three digits of a code, a colon, and letters.
Shaped(s, w) ==
  /\ s \in Octets /\ w \in {1, 2} /\ Len(s) >= w + 7
  /\ w = 2 => s[2] \in {48, 50}
  /\ \A i \in 1..w : s[i] \in Digits
  /\ s[w + 1] = Colon
  /\ \A i \in (w + 2)..(w + 4) : s[i] \in Digits
  /\ s[w + 5] = Colon
  /\ \A i \in (w + 6)..Len(s) : s[i] \in Letters

\* The lengths of the responses.
LEMMA LengthsOfReplies ==
  ASSUME NEW n \in {6, 7, 10, 12}
  PROVE  Len(Decimal[n]) \in {1, 2} /\ (Len(Decimal[n]) = 2 => Decimal[n][2] \in {48, 50})
<1>0. n \in Nat
  OBVIOUS
<1>1. CASE n < 10
  <2>1. Decimal[n] = <<48 + n>>
    BY <1>0, <1>1, DecimalDef
  <2>2. QED
    BY <2>1
<1>2. CASE ~(n < 10)
  <2>1. n \div 10 = 1 /\ n % 10 \in {0, 2}
    BY <1>2
  <2>2. Decimal[1] = <<49>>
    <3>1. PICK k \in Nat : k = 1
      OBVIOUS
    <3>2. k < 10 /\ 48 + k = 49
      BY <3>1
    <3>3. Decimal[k] = <<48 + k>>
      BY <3>2, DecimalDef
    <3>4. QED
      BY <3>1, <3>2, <3>3
  <2>3. Decimal[n] = Append(Decimal[n \div 10], 48 + (n % 10))
    <3>1. Decimal[n] = IF n < 10 THEN <<48 + n>> ELSE Append(Decimal[n \div 10], 48 + (n % 10))
      BY <1>0, DecimalDef
    <3>2. QED
      BY <1>2, <3>1, Zenon
  <2>4. Decimal[n] = Append(<<49>>, 48 + (n % 10))
    BY <2>1, <2>2, <2>3
  <2>5. QED
    BY <2>1, <2>4
<1>3. QED
  BY <1>1, <1>2

LEMMA RepliesAreShaped ==
  ASSUME NEW r \in Replies
  PROVE  \E w : Shaped(EncodeResponse(r), w)
<1> DEFINE code    == r.code
           text    == r.message
           content == Framed(code, text)
           d       == Decimal[Len(content)]
           w       == Len(d)
           s       == Framed(d, content)
<1>1. /\ code \in Octets /\ Len(code) = 3 /\ \A i \in 1..3 : code[i] \in Digits
      /\ text \in Octets /\ Len(text) \in {2, 3, 6, 8}
      /\ \A i \in 1..Len(text) : text[i] \in Letters
  BY RepliesAre
<1> HIDE DEF code, text
<1>2. \A i \in 1..Len(code) : code[i] # Colon
  BY <1>1 DEF Digits, Colon
<1>3. /\ content \in Octets /\ Len(content) = 4 + Len(text)
      /\ \A i \in 1..3 : content[i] = code[i]
      /\ content[4] = Colon
      /\ \A i \in 1..Len(text) : content[4 + i] = text[i]
  <2>1. /\ content \in Octets /\ Len(content) = Len(code) + 1 + Len(text)
        /\ \A i \in 1..Len(code) : content[i] = code[i]
        /\ content[Len(code) + 1] = Colon
        /\ \A i \in 1..Len(text) : content[Len(code) + 1 + i] = text[i]
    BY <1>1, <1>2, ColonSplits
  <2> HIDE DEF content
  <2>2. Len(code) + 1 = 4
    BY <1>1
  <2>3. QED
    BY <1>1, <2>1, <2>2
<1>4. LengthValue(content) = s
  <2> HIDE DEF content
  <2>1. QED
    BY <1>3, LengthValueFrames
<1>5. EncodeResponse(r) = s
  <2>1. EncodeResponse(r) = LengthValue(content)
    BY DEF EncodeResponse, Framed, code, text
  <2>2. QED
    BY <1>4, <2>1
<1> HIDE DEF content
<1>6. Len(content) \in {6, 7, 10, 12}
  <2> DEFINE n == Len(text)
  <2>1. n \in {2, 3, 6, 8} /\ Len(content) = 4 + n
    BY <1>1, <1>3
  <2> HIDE DEF n
  <2>2. QED
    BY <2>1
<1>7. d \in Octets /\ (\A i \in 1..w : d[i] \in Digits) /\ w \in {1, 2} /\ (w = 2 => d[2] \in {48, 50})
      /\ \A i \in 1..w : d[i] # Colon
  <2> DEFINE n == Len(content)
  <2>1. n \in {6, 7, 10, 12} /\ n \in Nat
    BY <1>6
  <2> HIDE DEF n
  <2>2. Decimal[n] \in Seq(Digits) /\ Len(Decimal[n]) \in {1, 2}
        /\ (Len(Decimal[n]) = 2 => Decimal[n][2] \in {48, 50})
    <3>1. Decimal[n] \in Seq(Digits)
      BY <2>1, DecimalIsDigits
    <3>2. QED
      BY <2>1, <3>1, LengthsOfReplies
  <2>3. Decimal[n] \in Octets /\ \A i \in 1..Len(Decimal[n]) : Decimal[n][i] \in Digits
    BY <2>2, DigitsAreOctets
  <2>4. \A i \in 1..Len(Decimal[n]) : Decimal[n][i] # Colon
    BY <2>3 DEF Digits, Colon
  <2>5. QED
    BY <2>2, <2>3, <2>4 DEF n
<1> HIDE DEF d
<1>8. /\ s \in Octets /\ Len(s) = w + 1 + Len(content)
      /\ \A i \in 1..w : s[i] = d[i]
      /\ s[w + 1] = Colon
      /\ \A i \in 1..Len(content) : s[w + 1 + i] = content[i]
  BY SMTT(30), <1>3, <1>7, ColonSplits
<1> HIDE DEF s, w
<1>9. Len(s) >= w + 7 /\ (w = 2 => s[2] \in {48, 50}) /\ \A i \in 1..w : s[i] \in Digits
  <2>1. Len(s) >= w + 7
    <3> DEFINE n == Len(content)
    <3>1. n \in {6, 7, 10, 12} /\ w \in {1, 2} /\ Len(s) = w + 1 + n
      BY <1>6, <1>7, <1>8
    <3> HIDE DEF n
    <3>2. w + 1 + n >= w + 7
      BY <3>1
    <3>3. QED
      BY <3>1, <3>2
  <2>2. \A i \in 1..w : s[i] \in Digits
    BY <1>7, <1>8
  <2>3. w = 2 => s[2] \in {48, 50}
    <3>1. w = 2 => 2 \in 1..w
      OBVIOUS
    <3>2. QED
      BY <1>7, <1>8, <3>1
  <2>4. QED
    BY <2>1, <2>2, <2>3
<1>10. ASSUME NEW i \in (w + 2)..(w + 4) PROVE s[i] \in Digits
  <2> DEFINE j == i - (w + 1)
  <2>1. j \in 1..3 /\ j \in 1..Len(content) /\ w + 1 + j = i
    BY <1>1, <1>3, <1>7
  <2> HIDE DEF j
  <2>2. s[w + 1 + j] = content[j] /\ content[j] = code[j] /\ code[j] \in Digits
    BY <1>1, <1>3, <1>8, <2>1
  <2>3. QED
    BY <2>1, <2>2
<1>11. s[w + 5] = Colon
  <2>1. 4 \in 1..Len(content) /\ w + 1 + 4 = w + 5
    BY <1>1, <1>3, <1>7
  <2>2. s[w + 1 + 4] = content[4]
    BY <1>8, <2>1
  <2>3. QED
    BY <1>3, <2>1, <2>2
<1>12. ASSUME NEW i \in (w + 6)..Len(s) PROVE s[i] \in Letters
  <2> DEFINE j == i - (w + 5)
             k == 4 + j
  <2>1. j \in 1..Len(text) /\ k \in 1..Len(content) /\ w + 1 + k = i
    BY <1>1, <1>3, <1>7, <1>8
  <2>2. content[k] = text[j] /\ text[j] \in Letters
    <3>1. content[4 + j] = text[j]
      BY <1>3, <2>1
    <3>2. QED
      BY <1>1, <2>1, <3>1
  <2> HIDE DEF j, k
  <2>3. s[w + 1 + k] = content[k]
    BY <1>8, <2>1
  <2>4. QED
    BY <2>1, <2>2, <2>3
<1>13. Shaped(s, w)
  BY <1>7, <1>8, <1>9, <1>10, <1>11, <1>12 DEF Shaped
<1>14. QED
  BY <1>5, <1>13

(* A response that has arrived whole is read as it was written.            *)
THEOREM ResponsesArriveExactly ==
  ASSUME NEW r \in Replies, NEW t \in Octets
  PROVE  /\ DecodeResponse[EncodeResponse(r) \o t] = Got(r, t)
         /\ EncodeResponse(r) \in Octets /\ Len(EncodeResponse(r)) >= 2
<1> DEFINE content == Framed(r.code, r.message)
           s == EncodeResponse(r) \o t
<1>1. /\ r.code \in Octets /\ r.message \in Octets
      /\ \A i \in 1..Len(r.code) : r.code[i] # Colon
      /\ r = Response(r.code, r.message)
  <2>1. \A i \in 1..Len(r.code) : r.code[i] \in Digits
    BY RepliesAre
  <2>2. Len(r.code) = 3 /\ \A c \in Digits : c # Colon
    BY RepliesAre DEF Digits, Colon
  <2>3. r.code \in Octets /\ r.message \in Octets /\ r = Response(r.code, r.message)
    BY RepliesAre
  <2>4. QED
    BY <2>1, <2>2, <2>3
<1>2. /\ content \in Octets /\ IndexByte(content, Colon) = Len(r.code) + 1
      /\ SubSeq(content, 1, Len(r.code)) = r.code
      /\ SubSeq(content, Len(r.code) + 2, Len(content)) = r.message
  BY ZenonT(30), <1>1, ColonSplits
<1>3. EncodeResponse(r) = LengthValue(content)
  BY DEF EncodeResponse, Framed
<1> HIDE DEF content
<1>4. EncodeResponse(r) \in Octets /\ Len(EncodeResponse(r)) >= 2
  BY <1>2, <1>3, LengthValueFrames
<1>5. s \in Octets
  BY <1>4, Joins
<1>6. ReadLV[s] = Got(content, t)
  BY <1>2, <1>3, ReadLVExact
<1>7. ResponseIn(content, t) = Got(r, t)
  <2> DEFINE colon == IndexByte(content, Colon)
  <2>1. ResponseIn(content, t) =
          IF colon = 0 THEN Invalid(t)
          ELSE Got(Response(SubSeq(content, 1, colon - 1),
                            SubSeq(content, colon + 1, Len(content))), t)
    BY DEF ResponseIn
  <2>2. colon - 1 = Len(r.code) /\ colon + 1 = Len(r.code) + 2 /\ colon # 0
    <3>1. Len(r.code) \in Nat /\ colon = Len(r.code) + 1
      BY <1>1, <1>2, OctetsAre
    <3> HIDE DEF colon
    <3>2. QED
      BY <3>1
  <2> HIDE DEF colon
  <2>3. QED
    BY <1>1, <1>2, <2>1, <2>2, Zenon
<1> HIDE DEF s
<1> DEFINE outer == ReadLV[s]
<1>8. outer.kind = "value" /\ outer.value = content /\ outer.rest = t
  BY <1>6, GotIs
<1>9. DecodeResponse[s] = IF outer.kind \in {"ended", "short"} THEN Incomplete
                          ELSE IF outer.kind = "invalid" THEN outer
                          ELSE ResponseIn(outer.value, outer.rest)
  BY <1>5, Zenon DEF DecodeResponse
<1> HIDE DEF outer
<1>10. DecodeResponse[s] = Got(r, t)
  BY <1>7, <1>8, <1>9
<1>11. QED
  BY <1>4, <1>10 DEF s

-----------------------------------------------------------------------------
(***************************************************************************)
(* What a client reads that is not at the beginning of a response.         *)
(***************************************************************************)
Decisions == {CodeOK, CodeBye, CodeDenied}

\* Nothing that decides a call can be read from s.
Undecided(s) == DecodeResponse[s].kind = "value" => DecodeResponse[s].value.code \notin Decisions

LEMMA LettersAre ==
  ASSUME NEW c \in Letters
  PROVE  c # Colon /\ c \notin {Plus, Minus} /\ ~IsDigit(c)
BY DEF Letters, Colon, Plus, Minus, IsDigit

LEMMA CodesAreNotLetters ==
  ASSUME NEW code \in Octets, Len(code) >= 1, code[1] \in Letters
  PROVE  code \notin Decisions
<1>1. ASSUME code \in Decisions PROVE code[1] \in {50, 52}
  <2>1. CASE code = <<50, 48, 48>>
    BY <2>1
  <2>2. CASE code = <<50, 48, 51>>
    BY <2>2
  <2>3. CASE code = <<52, 48, 48>>
    BY <2>3
  <2>4. QED
    BY <1>1, <2>1, <2>2, <2>3 DEF Decisions, CodeOK, CodeBye, CodeDenied
<1>2. 50 \notin Letters /\ 52 \notin Letters
  BY DEF Letters
<1>3. QED
  BY <1>1, <1>2

LEMMA DecodeResponseDef ==
  ASSUME NEW s \in Octets
  PROVE  DecodeResponse[s] = IF ReadLV[s].kind \in {"ended", "short"} THEN Incomplete
                             ELSE IF ReadLV[s].kind = "invalid" THEN ReadLV[s]
                             ELSE ResponseIn(ReadLV[s].value, ReadLV[s].rest)
BY Zenon DEF DecodeResponse

LEMMA UndecidedUnlessRead ==
  ASSUME NEW s \in Octets, ReadLV[s].kind # "value"
  PROVE  Undecided(s)
<1>1. ReadLV[s].kind \in {"ended", "short", "invalid"}
  <2>1. CASE ReadLV[s] = [kind |-> "ended"] \/ ReadLV[s] = [kind |-> "short"]
    BY <2>1
  <2>2. ASSUME NEW k \in 1..Len(s), ReadLV[s] = Invalid(Rest(s, k)) PROVE ReadLV[s].kind = "invalid"
    <3>1. Invalid(Rest(s, k)).kind = "invalid"
      BY DEF Invalid
    <3>2. QED
      BY <2>2, <3>1
  <2>3. ASSUME NEW v \in Octets, NEW k \in 1..Len(s), ReadLV[s] = Got(v, Rest(s, k)) PROVE FALSE
    BY <2>3, GotIs
  <2>4. QED
    BY <2>1, <2>2, <2>3, ReadLVTakes
<1>2. CASE ReadLV[s].kind \in {"ended", "short"}
  <2>1. DecodeResponse[s] = Incomplete
    BY <1>2, DecodeResponseDef
  <2>2. QED
    BY <2>1 DEF Undecided, Incomplete
<1>3. CASE ReadLV[s].kind = "invalid"
  <2>1. DecodeResponse[s] = ReadLV[s]
    BY <1>3, DecodeResponseDef
  <2>2. DecodeResponse[s].kind = "invalid"
    BY <1>3, <2>1
  <2>3. QED
    BY <2>2 DEF Undecided
<1>4. QED
  BY <1>1, <1>2, <1>3

\* A content without a code, or with one that begins with a letter.
LEMMA UndecidedByContent ==
  ASSUME NEW s \in Octets, NEW content \in Octets, NEW t, ReadLV[s] = Got(content, t),
         \/ \A i \in 1..Len(content) : content[i] # Colon
         \/ Len(content) >= 1 /\ content[1] \in Letters
  PROVE  Undecided(s)
<1>1. DecodeResponse[s] = ResponseIn(content, t)
  <2>1. ReadLV[s].kind = "value" /\ ReadLV[s].value = content /\ ReadLV[s].rest = t
    BY GotIs
  <2>2. QED
    BY <2>1, DecodeResponseDef
<1>2. Len(content) \in Nat /\ DOMAIN content = 1..Len(content)
  BY OctetsAre
<1>3. CASE \A i \in 1..Len(content) : content[i] # Colon
  <2>1. IndexByte(content, Colon) = 0
    BY <1>2, <1>3, IndexByteIsNone
  <2>2. DecodeResponse[s] = Invalid(t)
    BY <1>1, <2>1 DEF ResponseIn
  <2>3. QED
    BY <2>2 DEF Undecided, Invalid
<1>4. CASE (\E i \in 1..Len(content) : content[i] = Colon) /\ Len(content) >= 1 /\ content[1] \in Letters
  <2>1. PICK i \in 1..Len(content) : content[i] = Colon
    BY <1>4
  <2> DEFINE colon == IndexByte(content, Colon)
             m == colon - 1
             code == SubSeq(content, 1, m)
             text == SubSeq(content, colon + 1, Len(content))
  <2>2. colon \in 1..i /\ content[colon] = Colon
    BY <2>1, IndexByteFinds
  <2>3. DecodeResponse[s] = Got(Response(code, text), t)
    <3>1. colon # 0
      BY <2>2
    <3>2. ResponseIn(content, t) = IF colon = 0 THEN Invalid(t) ELSE Got(Response(code, text), t)
      BY DEF ResponseIn
    <3>3. QED
      BY <1>1, <3>1, <3>2, Zenon
  <2>4. colon # 1
    <3> HIDE DEF colon
    <3>1. content[1] # Colon
      BY <1>4, LettersAre
    <3>2. QED
      BY <2>2, <3>1
  <2>5. m \in 1..Len(content)
    <3> HIDE DEF colon
    <3>1. QED
      BY <1>2, <2>2, <2>4
  <2> HIDE DEF m, text
  <2>6. code \in Octets /\ Len(code) >= 1 /\ code[1] = content[1]
    <3>1. 1 \in 1..(Len(content) + 1) /\ m \in (1 - 1)..Len(content) /\ 1 \in 1..((m - 1) + 1)
          /\ (1 + 1) - 1 = 1 /\ (m - 1) + 1 = m /\ m >= 1
      BY <1>2, <2>5
    <3>2. /\ code \in Octets /\ Len(code) = (m - 1) + 1
          /\ \A j \in 1..((m - 1) + 1) : code[j] = content[(1 + j) - 1]
      BY <3>1, Pieces
    <3> HIDE DEF code
    <3>3. code[1] = content[(1 + 1) - 1]
      BY <3>1, <3>2
    <3>4. QED
      BY <3>1, <3>2, <3>3
  <2> HIDE DEF code
  <2>7. code \notin Decisions
    BY <1>4, <2>6, CodesAreNotLetters
  <2>8. DecodeResponse[s].value.code = code
    BY <2>3, GotIs DEF Response
  <2>9. QED
    BY <2>7, <2>8 DEF Undecided
<1>5. QED
  BY <1>3, <1>4

(* At a colon.                                                             *)
LEMMA UndecidedAtColon ==
  ASSUME NEW s \in Octets, Len(s) >= 1, s[1] = Colon
  PROVE  Undecided(s)
<1>1. IndexByte(s, Colon) = 1
  <2>1. 1 \in 1..Len(s) /\ 1..(1 - 1) = {}
    BY OctetsAre
  <2> DEFINE k == 1
  <2>2. k \in 1..Len(s) /\ s[k] = Colon /\ \A j \in 1..(k - 1) : s[j] # Colon
    BY <2>1
  <2> HIDE DEF k
  <2>3. IndexByte(s, Colon) = k
    BY <2>2, IndexByteIsFirst
  <2>4. QED
    BY <2>3 DEF k
<1>2. Before(s) = <<>>
  <2>1. SubSeq(s, 1, 0) = <<>>
    BY SubSeqEmpty
  <2>2. 1 - 1 = 0
    OBVIOUS
  <2>3. QED
    BY <1>1, <2>1, <2>2 DEF Before
<1>3. ~IsNumber(<<>>)
  BY DEF IsNumber, Magnitude
<1>4. ReadLV[s] = Invalid(Behind(s))
  <2>1. IndexByte(s, Colon) # 0
    BY <1>1
  <2>2. QED
    BY <1>2, <1>3, <2>1, ReadLVDef, Zenon DEF ReadLVOf
<1>5. ReadLV[s].kind # "value"
  BY <1>4 DEF Invalid
<1>6. QED
  BY <1>5, UndecidedUnlessRead

(* At a letter.                                                            *)
LEMMA UndecidedAtLetter ==
  ASSUME NEW s \in Octets, Len(s) >= 1, s[1] \in Letters
  PROVE  Undecided(s)
<1>0. Len(s) \in Nat /\ DOMAIN s = 1..Len(s)
  BY OctetsAre
<1>1. CASE \A i \in 1..Len(s) : s[i] # Colon
  <2>1. IndexByte(s, Colon) = 0
    BY <1>0, <1>1, IndexByteIsNone
  <2>2. ReadLV[s] = [kind |-> "ended"]
    BY <2>1, ReadLVDef DEF ReadLVOf
  <2>3. ReadLV[s].kind # "value"
    BY <2>2
  <2>4. QED
    BY <2>3, UndecidedUnlessRead
<1>2. CASE \E i \in 1..Len(s) : s[i] = Colon
  <2>1. PICK i \in 1..Len(s) : s[i] = Colon
    BY <1>2
  <2> DEFINE colon == IndexByte(s, Colon)
             m == colon - 1
             b == SubSeq(s, 1, m)
  <2>2. colon \in 1..i /\ s[colon] = Colon
    BY <2>1, IndexByteFinds
  <2>3. colon # 1 /\ colon # 0 /\ m \in 1..Len(s)
    <3> HIDE DEF colon
    <3>1. s[1] # Colon
      BY LettersAre
    <3>2. QED
      BY <1>0, <2>2, <3>1
  <2>4. Before(s) = b
    BY DEF Before
  <2> HIDE DEF m
  <2>5. b \in Octets /\ Len(b) >= 1 /\ b[1] = s[1]
    <3>1. 1 \in 1..(Len(s) + 1) /\ m \in (1 - 1)..Len(s) /\ 1 \in 1..((m - 1) + 1)
          /\ (1 + 1) - 1 = 1 /\ (m - 1) + 1 = m /\ m >= 1
      BY <1>0, <2>3
    <3>2. /\ b \in Octets /\ Len(b) = (m - 1) + 1
          /\ \A j \in 1..((m - 1) + 1) : b[j] = s[(1 + j) - 1]
      BY <3>1, Pieces
    <3> HIDE DEF b
    <3>3. b[1] = s[(1 + 1) - 1]
      BY <3>1, <3>2
    <3>4. QED
      BY <3>1, <3>2, <3>3
  <2> HIDE DEF b
  <2>6. ~IsNumber(b)
    <3>1. b # <<>> /\ Head(b) = b[1] /\ DOMAIN b = 1..Len(b) /\ Len(b) \in Nat
      BY <2>5 DEF Octets
    <3>2. b[1] \in Letters /\ 1 \in DOMAIN b
      BY <2>5, <3>1
    <3>3. Head(b) \notin {Plus, Minus} /\ ~IsDigit(b[1])
      BY <3>1, <3>2, LettersAre
    <3>4. Magnitude(b) = b
      BY <3>3 DEF Magnitude
    <3>5. QED
      BY <3>2, <3>3, <3>4 DEF IsNumber
  <2>7. ReadLV[s] = Invalid(Behind(s))
    BY <2>3, <2>4, <2>6, ReadLVDef, Zenon DEF ReadLVOf, colon
  <2>8. ReadLV[s].kind # "value"
    BY <2>7 DEF Invalid
  <2>9. QED
    BY <2>8, UndecidedUnlessRead
<1>3. QED
  BY <1>1, <1>2

\* What is read behind the first colon.
LEMMA ContentRead ==
  ASSUME NEW s \in Octets, NEW p \in 1..Len(s), IndexByte(s, Colon) = p,
         ReadLV[s].kind = "value"
  PROVE  /\ IsNumber(Before(s)) /\ Atoi(Before(s)) \in 0..(Len(s) - p)
         /\ \E content \in Octets : \E t :
              /\ ReadLV[s] = Got(content, t) /\ Len(content) = Atoi(Before(s))
              /\ \A i \in 1..Len(content) : content[i] = s[p + i]
<1> DEFINE b == Before(s)
           r == Behind(s)
           n == Atoi(b)
<1>0. Len(s) \in Nat /\ p # 0
  BY OctetsAre
<1>1. ReadLV[s] = IF ~IsNumber(b) \/ n < 0 THEN Invalid(r)
                  ELSE IF Len(r) < n THEN [kind |-> "short"]
                  ELSE Got(SubSeq(r, 1, n), SubSeq(r, n + 1, Len(r)))
  BY <1>0, ReadLVDef, Zenon DEF ReadLVOf
<1>2. r = Rest(s, p)
  BY DEF Behind, Rest
<1>3. /\ r \in Octets /\ Len(r) = Len(s) - p
      /\ \A i \in 1..(Len(s) - p) : r[i] = s[p + i]
  <2>1. p \in 0..Len(s)
    BY <1>0
  <2>2. QED
    BY <1>2, <2>1, RestIs
<1>4. b \in Octets
  <2> DEFINE m == p - 1
  <2>1. 1 \in 1..(Len(s) + 1) /\ m \in (1 - 1)..Len(s)
    BY <1>0
  <2>2. b = SubSeq(s, 1, m)
    BY DEF Before
  <2> HIDE DEF m, b
  <2>3. QED
    BY <2>1, <2>2, Pieces
<1> HIDE DEF r
<1>5. IsNumber(b) /\ ~(n < 0) /\ ~(Len(r) < n)
  <2>1. Invalid(r).kind # "value"
    BY DEF Invalid
  <2> HIDE DEF n, b
  <2>2. QED
    BY <1>1, <2>1
<1>6. n \in 0..Len(r)
  <2>1. n \in Int
    BY <1>4, <1>5, NumbersAreInts
  <2>2. Len(r) \in Nat
    BY <1>3, OctetsAre
  <2> HIDE DEF n
  <2>3. QED
    BY <1>5, <2>1, <2>2
<1>7. ReadLV[s] = Got(SubSeq(r, 1, n), SubSeq(r, n + 1, Len(r)))
  BY <1>1, <1>5, Zenon
<1> HIDE DEF n, b
<1>8. /\ SubSeq(r, 1, n) \in Octets /\ Len(SubSeq(r, 1, n)) = n
      /\ \A i \in 1..n : SubSeq(r, 1, n)[i] = r[i]
  <2>1. Len(r) \in Nat
    BY <1>3, OctetsAre
  <2>2. 1 \in 1..(Len(r) + 1) /\ n \in (1 - 1)..Len(r) /\ (n - 1) + 1 = n
        /\ \A i \in 1..n : (1 + i) - 1 = i
    BY <1>6, <2>1
  <2> DEFINE c == SubSeq(r, 1, n)
  <2>3. /\ c \in Octets /\ Len(c) = (n - 1) + 1
        /\ \A i \in 1..((n - 1) + 1) : c[i] = r[(1 + i) - 1]
    BY <1>3, <2>2, Pieces
  <2> HIDE DEF c
  <2>4. c \in Octets /\ Len(c) = n /\ \A i \in 1..n : c[i] = r[i]
    BY <2>2, <2>3
  <2>5. QED
    BY <2>4 DEF c
<1>9. \A i \in 1..n : r[i] = s[p + i]
  <2>1. \A i \in 1..n : i \in 1..(Len(s) - p)
    BY <1>0, <1>3, <1>6
  <2>2. QED
    BY <1>3, <2>1
<1> DEFINE content == SubSeq(r, 1, n)
           t == SubSeq(r, n + 1, Len(r))
<1> HIDE DEF content, t
<1>10. /\ content \in Octets /\ Len(content) = n /\ ReadLV[s] = Got(content, t)
       /\ \A i \in 1..Len(content) : content[i] = s[p + i]
  BY <1>7, <1>8, <1>9 DEF content, t
<1>11. n \in 0..(Len(s) - p)
  BY <1>3, <1>6
<1>12. IsNumber(Before(s)) /\ Atoi(Before(s)) = n
  BY <1>5 DEF n, b
<1>13. QED
  BY <1>10, <1>11, <1>12

(* Before a colon behind which there is a letter.                          *)
LEMMA UndecidedBeforeLetter ==
  ASSUME NEW s \in Octets, NEW p \in 1..Len(s), s[p] = Colon,
         \A i \in 1..(p - 1) : s[i] # Colon,
         p + 1 \in 1..Len(s), s[p + 1] \in Letters
  PROVE  Undecided(s)
<1>1. IndexByte(s, Colon) = p
  BY IndexByteIsFirst
<1>2. CASE ReadLV[s].kind = "value"
  <2>1. PICK content \in Octets : \E t :
          /\ ReadLV[s] = Got(content, t)
          /\ \A i \in 1..Len(content) : content[i] = s[p + i]
    BY <1>1, <1>2, ContentRead
  <2>2. PICK t : ReadLV[s] = Got(content, t)
    BY <2>1
  <2>3. Len(content) \in Nat
    BY OctetsAre
  <2>4. CASE Len(content) = 0
    <3>1. \A i \in 1..Len(content) : content[i] # Colon
      BY <2>4
    <3>2. QED
      BY <2>2, <3>1, UndecidedByContent
  <2>5. CASE Len(content) # 0
    <3>1. Len(content) >= 1 /\ 1 \in 1..Len(content)
      BY <2>3, <2>5
    <3>2. content[1] \in Letters
      BY <2>1, <3>1
    <3>3. QED
      BY <2>2, <3>1, <3>2, UndecidedByContent
  <2>6. QED
    BY <2>4, <2>5
<1>3. QED
  BY <1>2, UndecidedUnlessRead

(* At the second digit of a length.                                        *)
LEMMA UndecidedInLength ==
  ASSUME NEW s \in Octets, Len(s) >= 4, s[1] \in {48, 50}, s[2] = Colon,
         s[3] \in Digits, s[4] \in Digits
  PROVE  Undecided(s)
<1>0. Len(s) \in Nat /\ 1 \in 1..Len(s) /\ 2 \in 1..Len(s)
  BY OctetsAre
<1>1. IndexByte(s, Colon) = 2
  <2>1. PICK p \in 1..Len(s) : p = 2
    BY <1>0
  <2>2. s[p] = Colon /\ \A i \in 1..(p - 1) : s[i] # Colon
    <3>1. \A i \in 1..(p - 1) : i = 1
      BY <2>1
    <3>2. s[1] # Colon
      BY DEF Colon
    <3>3. QED
      BY <2>1, <3>1, <3>2
  <2>3. QED
    BY <2>1, <2>2, IndexByteIsFirst
<1>2. CASE ReadLV[s].kind = "value"
  <2>1. PICK p \in 1..Len(s) : p = 2
    BY <1>0
  <2>2. PICK content \in Octets : \E t :
          /\ ReadLV[s] = Got(content, t) /\ Len(content) = Atoi(Before(s))
          /\ \A i \in 1..Len(content) : content[i] = s[p + i]
    BY <1>1, <1>2, <2>1, ContentRead
  <2>3. PICK t : ReadLV[s] = Got(content, t)
    BY <2>2
  <2>4. Atoi(Before(s)) \in {0, 2}
    <3>1. PICK n \in Nat : n \in {0, 2} /\ s[1] = 48 + n
      BY SMTT(30)
    <3>2. Decimal[n] = <<48 + n>>
      <4>1. n < 10
        BY <3>1
      <4>2. QED
        BY <4>1, DecimalDef
    <3>3. Before(s) = Decimal[n]
      <4>1. Before(s) = SubSeq(s, 1, 1)
        <5>1. 2 - 1 = 1
          OBVIOUS
        <5>2. QED
          BY <1>1, <5>1 DEF Before
      <4>2. SubSeq(s, 1, 1) = <<s[1]>>
        <5> DEFINE m == 1
                   c == SubSeq(s, 1, m)
        <5>1. 1 \in 1..(Len(s) + 1) /\ m \in (1 - 1)..Len(s) /\ (m - 1) + 1 = 1 /\ (1 + 1) - 1 = 1
          BY <1>0
        <5> HIDE DEF m
        <5>2. c \in Octets /\ Len(c) = (m - 1) + 1
              /\ \A j \in 1..((m - 1) + 1) : c[j] = s[(1 + j) - 1]
          BY <5>1, Pieces
        <5> HIDE DEF c
        <5>3. 1 \in 1..1
          OBVIOUS
        <5>4. Len(c) = 1 /\ c[1] = s[1]
          BY <5>1, <5>2, <5>3
        <5>5. s[1] \in Octet
          BY <1>0, OctetsAre
        <5>6. <<s[1]>> \in Octets /\ Len(<<s[1]>>) = 1 /\ <<s[1]>>[1] = s[1]
          BY <5>5, OneOctet
        <5>7. \A j \in 1..1 : j = 1
          OBVIOUS
        <5>8. c = <<s[1]>>
          BY <5>2, <5>4, <5>6, <5>7, OctetsEqual
        <5>9. QED
          BY <5>8 DEF c, m
      <4>3. QED
        BY <3>1, <3>2, <4>1, <4>2
    <3>4. Decimal[n] \in Seq(Digits) /\ Len(Decimal[n]) >= 1 /\ ValueOf(Decimal[n])[Len(Decimal[n])] = n
      BY DecimalIsDigits, ValueOfDecimal
    <3>5. Atoi(Decimal[n]) = n
      BY <3>4, DigitsAreNumber
    <3>6. QED
      BY <3>1, <3>3, <3>5
  <2>5. ASSUME NEW i \in 1..Len(content) PROVE content[i] # Colon
    <3>1. Len(content) \in {0, 2}
      BY <2>2, <2>4
    <3>2. i \in {1, 2}
      <4> DEFINE m == Len(content)
      <4>1. m \in {0, 2} /\ i \in 1..m
        BY <3>1
      <4> HIDE DEF m
      <4>2. QED
        BY <4>1
    <3>3. content[i] = s[2 + i]
      BY <2>1, <2>2
    <3>4. s[2 + i] \in Digits
      <4>1. i = 1 => 2 + i = 3
        OBVIOUS
      <4>2. i = 2 => 2 + i = 4
        OBVIOUS
      <4>3. QED
        BY <3>2, <4>1, <4>2
    <3>5. \A c \in Digits : c # Colon
      BY DEF Digits, Colon
    <3>6. QED
      BY <3>3, <3>4, <3>5
  <2>6. QED
    BY <2>3, <2>5, UndecidedByContent
<1>3. QED
  BY <1>2, UndecidedUnlessRead

(* Inside a response a client reads no decision, whatever comes after it.  *)
LEMMA NoDecisionInside ==
  ASSUME NEW r \in Replies, NEW o \in 1..(Len(EncodeResponse(r)) - 1),
         NEW s \in Octets, Len(s) >= Len(EncodeResponse(r)) - o,
         \A j \in 1..(Len(EncodeResponse(r)) - o) : s[j] = EncodeResponse(r)[o + j]
  PROVE  Undecided(s)
<1>1. PICK w : Shaped(EncodeResponse(r), w)
  BY RepliesAreShaped
<1> DEFINE e == EncodeResponse(r)
<1>2. /\ e \in Octets /\ w \in {1, 2} /\ Len(e) >= w + 7
      /\ w = 2 => e[2] \in {48, 50}
      /\ \A i \in 1..w : e[i] \in Digits
      /\ e[w + 1] = Colon
      /\ \A i \in (w + 2)..(w + 4) : e[i] \in Digits
      /\ e[w + 5] = Colon
      /\ \A i \in (w + 6)..Len(e) : e[i] \in Letters
  BY <1>1 DEF Shaped
<1>3. o \in 1..(Len(e) - 1) /\ Len(s) >= Len(e) - o /\ \A j \in 1..(Len(e) - o) : s[j] = e[o + j]
  OBVIOUS
<1>4. Len(s) \in Nat
  BY OctetsAre
<1> HIDE DEF e
<1> DEFINE n == Len(e)
<1>5. n \in Nat /\ n >= w + 7 /\ Len(s) >= n - o
  BY <1>2, <1>3, OctetsAre
<1> HIDE DEF n
<1>6. 1 \in 1..(n - o) /\ s[1] = e[o + 1] /\ Len(s) >= 1
  <2>1. 1 \in 1..(n - o)
    BY <1>3, <1>5 DEF n
  <2>2. QED
    BY <1>3, <1>4, <1>5, <2>1 DEF n
<1>7. CASE o + 1 = w + 1 \/ o + 1 = w + 5
  <2>1. s[1] = Colon
    BY <1>2, <1>6, <1>7
  <2>2. QED
    BY <1>6, <2>1, UndecidedAtColon
<1>8. CASE o + 1 >= w + 6
  <2>1. o + 1 \in (w + 6)..n
    BY <1>2, <1>3, <1>5, <1>8 DEF n
  <2>2. s[1] \in Letters
    BY <1>2, <1>6, <2>1 DEF n
  <2>3. QED
    BY <1>6, <2>2, UndecidedAtLetter
<1>9. CASE o + 1 >= w + 2 /\ o + 1 <= w + 4
  <2> DEFINE p == (w + 5) - o
  <2>1. /\ p \in 1..(n - o) /\ p \in 1..Len(s) /\ o + p = w + 5
        /\ p + 1 \in 1..(n - o) /\ p + 1 \in 1..Len(s) /\ o + (p + 1) = w + 6
        /\ w + 6 \in (w + 6)..n
        /\ \A i \in 1..(p - 1) : i \in 1..(n - o) /\ o + i \in (w + 2)..(w + 4)
    BY <1>2, <1>3, <1>4, <1>5, <1>9
  <2> HIDE DEF p
  <2>2. s[p] = Colon
    BY <1>2, <1>3, <2>1 DEF n
  <2>3. s[p + 1] \in Letters
    <3>1. s[p + 1] = e[o + (p + 1)]
      BY <1>3, <2>1 DEF n
    <3>2. e[w + 6] \in Letters
      BY <1>2, <2>1 DEF n
    <3>3. QED
      BY <2>1, <3>1, <3>2
  <2>4. ASSUME NEW i \in 1..(p - 1) PROVE s[i] # Colon
    <3>1. s[i] = e[o + i] /\ e[o + i] \in Digits
      BY <1>2, <1>3, <2>1 DEF n
    <3>2. \A c \in Digits : c # Colon
      BY DEF Digits, Colon
    <3>3. QED
      BY <3>1, <3>2
  <2>5. QED
    BY <2>1, <2>2, <2>3, <2>4, UndecidedBeforeLetter
<1>10. CASE o + 1 <= w
  <2>1. w = 2 /\ o = 1
    BY <1>2, <1>3, <1>10
  <2>2. /\ 2 \in 1..(n - o) /\ 3 \in 1..(n - o) /\ 4 \in 1..(n - o) /\ Len(s) >= 4
        /\ o + 1 = 2 /\ o + 2 = 3 /\ o + 3 = 4 /\ o + 4 = 5
        /\ 4 \in (w + 2)..(w + 4) /\ 5 \in (w + 2)..(w + 4) /\ w + 1 = 3
    BY <1>4, <1>5, <2>1
  <2>3. s[1] \in {48, 50} /\ s[2] = e[3] /\ s[3] = e[4] /\ s[4] = e[5]
    <3>1. s[2] = e[o + 2] /\ s[3] = e[o + 3] /\ s[4] = e[o + 4]
      BY <1>3, <2>2 DEF n
    <3>2. QED
      BY <1>2, <1>6, <2>1, <2>2, <3>1
  <2>4. e[3] = Colon /\ e[4] \in Digits /\ e[5] \in Digits
    BY <1>2, <2>2
  <2>5. QED
    BY <2>2, <2>3, <2>4, UndecidedInLength
<1>11. QED
  BY <1>2, <1>3, <1>7, <1>8, <1>9, <1>10

-----------------------------------------------------------------------------
(***************************************************************************)
(* The stream of responses.                                                *)
(***************************************************************************)
\* w is all that the handler has written: n responses, of which r[i] stands behind
\* the first b[i] octets.
Written(w, b, r, n) ==
  /\ w \in Octets /\ n \in Nat /\ b \in [1..(n + 1) -> Nat] /\ r \in [1..n -> Replies]
  /\ b[1] = 0 /\ b[n + 1] = Len(w)
  /\ \A i \in 1..n : b[i + 1] = b[i] + Len(EncodeResponse(r[i]))
  /\ \A i \in 1..n : \A j \in 1..Len(EncodeResponse(r[i])) :
       w[b[i] + j] = EncodeResponse(r[i])[j]

LEMMA WrittenInOrder ==
  ASSUME NEW w, NEW b, NEW r, NEW n, Written(w, b, r, n),
         NEW i \in 1..(n + 1), NEW j \in (i + 1)..(n + 1)
  PROVE  b[i] < b[j]
<1>1. n \in Nat /\ b \in [1..(n + 1) -> Nat] /\ r \in [1..n -> Replies]
  BY DEF Written
<1>2. ASSUME NEW k \in 1..n PROVE b[k] < b[k + 1]
  <2>1. b[k + 1] = b[k] + Len(EncodeResponse(r[k]))
    BY DEF Written
  <2>2. EncodeResponse(r[k]) \in Octets /\ Len(EncodeResponse(r[k])) >= 2
    BY <1>1, NoOctets, ResponsesArriveExactly
  <2>3. Len(EncodeResponse(r[k])) \in Nat /\ b[k] \in Nat
    BY <1>1, <2>2, OctetsAre
  <2>4. QED
    BY <2>1, <2>2, <2>3
<1> DEFINE m == j - (i + 1)
           T == {k \in 0..m : b[i] < b[i + 1 + k]}
<1>3. m \in Nat /\ i \in Nat /\ i + 1 + m = j /\ m + i <= n /\ i \in 1..n
  BY <1>1
<1> HIDE DEF m
<1>4. 0 \in T
  <2>1. i + 1 + 0 = i + 1 /\ 0 \in 0..m
    BY <1>3
  <2>2. QED
    BY <1>2, <1>3, <2>1
<1>5. ASSUME NEW k \in 0..(m - 1), k \in T PROVE k + 1 \in T
  <2> DEFINE h == i + 1 + k
  <2>1. h \in 1..n /\ h + 1 = i + 1 + (k + 1) /\ k + 1 \in 0..m /\ h \in 1..(n + 1) /\ h + 1 \in 1..(n + 1)
        /\ i \in 1..(n + 1)
    BY <1>1, <1>3
  <2>2. b[i] < b[h]
    BY <1>5
  <2> HIDE DEF h
  <2>3. b[h] < b[h + 1] /\ b[i] \in Nat /\ b[h] \in Nat /\ b[h + 1] \in Nat
    BY <1>1, <1>2, <2>1
  <2>4. b[i] < b[h + 1]
    BY <2>2, <2>3
  <2>5. QED
    BY <2>1, <2>4
<1>6. m \in T
  <2>1. m \in 0..m
    BY <1>3
  <2> HIDE DEF T
  <2>2. \A k \in 0..m : k \in T
    BY <1>3, <1>4, <1>5, Steps
  <2>3. QED
    BY <2>1, <2>2
<1>7. QED
  BY <1>3, <1>6

(* Every place is in a response or at the end.                             *)
LEMMA PlacesAreInReplies ==
  ASSUME NEW w, NEW b, NEW r, NEW n, Written(w, b, r, n), NEW c \in 0..Len(w), c # Len(w)
  PROVE  \E i \in 1..n : b[i] <= c /\ c < b[i + 1]
<1>1. n \in Nat /\ b \in [1..(n + 1) -> Nat] /\ b[1] = 0 /\ b[n + 1] = Len(w) /\ Len(w) \in Nat
  BY OctetsAre DEF Written
<1>2. SUFFICES ASSUME ~(\E i \in 1..n : b[i] <= c /\ c < b[i + 1]) PROVE FALSE
  OBVIOUS
<1> DEFINE T == {k \in 0..n : b[k + 1] <= c}
<1>3. 0 \in T
  <2>1. 0 \in 0..n /\ 0 + 1 = 1
    BY <1>1
  <2>2. QED
    BY <1>1, <2>1
<1>4. ASSUME NEW k \in 0..(n - 1), k \in T PROVE k + 1 \in T
  <2>1. k + 1 \in 1..n /\ k + 1 \in 0..n /\ (k + 1) + 1 \in 1..(n + 1)
    BY <1>1
  <2>2. b[k + 1] <= c
    BY <1>4
  <2>3. ~(c < b[(k + 1) + 1])
    BY <1>2, <2>1, <2>2
  <2>4. b[(k + 1) + 1] \in Nat
    BY <1>1, <2>1
  <2>5. b[(k + 1) + 1] <= c
    BY <2>3, <2>4
  <2>6. QED
    BY <2>1, <2>5
<1>5. n \in T
  <2>1. n \in 0..n
    BY <1>1
  <2> HIDE DEF T
  <2>2. \A k \in 0..n : k \in T
    BY <1>1, <1>3, <1>4, Steps
  <2>3. QED
    BY <2>1, <2>2
<1>6. QED
  BY <1>1, <1>5

(* From its beginning on a response is read as it was written.             *)
LEMMA ReadFromBeginning ==
  ASSUME NEW w, NEW b, NEW r, NEW n, Written(w, b, r, n), NEW i \in 1..n
  PROVE  /\ b[i] \in 0..Len(w) /\ b[i + 1] \in 0..Len(w)
         /\ DecodeResponse[Rest(w, b[i])] = Got(r[i], Rest(w, b[i + 1]))
<1> DEFINE e == EncodeResponse(r[i])
           s == Rest(w, b[i])
           t == Rest(w, b[i + 1])
           u == e \o t
<1>1. /\ w \in Octets /\ n \in Nat /\ b \in [1..(n + 1) -> Nat] /\ r[i] \in Replies
      /\ b[n + 1] = Len(w) /\ b[i + 1] = b[i] + Len(e)
      /\ \A j \in 1..Len(e) : w[b[i] + j] = e[j]
  BY DEF Written
<1>2. e \in Octets /\ Len(e) >= 2
  BY <1>1, NoOctets, ResponsesArriveExactly
<1>3. Len(w) \in Nat /\ Len(e) \in Nat /\ i \in 1..(n + 1) /\ i + 1 \in 1..(n + 1) /\ n + 1 \in 1..(n + 1)
  BY <1>1, <1>2, OctetsAre
<1>4. b[i + 1] <= b[n + 1]
  <2>1. CASE i = n
    BY <1>1, <1>3, <2>1
  <2>2. CASE i # n
    <3>1. n + 1 \in ((i + 1) + 1)..(n + 1)
      BY <1>1, <2>2
    <3>2. b[i + 1] < b[n + 1]
      BY <1>3, <3>1, WrittenInOrder
    <3>3. QED
      BY <1>1, <1>3, <3>2
  <2>3. QED
    BY <2>1, <2>2
<1> HIDE DEF e
<1>5. b[i] \in 0..Len(w) /\ b[i + 1] \in 0..Len(w)
  <2>1. b[i] \in Nat /\ b[i + 1] \in Nat
    BY <1>1, <1>3
  <2>2. QED
    BY <1>1, <1>3, <1>4, <2>1
<1>6. /\ s \in Octets /\ Len(s) = Len(w) - b[i]
      /\ \A j \in 1..(Len(w) - b[i]) : s[j] = w[b[i] + j]
  BY <1>1, <1>5, RestIs
<1>7. /\ t \in Octets /\ Len(t) = Len(w) - b[i + 1]
      /\ \A j \in 1..(Len(w) - b[i + 1]) : t[j] = w[b[i + 1] + j]
  BY <1>1, <1>5, RestIs
<1> HIDE DEF s, t
<1>8. /\ u \in Octets /\ Len(u) = Len(e) + Len(t)
      /\ \A j \in 1..Len(e) : u[j] = e[j]
      /\ \A j \in 1..Len(t) : u[Len(e) + j] = t[j]
  BY <1>2, <1>7, Joins
<1> HIDE DEF u
<1>9. Len(s) = Len(u)
  BY SMTT(30), <1>1, <1>3, <1>5, <1>6, <1>7, <1>8
<1>10. ASSUME NEW j \in 1..Len(s) PROVE s[j] = u[j]
  <2>1. CASE j <= Len(e)
    <3>1. j \in 1..Len(e) /\ j \in 1..(Len(w) - b[i])
      BY <1>3, <1>6, <2>1
    <3>2. QED
      BY <1>1, <1>6, <1>8, <3>1
  <2>2. CASE ~(j <= Len(e))
    <3> DEFINE k == j - Len(e)
    <3>1. k \in 1..Len(t) /\ k \in 1..(Len(w) - b[i + 1]) /\ Len(e) + k = j
          /\ b[i + 1] + k = b[i] + j /\ j \in 1..(Len(w) - b[i])
      <4>1. ASSUME NEW B \in Nat, NEW C \in Nat, NEW E \in Nat, NEW W \in Nat,
                   C = B + E, C <= W, j \in 1..(W - B), ~(j <= E)
            PROVE  /\ j - E \in 1..(W - C) /\ E + (j - E) = j /\ C + (j - E) = B + j
        BY <4>1
      <4>2. /\ b[i] \in Nat /\ b[i + 1] \in Nat /\ b[i + 1] <= Len(w)
            /\ j \in 1..(Len(w) - b[i])
        BY <1>5, <1>6
      <4>3. /\ j - Len(e) \in 1..(Len(w) - b[i + 1]) /\ Len(e) + (j - Len(e)) = j
            /\ b[i + 1] + (j - Len(e)) = b[i] + j
        BY <1>1, <1>3, <2>2, <4>1, <4>2
      <4>4. QED
        BY <1>7, <4>2, <4>3
    <3> HIDE DEF k
    <3>2. u[Len(e) + k] = t[k] /\ t[k] = w[b[i + 1] + k] /\ s[j] = w[b[i] + j]
      BY <1>6, <1>7, <1>8, <3>1
    <3>3. QED
      BY <3>1, <3>2
  <2>3. QED
    BY <2>1, <2>2
<1>11. s = u
  BY <1>6, <1>8, <1>9, <1>10, OctetsEqual
<1>12. DecodeResponse[e \o t] = Got(r[i], t)
  BY <1>1, <1>7, ResponsesArriveExactly DEF e
<1>13. QED
  BY <1>5, <1>11, <1>12 DEF s, t, u

(* From a place in its inside none is read that decides anything.          *)
LEMMA ReadFromInside ==
  ASSUME NEW w, NEW b, NEW r, NEW n, Written(w, b, r, n), NEW i \in 1..n,
         NEW c \in 0..Len(w), b[i] < c, c < b[i + 1]
  PROVE  Undecided(Rest(w, c))
<1> DEFINE e == EncodeResponse(r[i])
           s == Rest(w, c)
           o == c - b[i]
<1>1. /\ w \in Octets /\ n \in Nat /\ b \in [1..(n + 1) -> Nat] /\ r[i] \in Replies
      /\ b[i + 1] = b[i] + Len(e)
      /\ \A j \in 1..Len(e) : w[b[i] + j] = e[j]
  BY DEF Written
<1>2. e \in Octets
  BY <1>1, NoOctets, ResponsesArriveExactly
<1>3. b[i] \in 0..Len(w) /\ b[i + 1] \in 0..Len(w)
  BY ReadFromBeginning
<1>4. Len(w) \in Nat /\ Len(e) \in Nat
  BY <1>1, <1>2, OctetsAre
<1>5. /\ s \in Octets /\ Len(s) = Len(w) - c
      /\ \A j \in 1..(Len(w) - c) : s[j] = w[c + j]
  BY <1>1, RestIs
<1> HIDE DEF s, e
<1>6. o \in 1..(Len(e) - 1) /\ Len(s) >= Len(e) - o
  BY SMTT(30), <1>1, <1>3, <1>4, <1>5
<1>7. ASSUME NEW j \in 1..(Len(e) - o) PROVE s[j] = e[o + j]
  <2>1. j \in 1..(Len(w) - c) /\ o + j \in 1..Len(e) /\ b[i] + (o + j) = c + j
    BY SMTT(30), <1>1, <1>3, <1>4
  <2>2. s[j] = w[c + j] /\ w[b[i] + (o + j)] = e[o + j]
    BY <1>1, <1>5, <2>1
  <2>3. QED
    BY <2>1, <2>2
<1> HIDE DEF o
<1>8. Undecided(s)
  BY <1>1, <1>5, <1>6, <1>7, NoDecisionInside DEF e
<1>9. QED
  BY <1>8 DEF s

(* One response more.                                                      *)
LEMMA WriteReply ==
  ASSUME NEW w, NEW b, NEW r, NEW n, Written(w, b, r, n), NEW x \in Replies,
         NEW c \in 0..Len(w)
  PROVE  /\ Written(w \o EncodeResponse(x),
                    [i \in 1..((n + 1) + 1) |->
                       IF i = (n + 1) + 1 THEN Len(w \o EncodeResponse(x)) ELSE b[i]],
                    [i \in 1..(n + 1) |-> IF i = n + 1 THEN x ELSE r[i]], n + 1)
         /\ c \in 0..Len(w \o EncodeResponse(x))
         /\ Rest(w \o EncodeResponse(x), c) = Rest(w, c) \o EncodeResponse(x)
<1> DEFINE e == EncodeResponse(x)
           v == w \o e
           f == [i \in 1..((n + 1) + 1) |-> IF i = (n + 1) + 1 THEN Len(v) ELSE b[i]]
           g == [i \in 1..(n + 1) |-> IF i = n + 1 THEN x ELSE r[i]]
<1>1. /\ w \in Octets /\ n \in Nat /\ b \in [1..(n + 1) -> Nat] /\ r \in [1..n -> Replies]
      /\ b[1] = 0 /\ b[n + 1] = Len(w)
      /\ \A i \in 1..n : b[i + 1] = b[i] + Len(EncodeResponse(r[i]))
      /\ \A i \in 1..n : \A j \in 1..Len(EncodeResponse(r[i])) :
           w[b[i] + j] = EncodeResponse(r[i])[j]
  BY DEF Written
<1>2. e \in Octets
  BY NoOctets, ResponsesArriveExactly
<1>3. /\ v \in Octets /\ Len(v) = Len(w) + Len(e)
      /\ \A i \in 1..Len(w) : v[i] = w[i]
      /\ \A i \in 1..Len(e) : v[Len(w) + i] = e[i]
  BY <1>1, <1>2, Joins
<1>4. Len(w) \in Nat /\ Len(e) \in Nat /\ Len(v) \in Nat
  BY <1>1, <1>2, <1>3, OctetsAre
<1> HIDE DEF v, e
<1>5. /\ f \in [1..((n + 1) + 1) -> Nat] /\ f[(n + 1) + 1] = Len(v)
      /\ \A i \in 1..(n + 1) : f[i] = b[i]
  <2>1. \A i \in 1..((n + 1) + 1) : i # (n + 1) + 1 => i \in 1..(n + 1)
    BY <1>1
  <2>2. (n + 1) + 1 \in 1..((n + 1) + 1)
        /\ \A i \in 1..(n + 1) : i \in 1..((n + 1) + 1) /\ i # (n + 1) + 1
    BY <1>1
  <2>3. QED
    BY <1>1, <1>4, <2>1, <2>2
<1>6. /\ g \in [1..(n + 1) -> Replies] /\ g[n + 1] = x
      /\ \A i \in 1..n : g[i] = r[i]
  <2>1. \A i \in 1..(n + 1) : i # n + 1 => i \in 1..n
    BY <1>1
  <2>2. n + 1 \in 1..(n + 1) /\ \A i \in 1..n : i \in 1..(n + 1) /\ i # n + 1
    BY <1>1
  <2>3. QED
    BY <1>1, <2>1, <2>2
<1> HIDE DEF f, g
<1>7. ASSUME NEW i \in 1..(n + 1)
      PROVE  /\ f[i + 1] = f[i] + Len(EncodeResponse(g[i]))
             /\ \A j \in 1..Len(EncodeResponse(g[i])) : v[f[i] + j] = EncodeResponse(g[i])[j]
  <2>1. CASE i = n + 1
    <3>1. f[i + 1] = Len(v) /\ f[i] = Len(w) /\ EncodeResponse(g[i]) = e
      BY <1>1, <1>5, <1>6, <2>1 DEF e
    <3>2. QED
      BY <1>3, <3>1
  <2>2. CASE i # n + 1
    <3>1. i \in 1..n /\ i + 1 \in 1..(n + 1)
      BY <1>1, <2>2
    <3>2. f[i + 1] = b[i + 1] /\ f[i] = b[i] /\ g[i] = r[i]
      BY <1>5, <1>6, <3>1
    <3> DEFINE d == EncodeResponse(r[i])
    <3>3. b[i + 1] = b[i] + Len(d) /\ \A j \in 1..Len(d) : w[b[i] + j] = d[j]
      BY <1>1, <3>1
    <3>4. b[i] \in 0..Len(w) /\ b[i + 1] \in 0..Len(w)
      BY <3>1, ReadFromBeginning
    <3>5. Len(d) \in Nat
      <4>1. d \in Octets
        BY <1>1, <3>1, NoOctets, ResponsesArriveExactly
      <4>2. QED
        BY <4>1, OctetsAre
    <3> HIDE DEF d
    <3>6. ASSUME NEW j \in 1..Len(d) PROVE v[b[i] + j] = d[j]
      <4>1. b[i] + j \in 1..Len(w)
        BY <1>4, <3>3, <3>4, <3>5
      <4>2. QED
        BY <1>3, <3>3, <4>1
    <3>7. QED
      BY <3>2, <3>3, <3>6 DEF d
  <2>3. QED
    BY <2>1, <2>2
<1>8. Written(v, f, g, n + 1)
  <2>1. 1 \in 1..(n + 1) /\ n + 1 \in Nat
    BY <1>1
  <2>2. f[1] = 0
    BY <1>1, <1>5, <2>1
  <2>3. QED
    BY <1>3, <1>5, <1>6, <1>7, <2>1, <2>2 DEF Written
<1>9. c \in 0..Len(v)
  BY <1>3, <1>4
<1>10. Rest(v, c) = Rest(w, c) \o e
  <2> DEFINE s == Rest(v, c)
             q == Rest(w, c)
             t == q \o e
  <2>1. s \in Octets /\ Len(s) = Len(v) - c /\ \A i \in 1..(Len(v) - c) : s[i] = v[c + i]
    BY <1>3, <1>9, RestIs
  <2>2. q \in Octets /\ Len(q) = Len(w) - c /\ \A i \in 1..(Len(w) - c) : q[i] = w[c + i]
    BY <1>1, RestIs
  <2> HIDE DEF s, q
  <2>3. /\ t \in Octets /\ Len(t) = Len(q) + Len(e)
        /\ \A i \in 1..Len(q) : t[i] = q[i]
        /\ \A i \in 1..Len(e) : t[Len(q) + i] = e[i]
    BY <1>2, <2>2, Joins DEF e
  <2> HIDE DEF t
  <2>4. Len(s) = Len(t)
    BY <1>3, <1>4, <2>1, <2>2, <2>3
  <2>5. ASSUME NEW i \in 1..Len(s) PROVE s[i] = t[i]
    <3>1. CASE i <= Len(q)
      <4>1. i \in 1..Len(q) /\ i \in 1..(Len(w) - c) /\ i \in 1..(Len(v) - c) /\ c + i \in 1..Len(w)
        BY <1>3, <1>4, <2>1, <2>2, <3>1
      <4>2. QED
        BY <1>3, <2>1, <2>2, <2>3, <4>1
    <3>2. CASE ~(i <= Len(q))
      <4> DEFINE k == i - Len(q)
      <4>1. k \in 1..Len(e) /\ Len(q) + k = i /\ i \in 1..(Len(v) - c) /\ c + i = Len(w) + k
        BY <1>3, <1>4, <2>1, <2>2, <3>2
      <4> HIDE DEF k
      <4>2. t[Len(q) + k] = e[k] /\ s[i] = v[c + i] /\ v[Len(w) + k] = e[k]
        BY <1>3, <2>1, <2>3, <4>1
      <4>3. QED
        BY <4>1, <4>2
    <3>3. QED
      BY <3>1, <3>2
  <2>6. s = t
    BY <2>1, <2>3, <2>4, <2>5, OctetsEqual
  <2>7. QED
    BY <2>6 DEF s, q, t
<1>11. QED
  BY <1>8, <1>9, <1>10 DEF v, e, f, g

Stands(w, b, r, n, all, left, at) ==
  /\ Written(w, b, r, n)
  /\ at \in 0..Len(w) /\ left = Rest(w, at)
  /\ \A i \in 1..n : all[i].begins = b[i] /\ (all[i].to = 0 => r[i] = Failed)

ReplyInv ==
  /\ responses \in Octets /\ consumed \in Nat
  /\ answers \in Seq([to : Nat, begins : Nat])
  /\ \E w \in Octets : \E b \in [1..(Len(answers) + 1) -> Nat] : \E r \in [1..Len(answers) -> Replies] :
       Stands(w, b, r, Len(answers), answers, responses, consumed)

LEMMA ReplyInvStays ==
  ASSUME ReplyInv, UNCHANGED <<answers, responses, consumed>>
  PROVE  ReplyInv'
BY DEF ReplyInv

LEMMA ReplyInvRead ==
  ASSUME ReplyInv, UNCHANGED answers, NEW k \in 0..Len(responses),
         responses' = Rest(responses, k),
         consumed' = consumed + (Len(responses) - Len(responses'))
  PROVE  ReplyInv' /\ consumed' = consumed + k /\ consumed' + Len(responses') = consumed + Len(responses)
<1> DEFINE n == Len(answers)
<1>1. /\ responses \in Octets /\ consumed \in Nat /\ answers \in Seq([to : Nat, begins : Nat])
      /\ Len(responses) \in Nat
  BY OctetsAre DEF ReplyInv
<1>2. PICK w \in Octets, b \in [1..(n + 1) -> Nat], r \in [1..n -> Replies] :
        Stands(w, b, r, n, answers, responses, consumed)
  BY DEF ReplyInv
<1>3. responses' \in Octets /\ Len(responses') = Len(responses) - k
  BY <1>1, RestIs
<1>4. consumed' = consumed + k /\ consumed' \in Nat /\ consumed' + Len(responses') = consumed + Len(responses)
  BY <1>1, <1>3
<1>5. /\ Written(w, b, r, n) /\ consumed \in 0..Len(w) /\ responses = Rest(w, consumed)
      /\ \A i \in 1..n : answers[i].begins = b[i] /\ (answers[i].to = 0 => r[i] = Failed)
  BY <1>2 DEF Stands
<1>6. Len(responses) = Len(w) - consumed /\ Len(w) \in Nat
  BY <1>5, RestIs, OctetsAre
<1>7. consumed' \in 0..Len(w) /\ k \in 0..(Len(w) - consumed)
  BY <1>1, <1>4, <1>5, <1>6
<1>8. responses' = Rest(w, consumed')
  <2>1. Rest(Rest(w, consumed), k) = Rest(w, consumed + k)
    BY <1>5, <1>7, RestOfRest
  <2>2. QED
    BY <1>4, <1>5, <2>1
<1> HIDE DEF n
<1>9. Stands(w, b, r, n, answers, responses', consumed')
  BY <1>5, <1>7, <1>8 DEF Stands
<1>10. Len(answers') = n /\ answers' = answers
  BY DEF n
<1>11. \E v \in Octets : \E f \in [1..(Len(answers') + 1) -> Nat] : \E g \in [1..Len(answers') -> Replies] :
         Stands(v, f, g, Len(answers'), answers', responses', consumed')
  BY <1>9, <1>10
<1>12. QED
  BY <1>1, <1>3, <1>4, <1>11 DEF ReplyInv

LEMMA ReplyInvSaid ==
  ASSUME ReplyInv, NEW x \in Replies, NEW to \in Nat, to = 0 => x = Failed,
         Say(x, to), UNCHANGED consumed
  PROVE  /\ ReplyInv' /\ Len(answers') = Len(answers) + 1
         /\ answers'[Len(answers) + 1] = [to |-> to, begins |-> consumed + Len(responses)]
         /\ \A i \in 1..Len(answers) : answers'[i] = answers[i]
<1> DEFINE n == Len(answers)
           e == EncodeResponse(x)
           m == consumed + Len(responses)
           a == [to |-> to, begins |-> m]
<1>1. /\ responses \in Octets /\ consumed \in Nat /\ answers \in Seq([to : Nat, begins : Nat])
      /\ Len(responses) \in Nat /\ n \in Nat
  BY OctetsAre DEF ReplyInv
<1>2. PICK w \in Octets, b \in [1..(n + 1) -> Nat], r \in [1..n -> Replies] :
        Stands(w, b, r, n, answers, responses, consumed)
  BY DEF ReplyInv
<1>3. /\ Written(w, b, r, n) /\ consumed \in 0..Len(w) /\ responses = Rest(w, consumed)
      /\ \A i \in 1..n : answers[i].begins = b[i] /\ (answers[i].to = 0 => r[i] = Failed)
  BY <1>2 DEF Stands
<1>4. answers' = Append(answers, a) /\ responses' = responses \o e
  BY DEF Say
<1>5. a \in [to : Nat, begins : Nat]
  BY <1>1
<1> HIDE DEF a
<1>6. /\ answers' \in Seq([to : Nat, begins : Nat]) /\ Len(answers') = n + 1
      /\ answers'[n + 1] = a /\ \A i \in 1..n : answers'[i] = answers[i]
  BY <1>1, <1>4, <1>5, AppendProperties
<1> DEFINE v == w \o e
           f == [i \in 1..((n + 1) + 1) |-> IF i = (n + 1) + 1 THEN Len(v) ELSE b[i]]
           g == [i \in 1..(n + 1) |-> IF i = n + 1 THEN x ELSE r[i]]
<1>7. /\ Written(v, f, g, n + 1) /\ consumed \in 0..Len(v)
      /\ Rest(v, consumed) = responses \o e
  BY ZenonT(30), <1>3, WriteReply
<1>8. m = b[n + 1]
  <2>1. Len(responses) = Len(w) - consumed /\ Len(w) \in Nat
    BY <1>3, RestIs, OctetsAre
  <2>2. b[n + 1] = Len(w)
    BY <1>3 DEF Written
  <2>3. QED
    BY <1>1, <2>1, <2>2
<1>9. ASSUME NEW i \in 1..(n + 1)
      PROVE  answers'[i].begins = f[i] /\ (answers'[i].to = 0 => g[i] = Failed)
  <2>0. i \in 1..((n + 1) + 1) /\ i # (n + 1) + 1
    BY <1>1
  <2>1. CASE i = n + 1
    <3>1. f[i] = b[n + 1] /\ g[i] = x
      BY <2>0, <2>1
    <3>2. answers'[i] = a /\ a.to = to /\ a.begins = m
      BY <1>6, <2>1 DEF a
    <3> HIDE DEF m, f, g
    <3>3. QED
      BY <1>8, <3>1, <3>2
  <2>2. CASE i # n + 1
    <3>1. i \in 1..n
      BY <1>1, <2>2
    <3>2. f[i] = b[i] /\ g[i] = r[i]
      BY <2>0, <2>2
    <3> HIDE DEF f, g
    <3>3. QED
      BY <1>3, <1>6, <3>1, <3>2
  <2>3. QED
    BY <2>1, <2>2
<1>10. /\ v \in Octets /\ f \in [1..((n + 1) + 1) -> Nat] /\ g \in [1..(n + 1) -> Replies]
  BY <1>7 DEF Written
<1> HIDE DEF v, f, g, n
<1>11. Stands(v, f, g, n + 1, answers', responses', consumed')
  BY <1>4, <1>7, <1>9 DEF Stands
<1>12. \E u \in Octets : \E h \in [1..(Len(answers') + 1) -> Nat] : \E k \in [1..Len(answers') -> Replies] :
         Stands(u, h, k, Len(answers'), answers', responses', consumed')
  BY <1>6, <1>10, <1>11
<1>13. responses' \in Octets
  <2>1. e \in Octets
    BY NoOctets, ResponsesArriveExactly
  <2>2. QED
    BY <1>1, <1>4, <2>1, Joins
<1>14. ReplyInv'
  BY <1>1, <1>6, <1>12, <1>13 DEF ReplyInv
<1>15. QED
  BY <1>6, <1>14 DEF n, a, m

(* Answers stand one behind the other, and none of them at the end.        *)
LEMMA AnswersStandInOrder ==
  ASSUME ReplyInv, NEW i \in 1..Len(answers)
  PROVE  /\ answers[i].begins \in Nat /\ answers[i].begins < consumed + Len(responses)
         /\ \A j \in (i + 1)..Len(answers) : answers[i].begins < answers[j].begins
<1> DEFINE n == Len(answers)
<1>1. /\ responses \in Octets /\ consumed \in Nat /\ answers \in Seq([to : Nat, begins : Nat])
      /\ n \in Nat
  BY DEF ReplyInv
<1>2. PICK w \in Octets, b \in [1..(n + 1) -> Nat], r \in [1..n -> Replies] :
        Stands(w, b, r, n, answers, responses, consumed)
  BY DEF ReplyInv
<1>3. /\ Written(w, b, r, n) /\ consumed \in 0..Len(w) /\ responses = Rest(w, consumed)
      /\ \A j \in 1..n : answers[j].begins = b[j]
  BY <1>2 DEF Stands
<1>4. b[n + 1] = Len(w) /\ Len(responses) = Len(w) - consumed /\ Len(w) \in Nat
  BY <1>3, RestIs, OctetsAre DEF Written
<1>5. consumed + Len(responses) = b[n + 1]
  BY <1>1, <1>4
<1> HIDE DEF n
<1>6. n + 1 \in (i + 1)..(n + 1) /\ i \in 1..(n + 1) /\ i \in 1..n
      /\ \A j \in (i + 1)..n : j \in (i + 1)..(n + 1) /\ j \in 1..n
  BY <1>1 DEF n
<1>7. \A j \in (i + 1)..(n + 1) : b[i] < b[j]
  BY <1>3, <1>6, WrittenInOrder
<1>8. answers[i].begins = b[i] /\ b[i] \in Nat
  BY <1>2, <1>3, <1>6
<1>9. QED
  BY <1>3, <1>5, <1>6, <1>7, <1>8 DEF n

LEMMA NextAnswerIs ==
  ASSUME ReplyInv, NEW i \in 1..Len(answers), answers[i].begins = consumed
  PROVE  NextAnswer = i
<1>1. DOMAIN answers = 1..Len(answers) /\ Len(answers) \in Nat
  BY DEF ReplyInv
<1>2. ASSUME NEW j \in 1..Len(answers), answers[j].begins = consumed PROVE j = i
  <2>1. ~(j < i)
    <3>1. j < i => i \in (j + 1)..Len(answers)
      BY <1>1
    <3>2. answers[j].begins \in Nat /\ \A k \in (j + 1)..Len(answers) : answers[j].begins < answers[k].begins
      BY AnswersStandInOrder
    <3>3. QED
      BY <1>2, <3>1, <3>2
  <2>2. ~(i < j)
    <3>1. i < j => j \in (i + 1)..Len(answers)
      BY <1>1
    <3>2. answers[i].begins \in Nat /\ \A k \in (i + 1)..Len(answers) : answers[i].begins < answers[k].begins
      BY AnswersStandInOrder
    <3>3. QED
      BY <1>2, <3>1, <3>2
  <2>3. QED
    BY <1>1, <2>1, <2>2
<1>3. NextAnswer = CHOOSE j \in 1..Len(answers) : answers[j].begins = consumed
  BY <1>1 DEF NextAnswer
<1>4. QED
  BY <1>2, <1>3

\* The place behind answer i - 1.
Place(ans, end, i) == IF i <= Len(ans) THEN ans[i].begins ELSE end

Begins(i) == Place(answers, consumed + Len(responses), i)

(* A client that is at the beginning of an answer reads it.                *)
LEMMA AnswersAreRead ==
  ASSUME ReplyInv, NEW i \in 1..Len(answers), answers[i].begins = consumed
  PROVE  /\ Incoming.kind = "value"
         /\ consumed + (Len(responses) - Len(Incoming.rest)) = Begins(i + 1)
<1> DEFINE n == Len(answers)
<1>1. /\ responses \in Octets /\ consumed \in Nat /\ n \in Nat
  BY DEF ReplyInv
<1>2. PICK w \in Octets, b \in [1..(n + 1) -> Nat], r \in [1..n -> Replies] :
        Stands(w, b, r, n, answers, responses, consumed)
  BY DEF ReplyInv
<1>3. /\ Written(w, b, r, n) /\ consumed \in 0..Len(w) /\ responses = Rest(w, consumed)
      /\ \A j \in 1..n : answers[j].begins = b[j]
  BY <1>2 DEF Stands
<1>4. b[n + 1] = Len(w) /\ Len(responses) = Len(w) - consumed /\ Len(w) \in Nat
  BY <1>3, RestIs, OctetsAre DEF Written
<1>5. b[i] = consumed
  BY <1>3
<1>6. DecodeResponse[responses] = Got(r[i], Rest(w, b[i + 1])) /\ b[i + 1] \in 0..Len(w)
  BY SMTT(30), <1>3, <1>5, ReadFromBeginning
<1>7. Len(Rest(w, b[i + 1])) = Len(w) - b[i + 1]
  BY <1>6, RestIs
<1>8. Incoming.kind = "value" /\ Incoming.rest = Rest(w, b[i + 1])
  BY <1>6, GotIs DEF Incoming
<1>9. consumed + (Len(responses) - Len(Incoming.rest)) = b[i + 1]
  <2>1. Len(Incoming.rest) = Len(w) - b[i + 1]
    BY <1>7, <1>8
  <2>2. QED
    BY <1>1, <1>4, <1>6, <2>1
<1>10. Begins(i + 1) = b[i + 1]
  <2>1. CASE i + 1 <= n
    <3>1. i + 1 \in 1..n
      BY <1>1, <2>1
    <3>2. QED
      BY <1>3, <2>1, <3>1 DEF Begins, Place
  <2>2. CASE ~(i + 1 <= n)
    <3>1. i + 1 = n + 1
      BY <1>1, <2>2
    <3>2. Begins(i + 1) = consumed + Len(responses)
      BY <2>2 DEF Begins, Place
    <3>3. consumed + Len(responses) = Len(w)
      BY <1>1, <1>4
    <3>4. QED
      BY <1>4, <3>1, <3>2, <3>3
  <2>3. QED
    BY <2>1, <2>2
<1>11. QED
  BY <1>8, <1>9, <1>10

(* What decides a call is an answer to a message that has been carried     *)
(* out, read from its beginning on.                                        *)
LEMMA DecisionsAreRead ==
  ASSUME ReplyInv, Incoming.kind = "value", Incoming.value.code \in Decisions
  PROVE  /\ NextAnswer \in 1..Len(answers) /\ answers[NextAnswer].begins = consumed
         /\ answers[NextAnswer].to # 0
<1> DEFINE n == Len(answers)
<1>1. /\ responses \in Octets /\ consumed \in Nat /\ n \in Nat
  BY DEF ReplyInv
<1>2. PICK w \in Octets, b \in [1..(n + 1) -> Nat], r \in [1..n -> Replies] :
        Stands(w, b, r, n, answers, responses, consumed)
  BY DEF ReplyInv
<1>3. /\ Written(w, b, r, n) /\ consumed \in 0..Len(w) /\ responses = Rest(w, consumed)
      /\ \A j \in 1..n : answers[j].begins = b[j] /\ (answers[j].to = 0 => r[j] = Failed)
  BY <1>2 DEF Stands
<1>4. ~Undecided(responses)
  BY DEF Undecided, Incoming
<1>5. consumed # Len(w)
  <2>1. SUFFICES ASSUME consumed = Len(w) PROVE FALSE
    OBVIOUS
  <2>2. responses \in Octets /\ Len(responses) = Len(w) - consumed /\ Len(w) \in Nat
    BY <1>3, RestIs, OctetsAre
  <2>3. Len(responses) = 0
    BY <2>1, <2>2
  <2>4. IndexByte(responses, Colon) = 0
    <3>1. DOMAIN responses = 1..Len(responses)
      BY <2>2, OctetsAre
    <3>2. \A j \in DOMAIN responses : responses[j] # Colon
      BY <2>3, <3>1
    <3>3. QED
      BY <3>2, IndexByteIsNone
  <2>5. ReadLV[responses] = [kind |-> "ended"]
    BY <2>2, <2>4, ReadLVDef DEF ReadLVOf
  <2>6. ReadLV[responses].kind # "value"
    BY <2>5
  <2>7. QED
    BY <1>4, <2>2, <2>6, UndecidedUnlessRead
<1>6. PICK i \in 1..n : b[i] <= consumed /\ consumed < b[i + 1]
  BY <1>3, <1>5, PlacesAreInReplies
<1>7. ~(b[i] < consumed)
  BY <1>3, <1>4, <1>6, ReadFromInside
<1>8. b[i] = consumed
  <2>1. b[i] \in Nat
    BY <1>3, ReadFromBeginning
  <2>2. QED
    BY <1>1, <1>6, <1>7, <2>1
<1>9. answers[i].begins = consumed /\ NextAnswer = i
  BY <1>3, <1>8, NextAnswerIs
<1>10. answers[i].to # 0
  <2>1. SUFFICES ASSUME r[i] = Failed PROVE FALSE
    BY <1>3
  <2>2. DecodeResponse[responses] = Got(r[i], Rest(w, b[i + 1]))
    BY <1>3, <1>8, ReadFromBeginning
  <2>3. Incoming.value = Failed
    BY <2>1, <2>2, GotIs DEF Incoming
  <2>4. CodeError \in Decisions
    BY <2>3 DEF Failed, Response
  <2>5. CodeError \notin Decisions
    BY DEF CodeError, Decisions, CodeOK, CodeBye, CodeDenied
  <2>6. QED
    BY <2>4, <2>5
<1>11. QED
  BY <1>9, <1>10

-----------------------------------------------------------------------------
(***************************************************************************)
(* What the handler does, and what the calls return.                       *)
(***************************************************************************)
(* What is read is taken off the front of the stream.                      *)
LEMMA DecodingTakes ==
  ASSUME NEW s \in Octets, DecodeResponse[s].kind # "incomplete"
  PROVE  \E k \in 1..Len(s) : DecodeResponse[s].rest = Rest(s, k)
<1>1. CASE ReadLV[s] = [kind |-> "ended"] \/ ReadLV[s] = [kind |-> "short"]
  <2>1. ReadLV[s].kind \in {"ended", "short"}
    BY <1>1
  <2>2. DecodeResponse[s] = Incomplete
    BY <2>1, DecodeResponseDef
  <2>3. QED
    BY <2>2 DEF Incomplete
<1>2. ASSUME NEW k \in 1..Len(s), ReadLV[s] = Invalid(Rest(s, k))
      PROVE  DecodeResponse[s].rest = Rest(s, k)
  <2>1. ReadLV[s].kind = "invalid" /\ ReadLV[s].rest = Rest(s, k)
    BY <1>2 DEF Invalid
  <2>2. QED
    BY <2>1, DecodeResponseDef
<1>3. ASSUME NEW v \in Octets, NEW k \in 1..Len(s), ReadLV[s] = Got(v, Rest(s, k))
      PROVE  DecodeResponse[s].rest = Rest(s, k)
  <2> DEFINE t == Rest(s, k)
  <2> HIDE DEF t
  <2>1. ReadLV[s].kind = "value" /\ ReadLV[s].value = v /\ ReadLV[s].rest = t
    BY <1>3, GotIs DEF t
  <2>2. DecodeResponse[s] = ResponseIn(v, t)
    BY <2>1, DecodeResponseDef
  <2>3. ResponseIn(v, t).rest = t
    BY DEF ResponseIn, Invalid, Got
  <2>4. QED
    BY <2>2, <2>3 DEF t
<1>4. QED
  BY <1>1, <1>2, <1>3, ReadLVTakes

LEMMA OutcomeIs ==
  ASSUME NEW m, NEW r
  PROVE  /\ Outcome(m, r) \in {"yes", "no", "error"}
         /\ Outcome(m, r) \in {"yes", "no"} => r.code \in Decisions
BY DEF Outcome, Decisions

LEMMA ResponsesAreReplies ==
  ASSUME NEW m \in Messages
  PROVE  Responses[m] \subseteq Replies
BY DEF Responses, Replies

-----------------------------------------------------------------------------
(* DecisionsAreAnswers, call by call.                                      *)
CallsOf(res, outcomes, i) == {j \in 1..(i - 1) : res[j].outcome \in outcomes}

IsAnswer(res, ans, i) ==
  res[i].outcome \in {"yes", "no"} =>
    /\ res[i].from \in 1..Len(ans)
    /\ \A j \in 1..(i - 1) : res[j].from < res[i].from
    /\ ans[res[i].from].to \in (i - Cardinality(CallsOf(res, {"timeout", "error"}, i)))..i
    /\ CallsOf(res, {"timeout"}, i) = {} => ans[res[i].from].to = i

Results == [outcome : {"yes", "no", "error", "timeout"}, from : Nat]
Answers == [to : Nat, begins : Nat]

LEMMA DecisionsByCall ==
  ASSUME results \in Seq(Results), answers \in Seq(Answers)
  PROVE  DecisionsAreAnswers <=> \A i \in 1..Len(results) : IsAnswer(results, answers, i)
<1>1. DOMAIN results = 1..Len(results) /\ DOMAIN answers = 1..Len(answers)
  OBVIOUS
<1>2. ASSUME NEW i \in 1..Len(results), NEW outcomes
      PROVE  Calls(outcomes, i) = CallsOf(results, outcomes, i)
  BY DEF Calls, CallsOf
<1>3. QED
  BY <1>1, <1>2 DEF DecisionsAreAnswers, IsAnswer

(* An answer stays what it is when more calls return and more is answered. *)
LEMMA AnswersStay ==
  ASSUME NEW res, NEW ans, NEW res2, NEW ans2, NEW i \in Nat \ {0}, IsAnswer(res, ans, i),
         \A j \in 1..i : res2[j] = res[j],
         NEW n \in Nat, NEW m \in Nat, Len(ans) = n, Len(ans2) = m, n <= m,
         \A j \in 1..n : ans2[j].to = ans[j].to
  PROVE  IsAnswer(res2, ans2, i)
<1>1. i \in 1..i /\ \A j \in 1..(i - 1) : j \in 1..i
  OBVIOUS
<1>2. res2[i] = res[i] /\ \A j \in 1..(i - 1) : res2[j] = res[j]
  BY <1>1
<1>3. ASSUME NEW outcomes PROVE CallsOf(res2, outcomes, i) = CallsOf(res, outcomes, i)
  BY <1>2 DEF CallsOf
<1>4. SUFFICES ASSUME res[i].outcome \in {"yes", "no"}
               PROVE  /\ res[i].from \in 1..Len(ans2)
                      /\ \A j \in 1..(i - 1) : res2[j].from < res[i].from
                      /\ ans2[res[i].from].to
                           \in (i - Cardinality(CallsOf(res, {"timeout", "error"}, i)))..i
                      /\ CallsOf(res, {"timeout"}, i) = {} => ans2[res[i].from].to = i
  BY <1>2, <1>3 DEF IsAnswer
<1> DEFINE f == res[i].from
           c == Cardinality(CallsOf(res, {"timeout", "error"}, i))
<1>5. /\ f \in 1..n /\ \A j \in 1..(i - 1) : res[j].from < f
      /\ ans[f].to \in (i - c)..i
      /\ CallsOf(res, {"timeout"}, i) = {} => ans[f].to = i
  BY <1>4 DEF IsAnswer
<1> HIDE DEF f, c
<1>6. f \in 1..m /\ ans2[f].to = ans[f].to
  BY <1>5
<1>7. QED
  BY <1>2, <1>5, <1>6 DEF f, c

(* Calls that were decided, each by another answer, all of them before     *)
(* answer f, are fewer than f: the others were not decided.                *)
LEMMA DecidedCallsAreFew ==
  ASSUME NEW res, NEW ans, NEW n \in Nat, NEW f \in Nat \ {0},
         \A j \in 1..n : res[j] \in Results /\ IsAnswer(res, ans, j) /\ res[j].from < f,
         Len(ans) \in Nat
  PROVE  /\ Cardinality(CallsOf(res, {"timeout", "error"}, n + 1)) \in Nat
         /\ (n + 1) - Cardinality(CallsOf(res, {"timeout", "error"}, n + 1)) <= f
<1> DEFINE D == CallsOf(res, {"yes", "no"}, n + 1)
           U == CallsOf(res, {"timeout", "error"}, n + 1)
           F == [j \in D |-> res[j].from]
<1>1. (n + 1) - 1 = n
  OBVIOUS
<1>2. D \cup U = 1..n /\ D \cap U = {} /\ D \subseteq 1..n /\ U \subseteq 1..n
  BY <1>1 DEF CallsOf, Results
<1>3. \A j \in D : j \in 1..n /\ res[j].outcome \in {"yes", "no"}
  BY <1>1 DEF CallsOf
<1> HIDE DEF D, U
<1>4. IsFiniteSet(1..n) /\ Cardinality(1..n) = n
  BY SMTT(30), FS_Interval
<1>5. IsFiniteSet(D) /\ IsFiniteSet(U)
  BY <1>2, <1>4, FS_Subset
<1>6. Cardinality(D) \in Nat /\ Cardinality(U) \in Nat
  BY <1>5, FS_CardinalityType
<1>7. Cardinality(D) + Cardinality(U) = n
  <2>1. Cardinality(D \cup U) = Cardinality(D) + Cardinality(U) - Cardinality(D \cap U)
    BY <1>5, FS_Union
  <2>2. Cardinality(D \cap U) = 0 /\ Cardinality(D \cup U) = n
    BY <1>2, <1>4, FS_EmptySet
  <2>3. n = Cardinality(D) + Cardinality(U) - 0
    BY <2>1, <2>2
  <2> DEFINE d == Cardinality(D)
             u == Cardinality(U)
  <2>4. d \in Nat /\ u \in Nat /\ n = d + u - 0
    BY <1>6, <2>3
  <2> HIDE DEF d, u
  <2>5. d + u = n
    BY <2>4
  <2>6. QED
    BY <2>5 DEF d, u
<1>8. IsFiniteSet(1..(f - 1)) /\ Cardinality(1..(f - 1)) = f - 1
  BY SMTT(30), FS_Interval
<1>9. ASSUME NEW j \in D
      PROVE  /\ res[j].from \in 1..(f - 1)
             /\ \A k \in 1..(j - 1) : res[k].from < res[j].from
  <2>1. /\ res[j].from \in 1..Len(ans) /\ res[j].from < f
        /\ \A k \in 1..(j - 1) : res[k].from < res[j].from
    BY <1>3 DEF IsAnswer
  <2>2. QED
    BY <2>1
<1>10. ASSUME NEW j \in D, NEW k \in D, F[j] = F[k] PROVE j = k
  <2>1. res[k].from = res[j].from
    BY <1>10
  <2> HIDE DEF F
  <2>2. j \in 1..n /\ k \in 1..n /\ res[j].from \in Nat /\ res[k].from = res[j].from
    <3>1. j \in 1..n /\ k \in 1..n
      BY <1>3
    <3>2. res[j].from \in Nat
      BY <1>9
    <3>3. QED
      BY <2>1, <3>1, <3>2
  <2>3. CASE j < k
    <3>1. j \in 1..(k - 1)
      BY <2>2, <2>3
    <3>2. res[j].from < res[k].from
      BY <1>9, <3>1
    <3>3. QED
      BY <2>2, <3>2
  <2>4. CASE k < j
    <3>1. k \in 1..(j - 1)
      BY <2>2, <2>4
    <3>2. res[k].from < res[j].from
      BY <1>9, <3>1
    <3>3. QED
      BY <2>2, <3>2
  <2>5. QED
    BY <2>2, <2>3, <2>4
<1>11. F \in Injection(D, 1..(f - 1))
  <2>1. F \in [D -> 1..(f - 1)]
    BY <1>9
  <2> HIDE DEF F
  <2>2. QED
    BY <1>10, <2>1 DEF Injection, IsInjective
<1> HIDE DEF F
<1>12. Cardinality(D) <= f - 1
  <2>1. Cardinality(D) <= Cardinality(1..(f - 1))
    BY <1>8, <1>11, FS_Injection
  <2>2. QED
    BY <1>8, <2>1
<1>13. QED
  BY <1>6, <1>7, <1>12 DEF U

-----------------------------------------------------------------------------
(***************************************************************************)
(* The inductive invariant: where the two parties are, which message an    *)
(* answer is for, that no call has read what is still to be read, and      *)
(* that without a timeout the calls and the answers keep step.             *)
(***************************************************************************)
IsFor(ans, i, e, gone) ==
  /\ ans[i].to <= e
  /\ ans[i].to = i \/ (ans[i].to = 0 /\ i = Len(ans) /\ gone)

TurnInv ==
  /\ client \in {"new", "idle", "waiting", "closed"}
  /\ handler \in {"none", "reading", "responding", "gone"}
  /\ pending \in Replies /\ results \in Seq(Results)
  /\ client = "new" => handler = "none" /\ Len(executed) = 0 /\ Len(answers) = 0
  /\ client \in {"new", "idle"} => Len(sent) = Len(results)
  /\ client = "waiting" => Len(sent) = Len(results) + 1
  /\ handler = "reading" => Len(executed) = Len(answers)
  /\ handler = "responding" => Len(executed) = Len(answers) + 1
  /\ \A i \in 1..Len(answers) : IsFor(answers, i, Len(executed), handler = "gone")

BehindCalls(res, ans, c) ==
  \A j \in 1..Len(res) :
    res[j].from \in 0..Len(ans) /\ (res[j].from > 0 => ans[res[j].from].begins < c)

Lockstep ==
  (\A j \in 1..Len(results) : results[j].outcome # "timeout") =>
    \/ handler = "gone" /\ responses = <<>>
    \/ Len(results) <= Len(answers) /\ consumed = Begins(Len(results) + 1)

CallInv ==
  /\ ReplyInv
  /\ BehindCalls(results, answers, consumed)
  /\ \A i \in 1..Len(results) : IsAnswer(results, answers, i)
  /\ Lockstep

LEMMA CallInvStays ==
  ASSUME CallInv, UNCHANGED <<results, answers, responses, consumed>>,
         handler = "gone" => handler' = "gone"
  PROVE  CallInv'
<1>1. ReplyInv'
  BY ReplyInvStays DEF CallInv
<1>2. Lockstep'
  BY DEF CallInv, Lockstep, Begins, Place
<1>3. results' = results /\ answers' = answers /\ consumed' = consumed
  OBVIOUS
<1>4. BehindCalls(results, answers, consumed)' /\ (\A i \in 1..Len(results) : IsAnswer(results, answers, i))'
  BY <1>3 DEF CallInv
<1>5. QED
  BY <1>1, <1>2, <1>4 DEF CallInv

LEMMA CallInvSaid ==
  ASSUME CallInv, TurnInv, handler # "gone", NEW x \in Replies, NEW to \in Nat,
         to = 0 => x = Failed, Say(x, to), UNCHANGED <<results, consumed>>
  PROVE  CallInv'
<1> DEFINE n == Len(answers)
<1>1. /\ ReplyInv /\ ReplyInv' /\ Len(answers') = n + 1
      /\ answers'[n + 1] = [to |-> to, begins |-> consumed + Len(responses)]
      /\ \A i \in 1..n : answers'[i] = answers[i]
  BY ReplyInvSaid DEF CallInv
<1>2. /\ results' = results /\ consumed' = consumed /\ n \in Nat
      /\ results \in Seq(Results) /\ Len(results) \in Nat
      /\ consumed \in Nat /\ Len(responses) \in Nat
  <2>1. results' = results /\ consumed' = consumed
    OBVIOUS
  <2>2. consumed \in Nat /\ Len(responses) \in Nat
    BY <1>1, OctetsAre DEF ReplyInv
  <2>3. n \in Nat
    BY <1>1 DEF ReplyInv
  <2>4. results \in Seq(Results) /\ Len(results) \in Nat
    BY DEF TurnInv
  <2>5. QED
    BY <2>1, <2>2, <2>3, <2>4
<1>3. BehindCalls(results', answers', consumed')
  <2>1. ASSUME NEW j \in 1..Len(results)
        PROVE  /\ results[j].from \in 0..(n + 1)
               /\ results[j].from > 0 => answers'[results[j].from].begins < consumed
    <3>1. /\ results[j].from \in 0..n
          /\ results[j].from > 0 => answers[results[j].from].begins < consumed
      BY DEF CallInv, BehindCalls
    <3>2. results[j].from > 0 => results[j].from \in 1..n
      BY <1>2, <3>1
    <3>3. results[j].from \in 0..(n + 1)
      BY <1>2, <3>1
    <3>4. QED
      BY <1>1, <3>1, <3>2, <3>3
  <2>2. QED
    BY <1>1, <1>2, <2>1 DEF BehindCalls
<1>4. ASSUME NEW i \in 1..Len(results) PROVE IsAnswer(results', answers', i)
  <2>1. IsAnswer(results, answers, i) /\ i \in Nat \ {0}
    BY <1>2 DEF CallInv
  <2>2. n + 1 \in Nat /\ n <= n + 1 /\ \A j \in 1..n : answers'[j].to = answers[j].to
    BY <1>1, <1>2
  <2> HIDE DEF n
  <2>3. Len(answers) = n
    BY DEF n
  <2>4. QED
    BY <1>1, <1>2, <2>1, <2>2, <2>3, AnswersStay
<1>5. Lockstep'
  <2>1. SUFFICES ASSUME \A j \in 1..Len(results) : results[j].outcome # "timeout"
                 PROVE  /\ Len(results) <= Len(answers')
                        /\ consumed = Begins(Len(results) + 1)'
    BY <1>2 DEF Lockstep
  <2>2. Len(results) <= n /\ consumed = Begins(Len(results) + 1)
    BY <2>1 DEF CallInv, Lockstep
  <2> DEFINE m == Len(results)
  <2>3. m \in Nat /\ m <= n /\ consumed = Begins(m + 1)
    BY <1>2, <2>2
  <2>4. CASE m + 1 <= n
    <3>1. m + 1 \in 1..n /\ m + 1 <= n + 1
      BY <1>2, <2>3, <2>4
    <3>2. consumed = answers[m + 1].begins
      BY <2>3, <2>4 DEF Begins, Place
    <3>3. answers'[m + 1].begins = consumed
      BY <1>1, <3>1, <3>2
    <3>4. Begins(m + 1)' = consumed
      BY <1>1, <1>2, <3>1, <3>3 DEF Begins, Place
    <3>5. QED
      BY <1>1, <1>2, <2>3, <3>1, <3>4
  <2>5. CASE ~(m + 1 <= n)
    <3>1. m = n
      BY <1>2, <2>3, <2>5
    <3>2. consumed = consumed + Len(responses)
      BY <2>3, <2>5 DEF Begins, Place
    <3>3. answers'[n + 1].begins = consumed
      BY <1>1, <3>2
    <3>4. Begins(m + 1)' = consumed
      BY <1>1, <1>2, <3>1, <3>3 DEF Begins, Place
    <3>5. QED
      BY <1>1, <1>2, <3>1, <3>4
  <2>6. QED
    BY <2>4, <2>5
<1>6. (\A i \in 1..Len(results) : IsAnswer(results, answers, i))'
  BY <1>2, <1>4
<1>7. QED
  BY <1>1, <1>3, <1>5, <1>6 DEF CallInv

LEMMA NextAnswerType ==
  ASSUME ReplyInv
  PROVE  /\ NextAnswer \in 0..Len(answers)
         /\ NextAnswer > 0 => answers[NextAnswer].begins = consumed
<1>1. DOMAIN answers = 1..Len(answers) /\ Len(answers) \in Nat
  BY DEF ReplyInv
<1>2. CASE \E i \in DOMAIN answers : answers[i].begins = consumed
  <2>1. PICK i \in 1..Len(answers) : answers[i].begins = consumed
    BY <1>1, <1>2
  <2>2. NextAnswer = i
    BY <2>1, NextAnswerIs
  <2>3. QED
    BY <1>1, <2>1, <2>2
<1>3. CASE ~(\E i \in DOMAIN answers : answers[i].begins = consumed)
  <2>1. NextAnswer = 0
    BY <1>3 DEF NextAnswer
  <2>2. QED
    BY <1>1, <2>1
<1>4. QED
  BY <1>2, <1>3

(* A call returns, and k octets of the stream are gone.                    *)
LEMMA CallInvReturned ==
  ASSUME CallInv, TurnInv,
         NEW outcome \in {"yes", "no", "error", "timeout"}, NEW from \in 0..Len(answers),
         NEW k \in 0..Len(responses), Return(outcome, from, Rest(responses, k)),
         from > 0 => k > 0 /\ answers[from].begins = consumed,
         outcome \in {"yes", "no"} => IsAnswer(results', answers, Len(results) + 1),
         outcome # "timeout" => Lockstep'
  PROVE  CallInv' /\ results' \in Seq(Results) /\ Len(results') = Len(results) + 1
<1> DEFINE n == Len(results)
           x == [outcome |-> outcome, from |-> from]
<1>1. /\ results \in Seq(Results) /\ n \in Nat
  BY DEF TurnInv
<1>2. ReplyInv /\ consumed \in Nat /\ Len(answers) \in Nat
  BY SMTT(30) DEF CallInv, ReplyInv
<1>3. x \in Results /\ x.outcome = outcome /\ x.from = from /\ results' = Append(results, x)
  BY <1>2 DEF Results, Return
<1>4. /\ responses' = Rest(responses, k) /\ UNCHANGED answers
      /\ consumed' = consumed + (Len(responses) - Len(responses'))
  BY DEF Return, handlerVars
<1>5. ReplyInv' /\ consumed' = consumed + k
  BY <1>2, <1>4, ReplyInvRead
<1> HIDE DEF x
<1>6. /\ results' \in Seq(Results) /\ Len(results') = n + 1 /\ results'[n + 1] = x
      /\ \A i \in 1..n : results'[i] = results[i]
  BY <1>1, <1>3, AppendProperties
<1>7. BehindCalls(results', answers, consumed')
  <2>1. ASSUME NEW j \in 1..(n + 1)
        PROVE  /\ results'[j].from \in 0..Len(answers)
               /\ results'[j].from > 0 => answers[results'[j].from].begins < consumed'
    <3>1. CASE j = n + 1
      <4>1. results'[j].from = from
        BY <1>3, <1>6, <3>1
      <4>2. from > 0 => answers[from].begins < consumed'
        BY <1>2, <1>5
      <4>3. QED
        BY <4>1, <4>2
    <3>2. CASE j # n + 1
      <4>1. j \in 1..n
        BY <1>1, <3>2
      <4>2. results'[j] = results[j]
        BY <1>6, <4>1
      <4>3. /\ results[j].from \in 0..Len(answers)
            /\ results[j].from > 0 => answers[results[j].from].begins < consumed
        BY <4>1 DEF CallInv, BehindCalls
      <4>4. ASSUME results[j].from > 0 PROVE answers[results[j].from].begins < consumed'
        <5>1. results[j].from \in 1..Len(answers)
          BY <1>2, <4>3, <4>4
        <5>2. answers[results[j].from].begins \in Nat
          BY <1>2, <5>1, AnswersStandInOrder
        <5>3. QED
          BY <1>2, <1>5, <4>3, <4>4, <5>2
      <4>5. QED
        BY <4>2, <4>3, <4>4
    <3>3. QED
      BY <3>1, <3>2
  <2>2. QED
    BY <1>6, <2>1 DEF BehindCalls
<1>8. ASSUME NEW i \in 1..(n + 1) PROVE IsAnswer(results', answers, i)
  <2>1. CASE i = n + 1
    <3>1. results'[i].outcome = outcome
      BY <1>3, <1>6, <2>1
    <3>2. CASE outcome \in {"yes", "no"}
      BY <2>1, <3>2
    <3>3. CASE ~(outcome \in {"yes", "no"})
      BY <3>1, <3>3 DEF IsAnswer
    <3>4. QED
      BY <3>2, <3>3
  <2>2. CASE i # n + 1
    <3>1. i \in 1..n /\ i \in Nat \ {0} /\ \A j \in 1..i : j \in 1..n
      BY <1>1, <2>2
    <3>2. IsAnswer(results, answers, i) /\ \A j \in 1..i : results'[j] = results[j]
      BY <1>6, <3>1 DEF CallInv
    <3>3. QED
      BY <1>2, <3>1, <3>2, AnswersStay
  <2>3. QED
    BY <2>1, <2>2
<1>9. Lockstep'
  <2>1. CASE outcome # "timeout"
    BY <2>1
  <2>2. CASE outcome = "timeout"
    <3>1. n + 1 \in 1..Len(results') /\ results'[n + 1].outcome = "timeout"
      BY <1>1, <1>3, <1>6, <2>2
    <3>2. QED
      BY <3>1 DEF Lockstep
  <2>3. QED
    BY <2>1, <2>2
<1>10. answers' = answers
  BY <1>4
<1>11. (\A i \in 1..Len(results) : IsAnswer(results, answers, i))'
  BY <1>6, <1>8, <1>10
<1>12. BehindCalls(results, answers, consumed)'
  BY <1>7, <1>10
<1>13. QED
  BY <1>5, <1>6, <1>9, <1>11, <1>12 DEF CallInv

(* Without a timeout a call reads the answer of its own number, whole.     *)
LEMMA InStep ==
  ASSUME CallInv, TurnInv, Incoming.kind # "incomplete",
         \A j \in 1..Len(results) : results[j].outcome # "timeout"
  PROVE  /\ Len(results) + 1 \in 1..Len(answers)
         /\ NextAnswer = Len(results) + 1 /\ Incoming.kind = "value"
         /\ consumed + (Len(responses) - Len(Incoming.rest)) = Begins((Len(results) + 1) + 1)
<1> DEFINE m == Len(results)
           n == Len(answers)
<1>1. /\ ReplyInv /\ responses \in Octets /\ consumed \in Nat /\ n \in Nat
      /\ Len(responses) \in Nat
  BY OctetsAre DEF CallInv, ReplyInv
<1>2. m \in Nat
  BY DEF TurnInv
<1>3. Len(responses) > 0
  <2>1. PICK k \in 1..Len(responses) : Incoming.rest = Rest(responses, k)
    BY <1>1, DecodingTakes DEF Incoming
  <2>2. QED
    BY <1>1, <2>1
<1>4. responses # <<>>
  BY <1>3
<1>5. m <= n /\ consumed = Begins(m + 1)
  BY <1>4 DEF CallInv, Lockstep
<1>6. m + 1 \in 1..n /\ answers[m + 1].begins = consumed
  <2> HIDE DEF m, n
  <2>1. CASE m + 1 <= n
    <3>1. m + 1 \in 1..n
      BY <1>1, <1>2, <2>1
    <3>2. QED
      BY <1>5, <2>1, <3>1 DEF Begins, Place, n
  <2>2. CASE ~(m + 1 <= n)
    <3>1. consumed = consumed + Len(responses)
      BY <1>5, <2>2 DEF Begins, Place, n
    <3>2. QED
      BY <1>1, <1>3, <3>1
  <2>3. QED
    BY <2>1, <2>2
<1> HIDE DEF m, n
<1>7. NextAnswer = m + 1
  BY <1>1, <1>6, NextAnswerIs DEF n
<1>8. /\ Incoming.kind = "value"
      /\ consumed + (Len(responses) - Len(Incoming.rest)) = Begins((m + 1) + 1)
  BY <1>1, <1>6, AnswersAreRead DEF n
<1>9. QED
  BY <1>6, <1>7, <1>8 DEF m, n

(* A decision is an answer: what DecisionsAreAnswers says of the new call. *)
LEMMA DecisionIsAnswer ==
  ASSUME CallInv, TurnInv, RequestInv, client = "waiting", Incoming.kind = "value",
         Incoming.value.code \in Decisions,
         NEW res \in Seq(Results), Len(res) = Len(results) + 1,
         \A j \in 1..Len(results) : res[j] = results[j],
         res[Len(results) + 1].from = NextAnswer
  PROVE  IsAnswer(res, answers, Len(results) + 1)
<1> DEFINE m == Len(results)
           n == Len(answers)
           f == NextAnswer
<1>1. ReplyInv /\ consumed \in Nat /\ n \in Nat
  BY DEF CallInv, ReplyInv
<1>2. m \in Nat /\ results \in Seq(Results)
  BY DEF TurnInv
<1>3. f \in 1..n /\ answers[f].begins = consumed /\ answers[f].to # 0
  BY <1>1, DecisionsAreRead
<1>4. answers[f].to = f /\ f <= m + 1
  <2>1. IsFor(answers, f, Len(executed), handler = "gone")
    BY <1>3 DEF TurnInv
  <2>2. answers[f].to = f /\ f <= Len(executed)
    BY <1>3, <2>1 DEF IsFor
  <2>3. Len(executed) <= Len(sent) /\ Len(executed) \in Nat /\ Len(sent) \in Nat
    BY DEF RequestInv
  <2>4. Len(sent) = m + 1
    BY DEF TurnInv
  <2> HIDE DEF f, m
  <2>5. QED
    BY <1>2, <1>3, <2>2, <2>3, <2>4
<1> HIDE DEF f
<1>5. ASSUME NEW j \in 1..m PROVE res[j] = results[j] /\ res[j].from < f
  <2>1. /\ results[j].from \in 0..n
        /\ results[j].from > 0 => answers[results[j].from].begins < consumed
    BY DEF CallInv, BehindCalls
  <2> DEFINE g == results[j].from
  <2>2. g \in 0..n /\ (g > 0 => answers[g].begins < consumed)
    BY <2>1
  <2>3. res[j].from = g
    OBVIOUS
  <2> HIDE DEF g, n
  <2>4. CASE g = 0
    BY <1>1, <1>3, <2>3, <2>4
  <2>5. CASE g # 0
    <3>1. g \in 1..n /\ answers[g].begins < answers[f].begins
      BY <1>1, <1>3, <2>2, <2>5
    <3>2. /\ answers[f].begins \in Nat
          /\ \A i \in (f + 1)..n : answers[f].begins < answers[i].begins
      BY <1>1, <1>3, AnswersStandInOrder DEF n
    <3>3. answers[g].begins \in Nat
      BY <1>1, <3>1, AnswersStandInOrder DEF n
    <3>4. g \notin (f + 1)..n /\ g # f
      BY <3>1, <3>2, <3>3
    <3>5. g < f
      BY <1>1, <1>3, <3>1, <3>4
    <3>6. QED
      BY <2>3, <3>5
  <2>6. QED
    BY <2>4, <2>5
<1>6. ASSUME NEW j \in 1..m PROVE res[j] \in Results /\ IsAnswer(res, answers, j)
  <2>1. IsAnswer(results, answers, j) /\ j \in Nat \ {0}
    BY <1>2 DEF CallInv
  <2>2. \A i \in 1..j : i \in 1..m
    BY <1>2
  <2>3. res[j] \in Results
    BY <1>2
  <2>4. \A i \in 1..j : res[i] = results[i]
    BY <1>5, <2>2
  <2>5. QED
    BY <1>1, <2>1, <2>3, <2>4, AnswersStay
<1> DEFINE c == Cardinality(CallsOf(res, {"timeout", "error"}, m + 1))
<1>7. c \in Nat /\ (m + 1) - c <= f
  <2>1. f \in Nat \ {0} /\ Len(answers) \in Nat
    BY <1>1, <1>3
  <2>2. \A j \in 1..m : res[j] \in Results /\ IsAnswer(res, answers, j) /\ res[j].from < f
    BY <1>5, <1>6
  <2> HIDE DEF m
  <2>3. QED
    BY <1>2, <2>1, <2>2, DecidedCallsAreFew
<1>8. answers[f].to \in ((m + 1) - c)..(m + 1)
  <2> HIDE DEF m, n, c
  <2>1. QED
    BY <1>2, <1>3, <1>4, <1>7
<1>9. ASSUME CallsOf(res, {"timeout"}, m + 1) = {} PROVE answers[f].to = m + 1
  <2>1. ASSUME NEW j \in 1..m PROVE results[j].outcome # "timeout"
    <3>1. j \in 1..((m + 1) - 1)
      BY <1>2
    <3>2. res[j].outcome # "timeout"
      BY <1>9, <3>1 DEF CallsOf
    <3>3. QED
      BY <1>5, <3>2
  <2>2. Incoming.kind # "incomplete"
    OBVIOUS
  <2>3. NextAnswer = m + 1
    BY <2>1, <2>2, InStep
  <2>4. QED
    BY <1>4, <2>3 DEF f
<1> HIDE DEF c
<1>10. \A j \in 1..((m + 1) - 1) : res[j].from < f
  <2>1. (m + 1) - 1 = m
    BY <1>2
  <2>2. QED
    BY <1>5, <2>1
<1>11. res[m + 1].from = f
  BY DEF f
<1> HIDE DEF m
<1>12. QED
  BY <1>3, <1>8, <1>9, <1>10, <1>11 DEF IsAnswer, c, m

LEMMA CallInvRead ==
  ASSUME CallInv, TurnInv, RequestInv, ReadEnds
  PROVE  CallInv' /\ results' \in Seq(Results) /\ Len(results') = Len(results) + 1
<1>1. /\ ReplyInv /\ responses \in Octets /\ consumed \in Nat /\ Len(responses) \in Nat
      /\ Len(answers) \in Nat
  <2>1. ReplyInv
    BY DEF CallInv
  <2>2. responses \in Octets /\ consumed \in Nat /\ Len(answers) \in Nat
    BY <2>1 DEF ReplyInv
  <2>3. Len(responses) \in Nat
    BY <2>2, OctetsAre
  <2>4. QED
    BY <2>1, <2>2, <2>3
<1>2. results \in Seq(Results) /\ Len(results) \in Nat
  BY DEF TurnInv
<1>3. CASE Timeout
  <2>1. PICK n \in 0..Len(responses) : Return("timeout", 0, Rest(responses, n))
    BY <1>3 DEF Timeout, Rest
  <2>2. QED
    BY <1>1, <2>1, CallInvReturned
<1>4. CASE Disconnected
  <2>1. Rest(responses, Len(responses)) = <<>>
    <3>1. Rest(responses, Len(responses)) \in Octets /\ Len(Rest(responses, Len(responses))) = 0
      BY <1>1, RestIs
    <3>2. QED
      BY <3>1 DEF Octets
  <2>2. Return("error", 0, Rest(responses, Len(responses)))
    BY <1>4, <2>1 DEF Disconnected
  <2>3. Lockstep'
    <3>1. handler' = "gone" /\ responses' = <<>>
      BY <1>4 DEF Disconnected, Return, handlerVars
    <3>2. QED
      BY <3>1 DEF Lockstep
  <2>4. QED
    BY <1>1, <2>2, <2>3, CallInvReturned
<1>5. CASE ReadInvalid
  <2>1. client = "waiting" /\ Incoming.kind = "invalid" /\ Return("error", 0, Incoming.rest)
    BY <1>5 DEF ReadInvalid
  <2>2. PICK k \in 1..Len(responses) : Incoming.rest = Rest(responses, k)
    BY <1>1, <2>1, DecodingTakes DEF Incoming
  <2>3. Lockstep'
    <3>1. PICK j \in 1..Len(results) : results[j].outcome = "timeout"
      BY <2>1, InStep
    <3>2. results' = Append(results, [outcome |-> "error", from |-> 0])
      BY <2>1 DEF Return
    <3>3. [outcome |-> "error", from |-> 0] \in Results
      BY DEF Results
    <3>4. j \in 1..Len(results') /\ results'[j] = results[j]
      BY <1>2, <3>2, <3>3, AppendProperties
    <3>5. QED
      BY <3>1, <3>4 DEF Lockstep
  <2>4. k \in 0..Len(responses)
    BY <1>1
  <2>5. QED
    BY <1>1, <2>1, <2>2, <2>3, <2>4, CallInvReturned
<1>6. CASE ReadResponse
  <2> DEFINE o == Outcome(sent[Len(sent)], Incoming.value)
             f == NextAnswer
             x == [outcome |-> o, from |-> f]
  <2>1. client = "waiting" /\ Incoming.kind = "value" /\ Return(o, f, Incoming.rest)
    BY <1>6 DEF ReadResponse
  <2>2. PICK k \in 1..Len(responses) : Incoming.rest = Rest(responses, k)
    BY <1>1, <2>1, DecodingTakes DEF Incoming
  <2>3. o \in {"yes", "no", "error"} /\ (o \in {"yes", "no"} => Incoming.value.code \in Decisions)
    BY OutcomeIs
  <2>4. f \in 0..Len(answers) /\ (f > 0 => answers[f].begins = consumed)
    BY <1>1, NextAnswerType
  <2>5. results' = Append(results, x)
    BY <2>1 DEF Return
  <2> HIDE DEF o, f
  <2>6. x \in Results /\ x.outcome = o /\ x.from = f
    BY <1>1, <2>3, <2>4 DEF Results
  <2> HIDE DEF x
  <2>7. /\ results' \in Seq(Results) /\ Len(results') = Len(results) + 1
        /\ results'[Len(results) + 1] = x
        /\ \A j \in 1..Len(results) : results'[j] = results[j]
    BY <1>2, <2>5, <2>6, AppendProperties
  <2>8. o \in {"yes", "no"} => IsAnswer(results', answers, Len(results) + 1)
    <3>1. results'[Len(results) + 1].from = NextAnswer
      BY <2>6, <2>7 DEF f
    <3>2. QED
      BY <2>1, <2>3, <2>7, <3>1, DecisionIsAnswer
  <2>9. Lockstep'
    <3>1. SUFFICES ASSUME \A j \in 1..Len(results') : results'[j].outcome # "timeout"
                   PROVE  /\ Len(results') <= Len(answers')
                          /\ consumed' = Place(answers', consumed' + Len(responses'), Len(results') + 1)
      BY DEF Lockstep, Begins
    <3>2. ASSUME NEW j \in 1..Len(results) PROVE results[j].outcome # "timeout"
      <4>1. j \in 1..Len(results')
        BY <1>2, <2>7
      <4>2. results'[j] = results[j]
        BY <2>7
      <4>3. QED
        BY <3>1, <4>1, <4>2
    <3>3. /\ Len(results) + 1 \in 1..Len(answers)
          /\ consumed + (Len(responses) - Len(Incoming.rest)) = Begins((Len(results) + 1) + 1)
      BY <2>1, <3>2, InStep
    <3>4. /\ answers' = answers /\ responses' = Incoming.rest
          /\ consumed' = consumed + (Len(responses) - Len(responses'))
      BY <2>1 DEF Return, handlerVars
    <3>5. consumed' + Len(responses') = consumed + Len(responses)
      <4>1. k \in 0..Len(responses)
        BY <1>1
      <4>2. QED
        BY <1>1, <2>2, <3>4, <4>1, ReplyInvRead
    <3>6. consumed' = Begins((Len(results) + 1) + 1)
      BY <3>3, <3>4
    <3>7. Place(answers', consumed' + Len(responses'), Len(results') + 1) = Begins((Len(results) + 1) + 1)
      BY <2>7, <3>4, <3>5 DEF Begins
    <3>8. Len(results') <= Len(answers')
      <4>1. Len(results') = Len(results) + 1 /\ Len(answers') = Len(answers)
        BY <2>7, <3>4
      <4>2. Len(results) + 1 <= Len(answers)
        BY <1>1, <1>2, <3>3
      <4>3. QED
        BY <4>1, <4>2
    <3>9. QED
      BY <3>6, <3>7, <3>8
  <2>10. k \in 0..Len(responses) /\ k > 0 /\ o \in {"yes", "no", "error", "timeout"}
    BY <1>1, <2>3
  <2>11. Return(o, f, Rest(responses, k))
    BY <2>1, <2>2
  <2>12. QED
    BY <2>4, <2>8, <2>9, <2>10, <2>11, CallInvReturned
<1>7. QED
  BY <1>3, <1>4, <1>5, <1>6 DEF ReadEnds

(* TurnInv, action by action.                                              *)
LEMMA TurnInvOfClient ==
  ASSUME TurnInv, RequestInv,
         NewClient \/ DialFails \/ SendMessage \/ CloseClient \/ DieSending \/ Die
  PROVE  TurnInv'
<1>1. UNCHANGED <<results, executed, answers, pending>>
  BY DEF NewClient, DialFails, SendMessage, CloseClient, DieSending, Die, Leave, callVars, handlerVars
<1>2. (handler = "gone" => handler' = "gone") /\ client' # "new"
  BY DEF TurnInv, NewClient, DialFails, SendMessage, CloseClient, DieSending, Die, Leave, callVars, handlerVars
<1>3. \A i \in 1..Len(answers) : IsFor(answers, i, Len(executed), handler' = "gone")
  BY <1>2 DEF TurnInv, IsFor
<1>4. (\A i \in 1..Len(answers) : IsFor(answers, i, Len(executed), handler = "gone"))'
  BY <1>1, <1>3
<1>5. pending' \in Replies /\ results' \in Seq(Results)
  BY <1>1 DEF TurnInv
<1>6. /\ client' \in {"idle", "waiting", "closed"}
      /\ handler' \in {"none", "reading", "responding", "gone"}
      /\ client' = "idle" => Len(sent') = Len(results')
      /\ client' = "waiting" => Len(sent') = Len(results') + 1
      /\ handler' = "reading" => Len(executed) = Len(answers)
      /\ handler' = "responding" => Len(executed) = Len(answers) + 1
  <2>1. CASE NewClient
    BY <1>1, <2>1 DEF TurnInv, NewClient, callVars
  <2>2. CASE DialFails
    BY <1>1, <2>2 DEF TurnInv, DialFails, callVars
  <2>3. CASE SendMessage
    <3>1. PICK m \in Requests : sent' = Append(sent, m)
      BY <2>3 DEF SendMessage
    <3>2. m \in Messages /\ sent \in Seq(Messages)
      BY RequestsAreMessages DEF RequestInv
    <3>3. Len(sent') = Len(sent) + 1
      BY <3>1, <3>2, AppendProperties
    <3>4. client = "idle" /\ client' = "waiting" /\ handler' = handler
      BY <2>3 DEF SendMessage, handlerVars
    <3>5. QED
      BY <1>1, <3>3, <3>4 DEF TurnInv
  <2>4. CASE CloseClient \/ DieSending
    <3>1. client' = "closed" /\ handler' = handler
      BY <2>4 DEF CloseClient, DieSending, Leave, handlerVars
    <3>2. QED
      BY <3>1 DEF TurnInv
  <2>5. CASE Die
    BY <1>1, <2>5 DEF TurnInv, Die, handlerVars
  <2>6. QED
    BY <2>1, <2>2, <2>3, <2>4, <2>5
<1>7. /\ handler' = "reading" => Len(executed') = Len(answers')
      /\ handler' = "responding" => Len(executed') = Len(answers') + 1
  BY <1>1, <1>6
<1>8. QED
  BY <1>4, <1>5, <1>6, <1>7 DEF TurnInv

\* What a handler leaves as it was.
LEMMA TurnInvOfHandler ==
  ASSUME TurnInv, UNCHANGED <<client, sent, results>>, client # "new", pending' \in Replies,
         handler' \in {"reading", "responding", "gone"},
         handler' = "reading" => Len(executed') = Len(answers'),
         handler' = "responding" => Len(executed') = Len(answers') + 1,
         \A i \in 1..Len(answers') : IsFor(answers', i, Len(executed'), handler' = "gone")
  PROVE  TurnInv'
<1>1. /\ client' = client /\ sent' = sent /\ results' = results
  OBVIOUS
<1>2. /\ client' \in {"idle", "waiting", "closed"} /\ results' \in Seq(Results)
      /\ client' = "idle" => Len(sent') = Len(results')
      /\ client' = "waiting" => Len(sent') = Len(results') + 1
  BY <1>1 DEF TurnInv
<1>3. (\A i \in 1..Len(answers) : IsFor(answers, i, Len(executed), handler = "gone"))'
  OBVIOUS
<1>4. QED
  BY <1>2, <1>3 DEF TurnInv

LEMMA HandlerSteps ==
  ASSUME TurnInv, RequestInv, CallInv, HandlerStep
  PROVE  TurnInv' /\ CallInv'
<1>1. /\ UNCHANGED <<client, sent, results, consumed>> /\ client # "new" /\ handler # "gone"
  BY DEF TurnInv, HandlerStep, ReadFails, RespondFails, Respond, Receive, callVars
<1>2. /\ Len(answers) \in Nat /\ Len(executed) \in Nat /\ executed \in Seq(Messages)
      /\ pending \in Replies /\ ReplyInv
  BY DEF TurnInv, RequestInv, CallInv, ReplyInv
<1>3. \A i \in 1..Len(answers) :
        answers[i].to = i /\ i <= Len(executed) /\ IsFor(answers, i, Len(executed), FALSE)
  BY <1>1 DEF TurnInv, IsFor
<1>4. CASE Receive
  <2>1. /\ executed' = Append(executed, Request.value) /\ UNCHANGED <<answers, responses>>
        /\ pending' \in Responses[Request.value] /\ handler = "reading" /\ handler' = "responding"
        /\ Request.kind = "value"
    BY <1>4 DEF Receive
  <2>2. Request.value \in Messages
    BY <2>1, HandlerReads
  <2>3. Len(executed') = Len(executed) + 1
    BY <1>2, <2>1, <2>2, AppendProperties
  <2>4. pending' \in Replies
    BY <2>1, <2>2, ResponsesAreReplies
  <2>5. Len(executed') = Len(answers') + 1
    BY <2>1, <2>3 DEF TurnInv
  <2>6. \A i \in 1..Len(answers') : IsFor(answers', i, Len(executed'), handler' = "gone")
    <3>1. answers' = answers
      BY <2>1
    <3>2. ASSUME NEW i \in 1..Len(answers) PROVE i <= Len(executed')
      <4> DEFINE e == Len(executed)
      <4>1. e \in Nat /\ i \in Int /\ i <= e /\ Len(executed') = e + 1
        <5>1. e \in Nat /\ i \in Int
          BY <1>2
        <5>2. i <= e
          BY <1>3
        <5>3. QED
          BY <2>3, <5>1, <5>2
      <4> HIDE DEF e
      <4>2. i <= e + 1
        BY <4>1
      <4>3. QED
        BY <4>1, <4>2
    <3>3. QED
      BY <1>3, <3>1, <3>2 DEF IsFor
  <2>7. TurnInv'
    BY <1>1, <2>1, <2>4, <2>5, <2>6, TurnInvOfHandler
  <2>8. CallInv'
    BY <1>1, <2>1, CallInvStays
  <2>9. QED
    BY <2>7, <2>8
<1>5. CASE RespondFails \/ (ReadFails /\ UNCHANGED <<answers, responses>>)
  <2>1. /\ UNCHANGED <<executed, pending, answers, responses>> /\ handler' = "gone"
    BY <1>5 DEF RespondFails, ReadFails
  <2>2. \A i \in 1..Len(answers') : IsFor(answers', i, Len(executed'), handler' = "gone")
    BY <1>3, <2>1 DEF IsFor
  <2>3. pending' \in Replies
    BY <1>2, <2>1
  <2>4. TurnInv'
    BY <1>1, <2>1, <2>2, <2>3, TurnInvOfHandler
  <2>5. CallInv'
    BY <1>1, <2>1, CallInvStays
  <2>6. QED
    BY <2>4, <2>5
<1>6. CASE Respond
  <2>1. /\ Say(pending, Len(executed)) /\ UNCHANGED <<executed, pending>>
        /\ handler = "responding" /\ handler' \in {"reading", "gone"}
    BY <1>6 DEF Respond
  <2>2. Len(executed) = Len(answers) + 1
    BY <2>1 DEF TurnInv
  <2>3. /\ Len(answers') = Len(answers) + 1
        /\ answers'[Len(answers) + 1] = [to |-> Len(executed), begins |-> consumed + Len(responses)]
        /\ \A i \in 1..Len(answers) : answers'[i] = answers[i]
    BY <1>1, <1>2, <2>1, <2>2, ReplyInvSaid
  <2>4. \A i \in 1..Len(answers') : IsFor(answers', i, Len(executed'), handler' = "gone")
    <3>1. ASSUME NEW i \in 1..(Len(answers) + 1)
          PROVE  answers'[i].to = i /\ i <= Len(executed)
      <4>1. CASE i = Len(answers) + 1
        BY <1>2, <2>2, <2>3, <4>1
      <4>2. CASE i # Len(answers) + 1
        <5>1. i \in 1..Len(answers)
          BY <1>2, <4>2
        <5>2. QED
          BY <1>3, <2>3, <5>1
      <4>3. QED
        BY <4>1, <4>2
    <3>2. executed' = executed
      BY <2>1
    <3>3. QED
      BY <2>3, <3>1, <3>2 DEF IsFor
  <2>5. Len(executed') = Len(answers')
    BY <2>1, <2>2, <2>3
  <2>6. pending' \in Replies
    BY <1>2, <2>1
  <2>7. TurnInv'
    BY <1>1, <2>1, <2>4, <2>5, <2>6, TurnInvOfHandler
  <2>8. CallInv'
    BY <1>1, <1>2, <2>1, <2>2, CallInvSaid
  <2>9. QED
    BY <2>7, <2>8
<1>7. CASE ReadFails /\ Say(Failed, 0)
  <2>1. /\ Say(Failed, 0) /\ UNCHANGED <<executed, pending>> /\ handler' = "gone"
    BY <1>7 DEF ReadFails
  <2>2. Failed \in Replies
    BY DEF Replies
  <2>3. /\ Len(answers') = Len(answers) + 1
        /\ answers'[Len(answers) + 1] = [to |-> 0, begins |-> consumed + Len(responses)]
        /\ \A i \in 1..Len(answers) : answers'[i] = answers[i]
    BY <1>1, <1>2, <2>1, <2>2, ReplyInvSaid
  <2>4. \A i \in 1..Len(answers') : IsFor(answers', i, Len(executed'), handler' = "gone")
    <3>1. executed' = executed
      BY <2>1
    <3>2. ASSUME NEW i \in 1..(Len(answers) + 1)
          PROVE  /\ answers'[i].to <= Len(executed)
                 /\ answers'[i].to = i \/ (answers'[i].to = 0 /\ i = Len(answers'))
      <4>1. CASE i = Len(answers) + 1
        BY <1>2, <2>3, <4>1
      <4>2. CASE i # Len(answers) + 1
        <5>1. i \in 1..Len(answers)
          BY <1>2, <4>2
        <5>2. QED
          BY <1>3, <2>3, <5>1
      <4>3. QED
        BY <4>1, <4>2
    <3>3. QED
      BY <2>1, <2>3, <3>1, <3>2 DEF IsFor
  <2>5. pending' \in Replies
    BY <1>2, <2>1
  <2>6. TurnInv'
    BY <1>1, <2>1, <2>4, <2>5, TurnInvOfHandler
  <2>7. CallInv'
    BY <1>1, <2>1, <2>2, CallInvSaid
  <2>8. QED
    BY <2>6, <2>7
<1>8. QED
  BY <1>4, <1>5, <1>6, <1>7 DEF HandlerStep, ReadFails

SessionInv == RequestInv /\ TurnInv /\ CallInv

LEMMA SessionInvHolds == Spec => []SessionInv
<1>1. Init => TurnInv /\ CallInv
  <2>1. SUFFICES ASSUME Init PROVE TurnInv /\ CallInv
    OBVIOUS
  <2>2. /\ client = "new" /\ handler = "none" /\ sent = <<>> /\ responses = <<>> /\ consumed = 0
        /\ results = <<>> /\ executed = <<>> /\ pending = Bye /\ answers = <<>>
    BY <2>1 DEF Init
  <2>3. Len(<<>>) = 0 /\ 1..0 = {} /\ <<>> \in Octets
    BY NoOctets
  <2>4. TurnInv
    BY <2>2, <2>3 DEF TurnInv, Replies
  <2>5. ReplyInv
    <3> DEFINE b == [i \in 1..(0 + 1) |-> 0]
               r == [i \in 1..0 |-> Bye]
    <3>1. /\ b \in [1..(0 + 1) -> Nat] /\ r \in [1..0 -> Replies] /\ b[1] = 0 /\ b[0 + 1] = 0
      BY DEF Replies
    <3> HIDE DEF b, r
    <3>2. Written(<<>>, b, r, 0)
      BY <2>3, <3>1 DEF Written
    <3>3. Rest(<<>>, 0) = <<>>
      <4>1. 0 \in 0..Len(<<>>)
        BY <2>3
      <4>2. Rest(<<>>, 0) \in Octets /\ Len(Rest(<<>>, 0)) = 0
        BY <2>3, <4>1, RestIs
      <4>3. QED
        BY <4>2 DEF Octets
    <3>4. Stands(<<>>, b, r, 0, <<>>, <<>>, 0)
      BY <2>3, <3>2, <3>3 DEF Stands
    <3>5. \E w \in Octets : \E f \in [1..(Len(answers) + 1) -> Nat] :
            \E g \in [1..Len(answers) -> Replies] :
              Stands(w, f, g, Len(answers), answers, responses, consumed)
      BY <2>2, <2>3, <3>1, <3>4
    <3>6. answers \in Seq([to : Nat, begins : Nat])
      BY <2>2
    <3>7. responses \in Octets /\ consumed \in Nat
      BY <2>2, <2>3
    <3>8. QED
      BY <3>5, <3>6, <3>7 DEF ReplyInv
  <2>6. BehindCalls(results, answers, consumed) /\ \A i \in 1..Len(results) : IsAnswer(results, answers, i)
    BY <2>2, <2>3 DEF BehindCalls
  <2>7. Lockstep
    <3>1. Len(results) = 0 /\ Len(answers) = 0 /\ Len(responses) = 0 /\ consumed = 0
      BY <2>2, <2>3
    <3>2. ~(0 + 1 <= 0)
      OBVIOUS
    <3>3. Begins(0 + 1) = 0
      BY <3>1, <3>2 DEF Begins, Place
    <3>4. QED
      BY <3>1, <3>3 DEF Lockstep
  <2>8. QED
    BY <2>4, <2>5, <2>6, <2>7 DEF CallInv
<1>2. ASSUME RequestInv, TurnInv, CallInv, [Next]_vars PROVE TurnInv' /\ CallInv'
  <2>1. CASE UNCHANGED vars
    <3>1. UNCHANGED <<client, sent, executed, pending, handler, results, answers, responses, consumed>>
      BY <2>1 DEF vars, callVars, handlerVars
    <3>2. TurnInv'
      BY <1>2, <3>1 DEF TurnInv
    <3>3. CallInv'
      BY <1>2, <3>1, CallInvStays
    <3>4. QED
      BY <3>2, <3>3
  <2>2. CASE NewClient \/ DialFails \/ SendMessage \/ CloseClient \/ DieSending \/ Die
    <3>1. TurnInv'
      BY <1>2, <2>2, TurnInvOfClient
    <3>2. /\ UNCHANGED <<results, answers, responses, consumed>>
          /\ handler = "gone" => handler' = "gone"
      BY <1>2, <2>2 DEF TurnInv, NewClient, DialFails, SendMessage, CloseClient, DieSending, Die,
                        Leave, callVars, handlerVars
    <3>3. CallInv'
      BY <1>2, <3>2, CallInvStays
    <3>4. QED
      BY <3>1, <3>3
  <2>3. CASE ReadEnds
    <3>1. CallInv' /\ results' \in Seq(Results) /\ Len(results') = Len(results) + 1
      BY <1>2, <2>3, CallInvRead
    <3>2. /\ UNCHANGED <<sent, executed, pending, handler, answers>>
          /\ client = "waiting" /\ client' = "idle"
      BY <2>3 DEF ReadEnds, Timeout, Disconnected, ReadResponse, ReadInvalid, Return, callVars, handlerVars
    <3>3. TurnInv'
      BY <1>2, <3>1, <3>2 DEF TurnInv
    <3>4. QED
      BY <3>1, <3>3
  <2>4. CASE HandlerStep
    BY <1>2, <2>4, HandlerSteps
  <2>5. QED
    BY <1>2, <2>1, <2>2, <2>3, <2>4 DEF Next
<1>3. QED
  BY <1>1, <1>2, RequestInvHolds, PTL DEF Spec, SessionInv

(* Yes or no is an answer that the handler has written, read from its      *)
(* first octet to its last; to the very call without a timeout before it,  *)
(* and else to it or to an earlier one, further back by no more calls than *)
(* were not decided.  Neither the number of the calls nor where a deadline *)
(* cuts a response matters.                                                *)
THEOREM DecisionsAreAnswersHolds == Spec => []DecisionsAreAnswers
<1>1. SessionInv => DecisionsAreAnswers
  <2>1. SUFFICES ASSUME SessionInv PROVE DecisionsAreAnswers
    OBVIOUS
  <2>2. results \in Seq(Results)
    BY <2>1 DEF SessionInv, TurnInv
  <2>3. ReplyInv /\ \A i \in 1..Len(results) : IsAnswer(results, answers, i)
    BY <2>1 DEF SessionInv, CallInv
  <2>4. answers \in Seq(Answers)
    BY <2>3 DEF ReplyInv, Answers
  <2>5. QED
    BY <2>2, <2>3, <2>4, DecisionsByCall
<1>2. QED
  BY <1>1, SessionInvHolds, PTL
=============================================================================

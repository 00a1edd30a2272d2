--------------------------- MODULE RuleFileProofs ---------------------------
(***************************************************************************)
(* The parser of S-expressions ends and reads what is printed as what was  *)
(* printed, and nothing that is cut off; what a broken off save leaves in  *)
(* a rule file is therefore never taken for other rules.                   *)
(***************************************************************************)
EXTENDS RuleFiles, WireProofs

\* What a function has for x follows from what it has for those smaller than x.
Descends(D, S, M, Value) ==
  /\ M \in [D -> Nat]
  /\ Value \in [D \X [D -> S] -> S]
  /\ \A x \in D, f, g \in [D -> S] :
       (\A y \in D : M[y] < M[x] => f[y] = g[y]) => Value[<<x, f>>] = Value[<<x, g>>]

Obeys(F, D, S, Value) == F \in [D -> S] /\ \A x \in D : F[x] = Value[<<x, F>>]

(* There is such a function.                                               *)
LEMMA RecursionExists ==
  ASSUME NEW D, NEW S, NEW start \in S, NEW M, NEW Value, Descends(D, S, M, Value)
  PROVE  \E F : Obeys(F, D, S, Value)
<1>0. /\ M \in [D -> Nat]
      /\ Value \in [D \X [D -> S] -> S]
      /\ \A x \in D, f, g \in [D -> S] :
           (\A y \in D : M[y] < M[x] => f[y] = g[y]) => Value[<<x, f>>] = Value[<<x, g>>]
  BY DEF Descends
<1> DEFINE Right(f, k) == \A x \in D : M[x] < k => f[x] = Value[<<x, f>>]
           T == {k \in Nat : \E f \in [D -> S] : Right(f, k)}
<1>1. 0 \in T
  <2>1. [x \in D |-> start] \in [D -> S]
    OBVIOUS
  <2>2. \A x \in D : ~(M[x] < 0)
    BY <1>0
  <2>3. QED
    BY <2>1, <2>2
<1>2. ASSUME NEW k \in Nat, k \in T PROVE k + 1 \in T
  <2>1. PICK f \in [D -> S] : Right(f, k)
    BY <1>2
  <2> DEFINE g == [x \in D |-> Value[<<x, f>>]]
  <2>2. g \in [D -> S]
    BY <1>0
  <2>3. ASSUME NEW y \in D, M[y] < k PROVE g[y] = f[y]
    BY <2>1, <2>3
  <2>4. ASSUME NEW x \in D, M[x] < k + 1 PROVE g[x] = Value[<<x, g>>]
    <3>1. g[x] = Value[<<x, f>>]
      OBVIOUS
    <3>2. ASSUME NEW y \in D, M[y] < M[x] PROVE f[y] = g[y]
      <4>1. M[y] \in Nat /\ M[x] \in Nat
        BY <1>0
      <4>2. M[y] < k
        BY <2>4, <3>2, <4>1
      <4>3. QED
        BY <2>3, <4>2
    <3> HIDE DEF g
    <3>3. Value[<<x, f>>] = Value[<<x, g>>]
      BY <1>0, <2>1, <2>2, <3>2
    <3>4. QED
      BY <3>1, <3>3
  <2> HIDE DEF g
  <2>5. Right(g, k + 1)
    BY <2>4
  <2> HIDE DEF Right
  <2>6. QED
    BY <2>2, <2>5
<1>3. ASSUME NEW k \in Nat PROVE \E f \in [D -> S] : Right(f, k)
  <2> HIDE DEF T
  <2>1. \A j \in 0..k : j \in T
    <3>1. \A j \in 0..(k - 1) : j \in T => j + 1 \in T
      BY <1>2
    <3>2. QED
      BY <1>1, <3>1, Steps
  <2>2. k \in T
    BY <2>1
  <2> HIDE DEF Right
  <2>3. QED
    BY <2>2 DEF T
<1>4. ASSUME NEW k \in Nat, NEW m \in Nat, NEW f \in [D -> S], NEW g \in [D -> S],
             Right(f, k), Right(g, m), NEW x \in D, M[x] < k, M[x] < m
      PROVE  f[x] = g[x]
  <2> DEFINE U == {n \in Nat : \A y \in D : M[y] = n /\ n < k /\ n < m => f[y] = g[y]}
  <2>1. ASSUME NEW n \in Nat, \A j \in 0..(n - 1) : j \in U PROVE n \in U
    <3>1. SUFFICES ASSUME NEW y \in D, M[y] = n, n < k, n < m PROVE f[y] = g[y]
      OBVIOUS
    <3>2. ASSUME NEW z \in D, M[z] < M[y] PROVE f[z] = g[z]
      <4>1. M[z] \in 0..(n - 1) /\ M[z] < k /\ M[z] < m
        BY <1>0, <3>1, <3>2
      <4>2. M[z] \in U
        BY <2>1, <4>1
      <4>3. QED
        BY <4>1, <4>2
    <3>3. Value[<<y, f>>] = Value[<<y, g>>]
      BY <1>0, <3>2
    <3>4. f[y] = Value[<<y, f>>] /\ g[y] = Value[<<y, g>>]
      BY <1>4, <3>1
    <3>5. QED
      BY <3>3, <3>4
  <2>2. \A n \in Nat : n \in U
    <3> HIDE DEF U
    <3>1. QED
      BY <2>1, Strong
  <2>3. M[x] \in Nat /\ M[x] \in U
    BY <1>0, <2>2
  <2>4. QED
    BY <1>4, <2>3
<1> DEFINE Upto(k) == CHOOSE f \in [D -> S] : Right(f, k)
           F == [x \in D |-> Upto(M[x] + 1)[x]]
<1>5. ASSUME NEW k \in Nat PROVE Upto(k) \in [D -> S] /\ Right(Upto(k), k)
  <2> HIDE DEF Right
  <2>1. QED
    BY <1>3
<1>6. F \in [D -> S]
  <2>1. ASSUME NEW x \in D PROVE Upto(M[x] + 1)[x] \in S
    <3> DEFINE k == M[x] + 1
    <3>1. k \in Nat
      BY <1>0
    <3> HIDE DEF k
    <3>2. Upto(k) \in [D -> S]
      BY <1>5, <3>1
    <3> HIDE DEF Upto
    <3>3. Upto(k)[x] \in S
      BY <3>2
    <3>4. QED
      BY <3>3 DEF k
  <2> HIDE DEF Upto
  <2>2. QED
    BY <2>1
<1>7. ASSUME NEW x \in D PROVE F[x] = Value[<<x, F>>]
  <2> DEFINE k == M[x] + 1
             f == Upto(k)
  <2>1. k \in Nat /\ M[x] \in Nat /\ M[x] < k
    BY <1>0
  <2>2. f \in [D -> S] /\ Right(f, k)
    BY <1>5, <2>1
  <2>3. F[x] = f[x] /\ f[x] = Value[<<x, f>>]
    <3>1. F[x] = f[x]
      OBVIOUS
    <3> HIDE DEF f, k, F
    <3>2. QED
      BY <2>1, <2>2, <3>1
  <2>4. ASSUME NEW y \in D, M[y] < M[x] PROVE f[y] = F[y]
    <3> DEFINE m == M[y] + 1
               g == Upto(m)
    <3>1. m \in Nat /\ M[y] < m /\ M[y] < k
      BY <1>0, <2>4
    <3>2. g \in [D -> S] /\ Right(g, m)
      BY <1>5, <3>1
    <3>3. F[y] = g[y]
      OBVIOUS
    <3> HIDE DEF f, g, k, m, F, Right
    <3>4. f[y] = g[y]
      BY <1>4, <2>1, <2>2, <3>1, <3>2
    <3>5. QED
      BY <3>3, <3>4
  <2> HIDE DEF f, F
  <2>5. Value[<<x, f>>] = Value[<<x, F>>]
    BY <1>0, <1>6, <2>2, <2>4
  <2>6. QED
    BY <2>3, <2>5
<1>8. QED
  <2> HIDE DEF F
  <2>1. Obeys(F, D, S, Value)
    BY <1>6, <1>7 DEF Obeys
  <2>2. QED
    BY <2>1

-----------------------------------------------------------------------------
(***************************************************************************)
(* What is printed.                                                        *)
(***************************************************************************)
PartStrings(f, e) == [i \in DOMAIN Parts(e) |-> f[Parts(e)[i]]]

(* An element is of one of the kinds.                                      *)
LEMMA KindsOfElements ==
  ASSUME NEW e \in Elements
  PROVE  /\ SizeOf(e) \in Nat
         /\ \/ e.kind = "atom" /\ e = Atom(e.value) /\ e.value \in Octets
            \/ /\ e.kind = "list" /\ e = List(e.tag, e.elems)
               /\ e.tag \in Octets /\ e.elems \in Seq(Elements)
            \/ e.kind = "set" /\ e = SetOf(e.elems) /\ e.elems \in Seq(Elements)
            \/ e.kind = "wildcard"
<1>1. Wildcard.kind = "wildcard"
  BY DEF Wildcard
<1>2. e = Wildcard => e.kind = "wildcard"
  BY <1>1, Zenon
<1>3. QED
  BY <1>2, ElementsAreBuilt

(* The parts of an element are elements, smaller than it.                  *)
LEMMA PartsAreElements ==
  ASSUME NEW e \in Elements
  PROVE  /\ Parts(e) \in Seq(Elements) /\ Len(Parts(e)) \in Nat
         /\ DOMAIN Parts(e) = 1..Len(Parts(e))
         /\ \A i \in 1..Len(Parts(e)) :
              Parts(e)[i] \in Elements /\ SizeOf(Parts(e)[i]) \in Nat /\ SizeOf(Parts(e)[i]) < SizeOf(e)
<1> DEFINE p == Parts(e)
<1>1. p \in Seq(Elements)
  <2>1. HasParts(e) => e.elems \in Seq(Elements)
    BY KindsOfElements DEF HasParts
  <2>2. <<>> \in Seq(Elements)
    OBVIOUS
  <2>3. QED
    BY <2>1, <2>2 DEF Parts
<1>2. \A i \in DOMAIN p : SizeOf(p[i]) < SizeOf(e)
  BY ElementsAreBuilt
<1> HIDE DEF p
<1>3. Len(p) \in Nat /\ DOMAIN p = 1..Len(p)
  BY <1>1
<1>4. ASSUME NEW i \in 1..Len(p) PROVE p[i] \in Elements /\ SizeOf(p[i]) \in Nat /\ SizeOf(p[i]) < SizeOf(e)
  <2>1. p[i] \in Elements
    BY <1>1, <1>3, ElementOfSeq
  <2>2. SizeOf(p[i]) \in Nat
    BY <2>1, KindsOfElements
  <2>3. QED
    BY <1>2, <1>3, <2>1, <2>2
<1>5. QED
  BY <1>1, <1>3, <1>4 DEF p

LEMMA SetNameIsOctets == SetName \in Octets /\ <<Star>> \in Octets
<1>1. 115 \in Octet /\ 101 \in Octet /\ 116 \in Octet /\ Star \in Octet
  BY DEF Octet, Star
<1>2. QED
  BY <1>1 DEF SetName, Octets

(* A list is printed as octets, if its parts are.                          *)
LEMMA ListStringIsOctets ==
  ASSUME NEW g \in Octets, NEW parts \in Seq(Octets)
  PROVE  /\ ListString(g, parts) \in Octets /\ LengthValue(g) \in Octets /\ Concat(parts) \in Octets
         /\ <<Open>> \in Octets /\ <<Close>> \in Octets
         /\ ListString(g, parts) = <<Open>> \o (LengthValue(g) \o (Concat(parts) \o <<Close>>))
<1>1. LengthValue(g) \in Octets
  BY LengthValueFrames
<1>2. Concat(parts) \in Octets
  <2>1. Joined(parts) \in [0..Len(parts) -> Octets]
    BY JoinedLoop
  <2>2. Len(parts) \in Nat
    OBVIOUS
  <2>3. Len(parts) \in 0..Len(parts)
    BY <2>2
  <2>4. QED
    BY <2>1, <2>3 DEF Concat
<1>3. <<Open>> \in Octets /\ <<Close>> \in Octets
  <2>1. Open \in Octet /\ Close \in Octet
    BY DEF Octet, Open, Close
  <2>2. QED
    BY <2>1, OneOctet
<1> DEFINE v == LengthValue(g)
           w == Concat(parts)
           o == <<Open>>
           c == <<Close>>
<1>4. ListString(g, parts) = ((o \o v) \o w) \o c
  BY DEF ListString
<1>5. v \in Octets /\ w \in Octets /\ o \in Octets /\ c \in Octets
  BY <1>1, <1>2, <1>3
<1> HIDE DEF v, w, o, c
<1>6. o \o v \in Octets /\ (o \o v) \o w \in Octets /\ w \o c \in Octets /\ v \o w \in Octets
      /\ v \o (w \o c) \in Octets
  <2>1. \A s, t \in Octets : s \o t \in Octets
    BY Zenon, Joins
  <2>2. QED
    BY SMTT(30), <1>5, <2>1
<1>7. ((o \o v) \o w) \o c = o \o (v \o (w \o c))
  <2> DEFINE x == o \o v
             y == w \o c
  <2>1. x \in Octets /\ y \in Octets
    BY <1>6
  <2> HIDE DEF y
  <2>2. (o \o v) \o y = o \o (v \o y)
    <3>1. o \in Octets /\ v \in Octets /\ y \in Octets
      BY <1>5, <2>1
    <3>2. QED
      BY Zenon, <3>1, JoinsAssociate
  <2>3. x \in Octets
    BY <2>1
  <2> HIDE DEF x
  <2>4. (x \o w) \o c = x \o (w \o c)
    BY <1>5, <2>3, JoinsAssociate
  <2>5. QED
    BY <2>2, <2>4 DEF x, y
<1>8. ((o \o v) \o w) \o c \in Octets
  BY <1>5, <1>6, Joins
<1>9. QED
  BY <1>1, <1>2, <1>3, <1>4, <1>7, <1>8 DEF v, w, o, c

(* An element is printed as octets, if its parts are.                      *)
LEMMA PrintedIsOctets ==
  ASSUME NEW e \in Elements, NEW parts \in Seq(Octets)
  PROVE  Printed(e, parts) \in Octets
<1>1. CASE e.kind = "atom"
  <2>1. e.value \in Octets
    BY <1>1, KindsOfElements
  <2>2. Printed(e, parts) = LengthValue(e.value)
    BY <1>1 DEF Printed
  <2>3. QED
    BY <2>1, <2>2, LengthValueFrames
<1>2. CASE e.kind = "list"
  <2>1. e.tag \in Octets
    BY <1>2, KindsOfElements
  <2>2. Printed(e, parts) = ListString(e.tag, parts)
    BY <1>2 DEF Printed
  <2>3. QED
    BY <2>1, <2>2, ListStringIsOctets
<1>3. CASE e.kind = "wildcard"
  <2>1. Printed(e, parts) = ListString(<<Star>>, <<>>)
    BY <1>3 DEF Printed
  <2>2. <<>> \in Seq(Octets)
    OBVIOUS
  <2>3. QED
    BY <2>1, <2>2, ListStringIsOctets, SetNameIsOctets
<1>4. CASE e.kind = "set"
  <2> DEFINE q == <<LengthValue(SetName)>>
  <2>1. Printed(e, parts) = ListString(<<Star>>, q \o parts)
    BY <1>4 DEF Printed
  <2>2. q \in Seq(Octets)
    BY SetNameIsOctets, LengthValueFrames
  <2> HIDE DEF q
  <2>3. q \o parts \in Seq(Octets)
    BY <2>2
  <2>4. QED
    BY <2>1, <2>3, ListStringIsOctets, SetNameIsOctets
<1>5. QED
  BY <1>1, <1>2, <1>3, <1>4, KindsOfElements

LEMMA PartStringsAreOctets ==
  ASSUME NEW e \in Elements, NEW f, \A i \in 1..Len(Parts(e)) : f[Parts(e)[i]] \in Octets
  PROVE  /\ PartStrings(f, e) \in Seq(Octets) /\ Len(PartStrings(f, e)) = Len(Parts(e))
         /\ \A i \in 1..Len(Parts(e)) : PartStrings(f, e)[i] = f[Parts(e)[i]]
<1> DEFINE p == Parts(e)
           n == Len(p)
           q == [i \in 1..n |-> f[p[i]]]
<1>1. n \in Nat /\ PartStrings(f, e) = q
  <2>1. Len(Parts(e)) \in Nat /\ DOMAIN Parts(e) = 1..Len(Parts(e))
    BY PartsAreElements
  <2>2. QED
    BY <2>1 DEF PartStrings
<1>2. \A i \in 1..n : f[p[i]] \in Octets
  OBVIOUS
<1> HIDE DEF p, n
<1>3. q \in [1..n -> Octets]
  BY <1>2
<1>4. \A i \in 1..n : q[i] = f[p[i]]
  OBVIOUS
<1> HIDE DEF q
<1>5. q \in Seq(Octets) /\ Len(q) = n
  BY <1>1, <1>3
<1>6. QED
  BY <1>1, <1>4, <1>5 DEF n, p

(* A form by which an element is octets, once its parts are: it exists.    *)
LEMMA FormsExist ==
  ASSUME NEW P \in [Elements \X Seq(Octets) -> Octets]
  PROVE  \E f \in [Elements -> Octets] : \A x \in Elements : f[x] = P[<<x, PartStrings(f, x)>>]
<1> DEFINE M == [x \in Elements |-> SizeOf(x)]
           Value == [p \in Elements \X [Elements -> Octets] |-> P[<<p[1], PartStrings(p[2], p[1])>>]]
<1>1. M \in [Elements -> Nat]
  BY KindsOfElements
<1>2. Value \in [Elements \X [Elements -> Octets] -> Octets]
  <2>1. ASSUME NEW x \in Elements, NEW f \in [Elements -> Octets]
        PROVE  P[<<x, PartStrings(f, x)>>] \in Octets
    <3>1. \A i \in 1..Len(Parts(x)) : f[Parts(x)[i]] \in Octets
      BY PartsAreElements
    <3>2. PartStrings(f, x) \in Seq(Octets)
      BY <3>1, PartStringsAreOctets
    <3>3. QED
      BY <3>2
  <2>2. QED
    BY <2>1
<1>3. ASSUME NEW x \in Elements, NEW f \in [Elements -> Octets], NEW g \in [Elements -> Octets],
             \A y \in Elements : M[y] < M[x] => f[y] = g[y]
      PROVE  Value[<<x, f>>] = Value[<<x, g>>]
  <2>1. \A i \in DOMAIN Parts(x) : f[Parts(x)[i]] = g[Parts(x)[i]]
    BY <1>3, PartsAreElements
  <2>2. PartStrings(f, x) = PartStrings(g, x)
    BY <2>1 DEF PartStrings
  <2>3. Value[<<x, f>>] = P[<<x, PartStrings(f, x)>>] /\ Value[<<x, g>>] = P[<<x, PartStrings(g, x)>>]
    OBVIOUS
  <2>4. QED
    BY <2>2, <2>3
<1>4. \E F : Obeys(F, Elements, Octets, Value)
  <2> HIDE DEF M, Value
  <2>1. <<>> \in Octets
    BY NoOctets
  <2>2. \A x \in Elements, f, g \in [Elements -> Octets] :
          (\A y \in Elements : M[y] < M[x] => f[y] = g[y]) => Value[<<x, f>>] = Value[<<x, g>>]
    BY <1>3
  <2>3. Descends(Elements, Octets, M, Value)
    BY <1>1, <1>2, <2>2 DEF Descends
  <2>4. QED
    BY <2>1, <2>3, RecursionExists
<1>5. PICK F : Obeys(F, Elements, Octets, Value)
  <2> HIDE DEF M, Value
  <2>1. QED
    BY <1>4
<1>6. ASSUME NEW x \in Elements PROVE F[x] = P[<<x, PartStrings(F, x)>>]
  BY <1>5 DEF Obeys
<1>7. F \in [Elements -> Octets]
  BY <1>5 DEF Obeys
<1> HIDE DEF Value, M
<1>8. QED
  BY <1>6, <1>7

(* And one that is octets if the parts' are is octets for every element.   *)
LEMMA FormsAreOctets ==
  ASSUME NEW f,
         \A x \in Elements : PartStrings(f, x) \in Seq(Octets) => f[x] \in Octets,
         NEW e \in Elements
  PROVE  f[e] \in Octets /\ PartStrings(f, e) \in Seq(Octets)
<1> DEFINE T == {n \in Nat : \A x \in Elements :
                   SizeOf(x) = n => f[x] \in Octets /\ PartStrings(f, x) \in Seq(Octets)}
<1>1. ASSUME NEW n \in Nat, \A m \in 0..(n - 1) : m \in T PROVE n \in T
  <2>1. SUFFICES ASSUME NEW x \in Elements, SizeOf(x) = n
                 PROVE  f[x] \in Octets /\ PartStrings(f, x) \in Seq(Octets)
    OBVIOUS
  <2>2. ASSUME NEW i \in 1..Len(Parts(x)) PROVE f[Parts(x)[i]] \in Octets
    <3> DEFINE y == Parts(x)[i]
    <3>1. y \in Elements /\ SizeOf(y) \in 0..(n - 1)
      BY <2>1, <2>2, PartsAreElements
    <3> HIDE DEF y
    <3>2. SizeOf(y) \in T
      BY <1>1, <3>1
    <3>3. f[y] \in Octets
      BY <3>1, <3>2
    <3>4. QED
      BY <3>3 DEF y
  <2>3. PartStrings(f, x) \in Seq(Octets)
    BY <2>2, PartStringsAreOctets
  <2>4. QED
    BY <2>3
<1>2. SizeOf(e) \in T
  <2>1. SizeOf(e) \in Nat
    BY KindsOfElements
  <2> HIDE DEF T
  <2>2. QED
    BY <1>1, <2>1, Strong
<1>3. QED
  BY <1>2

(* String is what its definition says, and octets.                         *)
LEMMA StringDef ==
  ASSUME NEW e \in Elements
  PROVE  /\ String[e] = Printed(e, PartStrings(String, e)) /\ String[e] \in Octets
         /\ PartStrings(String, e) \in Seq(Octets)
<1> DEFINE P == [p \in Elements \X Seq(Octets) |-> Printed(p[1], p[2])]
           D(f) == [x \in Elements |-> Printed(x, PartStrings(f, x))]
<1>1. P \in [Elements \X Seq(Octets) -> Octets]
  BY PrintedIsOctets
<1>2. PICK F \in [Elements -> Octets] : \A x \in Elements : F[x] = P[<<x, PartStrings(F, x)>>]
  <2> HIDE DEF P
  <2>1. QED
    BY <1>1, FormsExist
<1>3. F = D(F)
  <2>1. ASSUME NEW x \in Elements PROVE F[x] = Printed(x, PartStrings(F, x))
    <3>1. PartStrings(F, x) \in Seq(Octets)
      BY PartsAreElements, PartStringsAreOctets
    <3>2. QED
      BY <1>2, <3>1
  <2>2. F = [x \in Elements |-> F[x]]
    OBVIOUS
  <2>3. QED
    BY <2>1, <2>2
<1>4. String = D(String)
  <2>1. String = CHOOSE f : f = D(f)
    BY DEF String, PartStrings
  <2> HIDE DEF D
  <2>2. QED
    BY <1>3, <2>1
<1>5. ASSUME NEW x \in Elements PROVE String[x] = Printed(x, PartStrings(String, x))
  <2> DEFINE E == D(String)
  <2>1. E[x] = Printed(x, PartStrings(String, x))
    OBVIOUS
  <2>2. String = E
    BY <1>4
  <2> HIDE DEF E
  <2>3. QED
    BY <2>1, <2>2
<1>6. \A x \in Elements : PartStrings(String, x) \in Seq(Octets) => String[x] \in Octets
  BY <1>5, PrintedIsOctets
<1>7. QED
  BY <1>5, <1>6, FormsAreOctets

-----------------------------------------------------------------------------
(***************************************************************************)
(* Elements without star forms.                                            *)
(***************************************************************************)
StarIn(f, e) ==
  \/ e.kind \notin {"atom", "list"}
  \/ e.kind = "list" /\ \E i \in DOMAIN e.elems : f[e.elems[i]]

LEMMA HasStarFormDef ==
  ASSUME NEW e \in Elements
  PROVE  HasStarForm[e] = StarIn(HasStarForm, e)
<1> DEFINE M == [x \in Elements |-> SizeOf(x)]
           Value == [p \in Elements \X [Elements -> BOOLEAN] |-> StarIn(p[2], p[1])]
           D(f) == [x \in Elements |-> StarIn(f, x)]
<1>1. M \in [Elements -> Nat]
  BY KindsOfElements
<1>2. Value \in [Elements \X [Elements -> BOOLEAN] -> BOOLEAN]
  BY Zenon DEF StarIn
<1>3. ASSUME NEW x \in Elements, NEW f \in [Elements -> BOOLEAN], NEW g \in [Elements -> BOOLEAN],
             \A y \in Elements : M[y] < M[x] => f[y] = g[y]
      PROVE  Value[<<x, f>>] = Value[<<x, g>>]
  <2>1. CASE x.kind = "list"
    <3>1. Parts(x) = x.elems
      BY <2>1 DEF Parts, HasParts
    <3>2. \A i \in DOMAIN x.elems : f[x.elems[i]] = g[x.elems[i]]
      BY <1>3, <3>1, PartsAreElements
    <3>3. StarIn(f, x) = StarIn(g, x)
      BY <3>2, Zenon DEF StarIn
    <3>4. Value[<<x, f>>] = StarIn(f, x) /\ Value[<<x, g>>] = StarIn(g, x)
      <4> HIDE DEF D, M
      <4>1. QED
        BY Zenon
    <3>5. QED
      BY <3>3, <3>4, Zenon
  <2>2. CASE x.kind # "list"
    <3>1. StarIn(f, x) = StarIn(g, x)
      BY <2>2, Zenon DEF StarIn
    <3>2. QED
      BY <3>1, Zenon
  <2>3. QED
    BY <2>1, <2>2, Zenon
<1>4. \E F : Obeys(F, Elements, BOOLEAN, Value)
  <2> HIDE DEF M, Value, D
  <2>1. TRUE \in BOOLEAN
    OBVIOUS
  <2>2. \A x \in Elements, f, g \in [Elements -> BOOLEAN] :
          (\A y \in Elements : M[y] < M[x] => f[y] = g[y]) => Value[<<x, f>>] = Value[<<x, g>>]
    BY <1>3
  <2>3. Descends(Elements, BOOLEAN, M, Value)
    BY <1>1, <1>2, <2>2 DEF Descends
  <2>4. QED
    BY <2>1, <2>3, RecursionExists
<1>5. PICK F : Obeys(F, Elements, BOOLEAN, Value)
  <2> HIDE DEF M, Value, D
  <2>1. QED
    BY <1>4
<1>6. F = D(F)
  <2>1. ASSUME NEW x \in Elements PROVE F[x] = StarIn(F, x)
    BY <1>5 DEF Obeys
  <2>2. F = [x \in Elements |-> F[x]]
    BY <1>5 DEF Obeys
  <2>3. QED
    BY <2>1, <2>2
<1>7. HasStarForm = D(HasStarForm)
  <2>1. HasStarForm = CHOOSE f : f = D(f)
    BY DEF HasStarForm, StarIn
  <2> HIDE DEF D
  <2>2. QED
    BY <1>6, <2>1
<1>8. D(HasStarForm)[e] = StarIn(HasStarForm, e)
  BY Zenon
<1>9. QED
  <2> DEFINE E == D(HasStarForm)
  <2>1. HasStarForm = E /\ E[e] = StarIn(HasStarForm, e)
    BY <1>7, <1>8, Zenon
  <2> HIDE DEF E
  <2>2. QED
    BY <2>1, Zenon

(* The parts of an element without star forms have none.                   *)
LEMMA PlainParts ==
  ASSUME NEW e \in Elements, ~HasStarForm[e]
  PROVE  /\ \/ e.kind = "atom" /\ e = Atom(e.value) /\ e.value \in Octets
            \/ e.kind = "list" /\ e = List(e.tag, Parts(e)) /\ e.tag \in Octets
         /\ e.kind = "list" => \A i \in 1..Len(Parts(e)) : ~HasStarForm[Parts(e)[i]]
<1>1. ~StarIn(HasStarForm, e)
  BY HasStarFormDef, Zenon
<1>2. e.kind \in {"atom", "list"} /\ (e.kind = "list" => \A i \in DOMAIN e.elems : ~HasStarForm[e.elems[i]])
  BY <1>1, Zenon DEF StarIn
<1>3. e.kind = "list" => Parts(e) = e.elems
  BY DEF Parts, HasParts
<1>4. \/ e.kind = "atom" /\ e = Atom(e.value) /\ e.value \in Octets
      \/ e.kind = "list" /\ e = List(e.tag, Parts(e)) /\ e.tag \in Octets
  BY <1>2, <1>3, KindsOfElements
<1>5. ASSUME e.kind = "list", NEW i \in 1..Len(Parts(e)) PROVE ~HasStarForm[Parts(e)[i]]
  <2>1. i \in DOMAIN e.elems /\ Parts(e) = e.elems
    BY <1>3, <1>5, PartsAreElements
  <2>2. QED
    BY <1>2, <1>5, <2>1, Zenon
<1>6. QED
  BY <1>4, <1>5, Zenon

-----------------------------------------------------------------------------
(***************************************************************************)
(* The parser, round by round.                                             *)
(***************************************************************************)
ParseOf(f, s) ==
  IF s = <<>> THEN Failure ELSE IF Head(s) = Open THEN ParseList(s, f) ELSE ParseAtom(s)

\* What parse returns when n octets are left; and what there is of a list, too.
Ends(r, n) ==
  /\ r.kind \in {"failure", "panic", "parsed"}
  /\ r.kind = "parsed" => r.rest \in Octets /\ Len(r.rest) < n

Goes(r, n) == IF r.kind = "unclosed" THEN r.rest \in Octets /\ Len(r.rest) < n ELSE Ends(r, n)

LEMMA KindsOfResults ==
  /\ Failure.kind = "failure" /\ Panic.kind = "panic"
  /\ \A e, t : Parsed(e, t).kind = "parsed" /\ Parsed(e, t).elem = e /\ Parsed(e, t).rest = t
  /\ \A g, q, t : /\ Unclosed(g, q, t).kind = "unclosed" /\ Unclosed(g, q, t).tag = g
                  /\ Unclosed(g, q, t).elems = q /\ Unclosed(g, q, t).rest = t
BY DEF Failure, Panic, Parsed, Unclosed

(* What is left of a string when its first octet has been read.            *)
LEMMA HeadAndTail ==
  ASSUME NEW s \in Octets, s # <<>>
  PROVE  /\ Len(s) \in Nat /\ Len(s) >= 1 /\ Head(s) = s[1] /\ Head(s) \in Octet
         /\ Tail(s) \in Octets /\ Len(Tail(s)) = Len(s) - 1
         /\ \A i \in 1..(Len(s) - 1) : Tail(s)[i] = s[i + 1]
<1>1. s \in Seq(Octet)
  BY DEF Octets
<1>2. Len(s) \in Nat /\ Len(s) >= 1
  BY <1>1, EmptySeq
<1>3. Head(s) = s[1] /\ Head(s) \in Octet /\ Tail(s) \in Seq(Octet) /\ Len(Tail(s)) = Len(s) - 1
  BY <1>1, <1>2
<1>4. \A i \in 1..(Len(s) - 1) : Tail(s)[i] = s[i + 1]
  BY <1>1, <1>2
<1>5. QED
  BY <1>2, <1>3, <1>4 DEF Octets

(* An atom is a piece of what it is read from.                             *)
LEMMA ParseAtomEnds ==
  ASSUME NEW s \in Octets
  PROVE  /\ Ends(ParseAtom(s), Len(s))
         /\ ParseAtom(s).kind = "parsed" =>
              /\ ParseAtom(s) = Parsed(Atom(ParseAtom(s).elem.value), ParseAtom(s).rest)
              /\ ParseAtom(s).elem.value \in Octets
<1> DEFINE colon  == IndexByte(s, Colon)
           digits == SubSeq(s, 1, colon - 1)
           rest   == SubSeq(s, colon + 1, Len(s))
           length == Atoi(digits)
           v      == SubSeq(rest, 1, length)
           w      == SubSeq(rest, length + 1, Len(rest))
<1>0. ParseAtom(s) = IF colon = 0 \/ ~IsNumber(digits) \/ Len(rest) < length THEN Failure
                     ELSE IF length < 0 THEN Panic ELSE Parsed(Atom(v), w)
  BY DEF ParseAtom
<1>1. CASE ParseAtom(s) = Failure
  BY <1>1, KindsOfResults DEF Ends
<1>2. CASE ParseAtom(s) = Panic
  BY <1>2, KindsOfResults DEF Ends
<1>3. CASE ParseAtom(s) # Failure /\ ParseAtom(s) # Panic
  <2>1. colon # 0 /\ IsNumber(digits) /\ ~(Len(rest) < length) /\ ~(length < 0)
        /\ ParseAtom(s) = Parsed(Atom(v), w)
    BY <1>0, <1>3
  <2>2. colon \in 1..Len(s)
    <3>1. \E i \in DOMAIN s : s[i] = Colon
      BY <2>1, IndexByteIsNone
    <3>2. PICK i \in 1..Len(s) : s[i] = Colon
      BY <3>1, OctetsAre
    <3>3. colon \in 1..i /\ Len(s) \in Nat
      BY <3>2, IndexByteFinds, OctetsAre
    <3>4. QED
      BY <3>2, <3>3
  <2>3. digits \in Octets
    <3>1. 1 \in 1..(Len(s) + 1) /\ colon - 1 \in (1 - 1)..Len(s)
      BY <2>2, OctetsAre
    <3>2. QED
      BY <3>1, Pieces
  <2>4. length \in Int
    BY <2>1, <2>3, NumbersAreInts
  <2>5. rest \in Octets /\ Len(rest) = Len(s) - colon
    <3>1. colon \in 0..Len(s)
      BY <2>2
    <3>2. QED
      BY <3>1, RestIs DEF Rest
  <2>6. Len(s) \in Nat /\ Len(rest) \in Nat
    BY <2>5, OctetsAre
  <2> HIDE DEF rest, length, colon, digits
  <2>7. length \in 0..Len(rest)
    <3>1. ~(Len(rest) < length) /\ ~(length < 0)
      BY <2>1
    <3>2. QED
      BY <2>4, <2>6, <3>1
  <2>8. v \in Octets
    <3>1. 1 \in 1..(Len(rest) + 1) /\ length \in (1 - 1)..Len(rest)
      BY <2>6, <2>7
    <3>2. QED
      BY <2>5, <3>1, Pieces
  <2>9. w \in Octets /\ Len(w) = Len(rest) - length
    BY <2>5, <2>7, RestIs DEF Rest
  <2> HIDE DEF v, w
  <2>10. Len(w) < Len(s)
    <3> DEFINE a == Len(w)
               b == Len(s)
               c == Len(rest)
    <3>1. a = c - length /\ c = b - colon /\ colon \in 1..b /\ length \in 0..c /\ b \in Nat /\ c \in Nat
      BY <2>2, <2>5, <2>6, <2>7, <2>9
    <3> HIDE DEF a, b, c
    <3>2. a < b
      BY <3>1
    <3>3. QED
      BY <3>2 DEF a, b
  <2>11. Atom(v).value = v
    BY DEF Atom
  <2>12. QED
    BY <2>1, <2>8, <2>9, <2>10, <2>11, KindsOfResults DEF Ends
<1>4. QED
  BY <1>1, <1>2, <1>3

\* l is what the loop of parseList has after each of n rounds.
IsReading(l, n, list, f) == l = [i \in 0..n |-> IF i = 0 THEN list ELSE ReadElement(l[i - 1], f)]

LEMMA ReadingExists ==
  ASSUME NEW n \in Nat, NEW list, NEW f
  PROVE  \E l : IsReading(l, n, list, f)
<1> DEFINE T == {k \in Nat : \E l : IsReading(l, k, list, f)}
<1>1. 0 \in T
  <2>1. IsReading([i \in 0..0 |-> list], 0, list, f)
    BY DEF IsReading
  <2>2. QED
    BY <2>1
<1>2. ASSUME NEW k \in 0..(n - 1), k \in T PROVE k + 1 \in T
  <2>1. PICK l : IsReading(l, k, list, f)
    BY <1>2
  <2> DEFINE g == [i \in 0..(k + 1) |-> IF i = k + 1 THEN ReadElement(l[k], f) ELSE l[i]]
  <2>2. ASSUME NEW i \in 0..(k + 1)
        PROVE  g[i] = IF i = 0 THEN list ELSE ReadElement(g[i - 1], f)
    <3>1. CASE i = k + 1
      <4>1. g[i] = ReadElement(l[k], f) /\ i # 0 /\ i - 1 = k /\ g[i - 1] = l[k]
        BY <3>1
      <4>2. QED
        BY <4>1
    <3>2. CASE i # k + 1 /\ i # 0
      <4>1. i \in 0..k /\ i - 1 \in 0..(k + 1) /\ i - 1 # k + 1
        BY <3>2
      <4>2. g[i] = l[i] /\ g[i - 1] = l[i - 1]
        BY <3>2, <4>1
      <4>3. l[i] = ReadElement(l[i - 1], f)
        BY <2>1, <3>2, <4>1 DEF IsReading
      <4>4. QED
        BY <3>2, <4>2, <4>3
    <3>3. CASE i = 0
      <4>1. 0 \in 0..k /\ g[i] = l[i]
        BY <3>3
      <4>2. QED
        BY <2>1, <3>3, <4>1 DEF IsReading
    <3>4. QED
      BY <3>1, <3>2, <3>3
  <2>3. IsReading(g, k + 1, list, f)
    BY <2>2 DEF IsReading
  <2>4. QED
    BY <2>3
<1>3. n \in T
  <2> HIDE DEF T
  <2>1. \A k \in 0..n : k \in T
    BY <1>1, <1>2, Steps
  <2>2. QED
    BY <2>1
<1>4. QED
  BY <1>3

LEMMA ReadElementsLoop ==
  ASSUME NEW n \in Nat, NEW list, NEW f
  PROVE  /\ ReadElements(list, n, f)[0] = list
         /\ \A i \in 1..n : ReadElements(list, n, f)[i] = ReadElement(ReadElements(list, n, f)[i - 1], f)
<1> DEFINE L == ReadElements(list, n, f)
<1>1. L = CHOOSE l : IsReading(l, n, list, f)
  BY DEF ReadElements, IsReading
<1>2. \E l : IsReading(l, n, list, f)
  BY ReadingExists
<1>3. L = [i \in 0..n |-> IF i = 0 THEN list ELSE ReadElement(L[i - 1], f)]
  <2> HIDE DEF L
  <2>1. IsReading(L, n, list, f)
    BY <1>1, <1>2
  <2>2. QED
    BY <2>1 DEF IsReading
<1> HIDE DEF L
<1>4. L[0] = list
  BY <1>3
<1>5. ASSUME NEW i \in 1..n PROVE L[i] = ReadElement(L[i - 1], f)
  <2>1. i \in 0..n /\ i # 0
    OBVIOUS
  <2>2. QED
    BY <1>3, <2>1
<1>6. QED
  BY <1>4, <1>5 DEF L

\* A function that reads elements from strings shorter than n.
Reads(f, n) == \A s \in Octets : Len(s) < n => Ends(f[s], Len(s))

(* One round, if parse reads elements from what is left.                   *)
LEMMA ReadElementGoes ==
  ASSUME NEW n \in Nat, NEW list, NEW f, NEW g, Goes(list, n), Reads(f, n),
         \A s \in Octets : Len(s) < n => f[s] = g[s]
  PROVE  /\ Goes(ReadElement(list, f), n)
         /\ ReadElement(list, f) = ReadElement(list, g)
         /\ ReadElement(list, f).kind = "unclosed" =>
              list.kind = "unclosed" /\ Len(ReadElement(list, f).rest) < Len(list.rest)
<1>1. CASE list.kind # "unclosed"
  BY <1>1 DEF ReadElement
<1>2. CASE list.kind = "unclosed" /\ list.rest = <<>>
  <2>1. ReadElement(list, f) = Failure /\ ReadElement(list, g) = Failure
    BY <1>2 DEF ReadElement
  <2>2. QED
    BY <2>1, KindsOfResults DEF Goes, Ends
<1>3. CASE list.kind = "unclosed" /\ list.rest # <<>> /\ Head(list.rest) = Close
  <2> DEFINE r == Parsed(List(list.tag, list.elems), Tail(list.rest))
  <2>1. ReadElement(list, f) = r /\ ReadElement(list, g) = r
    BY <1>3 DEF ReadElement
  <2>2. r.kind = "parsed" /\ r.rest = Tail(list.rest)
    BY KindsOfResults
  <2> HIDE DEF r
  <2>3. Tail(list.rest) \in Octets /\ Len(Tail(list.rest)) < n
    <3>1. list.rest \in Octets /\ Len(list.rest) < n
      BY <1>3 DEF Goes
    <3>2. QED
      BY <1>3, <3>1, HeadAndTail
  <2>4. QED
    BY <2>1, <2>2, <2>3 DEF Goes, Ends
<1>4. CASE list.kind = "unclosed" /\ list.rest # <<>> /\ Head(list.rest) # Close
  <2>1. ReadElement(list, f) = AddElement(list, f[list.rest])
        /\ ReadElement(list, g) = AddElement(list, g[list.rest])
    BY <1>4 DEF ReadElement
  <2>2. list.rest \in Octets /\ Len(list.rest) < n
    BY <1>4 DEF Goes
  <2>3. f[list.rest] = g[list.rest] /\ Ends(f[list.rest], Len(list.rest))
    BY <2>2 DEF Reads
  <2> DEFINE next == f[list.rest]
             t == list.rest
  <2> HIDE DEF next
  <2>4. CASE next.kind = "parsed"
    <3> DEFINE r == Unclosed(list.tag, Append(list.elems, next.elem), next.rest)
    <3>1. AddElement(list, next) = r
      BY <2>4 DEF AddElement
    <3>2. r.kind = "unclosed" /\ r.rest = next.rest
      BY KindsOfResults
    <3> HIDE DEF r
    <3>3. next.rest \in Octets /\ Len(next.rest) < Len(t)
      BY <2>3, <2>4 DEF Ends, next
    <3>4. Len(next.rest) < n
      <4>1. Len(next.rest) \in Nat /\ Len(t) \in Nat /\ Len(t) < n
        BY <2>2, <3>3, OctetsAre
      <4>2. QED
        BY <3>3, <4>1
    <3>5. QED
      BY <1>4, <2>1, <2>3, <3>1, <3>2, <3>3, <3>4 DEF Goes, next
  <2>5. CASE next.kind # "parsed"
    <3>1. AddElement(list, next) = next
      BY <2>5 DEF AddElement
    <3>2. next.kind \in {"failure", "panic"}
      BY <2>3, <2>5 DEF Ends, next
    <3>3. Goes(next, n) /\ next.kind # "unclosed"
      BY <3>2 DEF Goes, Ends
    <3>4. QED
      BY <2>1, <2>3, <3>1, <3>3 DEF next
  <2>6. QED
    BY <2>4, <2>5
<1>5. QED
  BY <1>1, <1>2, <1>3, <1>4

(* What parse makes of a string follows from what it makes of the shorter  *)
(* ones; the loop over a list ends, since every round reads an octet.      *)
LEMMA ParseOfDepends ==
  ASSUME NEW s \in Octets, NEW f, NEW g, Reads(f, Len(s)),
         \A t \in Octets : Len(t) < Len(s) => f[t] = g[t]
  PROVE  ParseOf(f, s) = ParseOf(g, s) /\ Ends(ParseOf(f, s), Len(s))
<1> DEFINE n == Len(s)
<1>0. n \in Nat
  BY OctetsAre
<1>1. CASE s = <<>>
  <2>1. ParseOf(f, s) = Failure /\ ParseOf(g, s) = Failure
    BY <1>1 DEF ParseOf
  <2>2. QED
    BY <2>1, KindsOfResults DEF Ends
<1>2. CASE s # <<>> /\ Head(s) # Open
  <2>1. ParseOf(f, s) = ParseAtom(s) /\ ParseOf(g, s) = ParseAtom(s)
    BY <1>2 DEF ParseOf
  <2>2. QED
    BY <2>1, ParseAtomEnds
<1>3. CASE s # <<>> /\ Head(s) = Open
  <2> DEFINE tag == ParseAtom(Tail(s))
             list == Unclosed(tag.elem.value, <<>>, tag.rest)
             L == ReadElements(list, n, f)
             G == ReadElements(list, n, g)
  <2>1. /\ ParseOf(f, s) = IF tag.kind = "parsed" THEN L[n] ELSE tag
        /\ ParseOf(g, s) = IF tag.kind = "parsed" THEN G[n] ELSE tag
    BY <1>3 DEF ParseOf, ParseList
  <2>2. Ends(tag, n - 1)
    <3>1. Tail(s) \in Octets /\ Len(Tail(s)) = n - 1
      BY <1>3, HeadAndTail
    <3>2. QED
      BY <3>1, ParseAtomEnds
  <2> HIDE DEF tag
  <2>3. CASE tag.kind # "parsed"
    <3>1. Ends(tag, n)
      BY <2>2, <2>3 DEF Ends
    <3>2. QED
      BY <2>1, <2>3, <3>1
  <2>4. CASE tag.kind = "parsed"
    <3>1. tag.rest \in Octets /\ Len(tag.rest) < n - 1
      BY <2>2, <2>4 DEF Ends
    <3>2. list.kind = "unclosed" /\ list.rest = tag.rest
      BY KindsOfResults
    <3> HIDE DEF list
    <3>3. Goes(list, n) /\ Len(list.rest) < n
      <4>1. Len(tag.rest) \in Nat
        BY <3>1, OctetsAre
      <4>2. Len(tag.rest) < n
        BY <1>0, <3>1, <4>1
      <4>3. QED
        BY <3>1, <3>2, <4>2 DEF Goes
    <3>4. /\ L[0] = list /\ \A i \in 1..n : L[i] = ReadElement(L[i - 1], f)
          /\ G[0] = list /\ \A i \in 1..n : G[i] = ReadElement(G[i - 1], g)
      BY <1>0, ReadElementsLoop
    <3> HIDE DEF L, G
    <3> DEFINE T == {i \in 0..n : /\ Goes(L[i], n) /\ L[i] = G[i]
                                  /\ L[i].kind = "unclosed" => Len(L[i].rest) + i < n}
    <3>5. 0 \in T
      <4>1. 0 \in 0..n
        BY <1>0
      <4>2. Len(list.rest) + 0 < n
        <5>1. Len(list.rest) \in Nat
          BY <3>1, <3>2, OctetsAre
        <5>2. QED
          BY <3>3, <5>1
      <4>3. QED
        BY <3>3, <3>4, <4>1, <4>2
    <3>6. ASSUME NEW i \in 0..(n - 1), i \in T PROVE i + 1 \in T
      <4>1. i + 1 \in 1..n /\ i + 1 \in 0..n /\ (i + 1) - 1 = i
        BY <1>0
      <4>2. L[i + 1] = ReadElement(L[i], f) /\ G[i + 1] = ReadElement(G[i], g)
        BY <3>4, <4>1
      <4>3. Goes(L[i], n) /\ L[i] = G[i] /\ (L[i].kind = "unclosed" => Len(L[i].rest) + i < n)
        BY <3>6
      <4> DEFINE x == L[i]
                 y == ReadElement(x, f)
      <4>4. /\ Goes(y, n) /\ y = ReadElement(x, g)
            /\ y.kind = "unclosed" => x.kind = "unclosed" /\ Len(y.rest) < Len(x.rest)
        <5> HIDE DEF x
        <5>1. Goes(x, n)
          BY <4>3 DEF x
        <5>2. QED
          BY <1>0, <5>1, ReadElementGoes
      <4>5. L[i + 1] = y /\ L[i + 1] = G[i + 1]
        BY <4>2, <4>3, <4>4
      <4> HIDE DEF y
      <4>6. ASSUME y.kind = "unclosed" PROVE Len(y.rest) + (i + 1) < n
        <5>1. x.kind = "unclosed" /\ Len(y.rest) < Len(x.rest) /\ Len(x.rest) + i < n
          BY <4>3, <4>4, <4>6
        <5>2. y.rest \in Octets /\ x.rest \in Octets
          BY <4>3, <4>4, <4>6, <5>1 DEF Goes
        <5>3. Len(y.rest) \in Nat /\ Len(x.rest) \in Nat
          BY <5>2, OctetsAre
        <5> DEFINE a == Len(y.rest)
                   b == Len(x.rest)
        <5>4. a \in Nat /\ b \in Nat /\ a < b /\ b + i < n
          BY <5>1, <5>3
        <5> HIDE DEF a, b
        <5>5. a + (i + 1) < n
          BY <1>0, <5>4
        <5>6. QED
          BY <5>5 DEF a
      <4>7. QED
        BY <4>1, <4>4, <4>5, <4>6
    <3>7. n \in T
      <4> HIDE DEF T
      <4>1. \A i \in 0..n : i \in T
        BY <1>0, <3>5, <3>6, Steps
      <4>2. n \in 0..n
        BY <1>0
      <4>3. QED
        BY <4>1, <4>2
    <3>8. Goes(L[n], n) /\ L[n] = G[n] /\ (L[n].kind = "unclosed" => Len(L[n].rest) + n < n)
      BY <3>7
    <3>9. L[n].kind # "unclosed"
      <4>1. SUFFICES ASSUME L[n].kind = "unclosed" PROVE FALSE
        OBVIOUS
      <4>2. L[n].rest \in Octets
        BY <3>8, <4>1 DEF Goes
      <4>3. Len(L[n].rest) \in Nat
        BY <4>2, OctetsAre
      <4> DEFINE a == Len(L[n].rest)
      <4>4. a \in Nat /\ a + n < n
        BY <3>8, <4>1, <4>3
      <4> HIDE DEF a
      <4>5. QED
        BY <1>0, <4>4
    <3>10. Ends(L[n], n)
      BY <3>8, <3>9 DEF Goes
    <3>11. QED
      BY <2>1, <2>4, <3>8, <3>10
  <2>5. QED
    BY <2>3, <2>4
<1>4. QED
  BY <1>1, <1>2, <1>3

UpTo(k) == {s \in Octets : Len(s) <= k}

\* f is Parse on the strings of at most k octets.
IsParse(f, k) == f = [s \in UpTo(k) |-> ParseOf(f, s)]

LEMMA ParseReads ==
  ASSUME NEW k \in Nat, NEW f, IsParse(f, k)
  PROVE  Reads(f, k + 1)
<1> DEFINE T == {n \in Nat : n <= k => \A s \in Octets : Len(s) = n => Ends(f[s], n)}
<1>1. ASSUME NEW n \in Nat, \A m \in 0..(n - 1) : m \in T PROVE n \in T
  <2>1. SUFFICES ASSUME n <= k, NEW s \in Octets, Len(s) = n PROVE Ends(f[s], n)
    OBVIOUS
  <2>2. f[s] = ParseOf(f, s)
    <3>1. s \in UpTo(k)
      BY <2>1 DEF UpTo
    <3>2. QED
      BY <3>1 DEF IsParse
  <2>3. ASSUME NEW t \in Octets, Len(t) < n PROVE Ends(f[t], Len(t))
    <3>1. Len(t) \in Nat
      BY OctetsAre
    <3>2. Len(t) \in 0..(n - 1) /\ Len(t) <= k
      BY <2>1, <2>3, <3>1
    <3>3. Len(t) \in T
      BY <1>1, <3>2
    <3>4. QED
      BY <3>2, <3>3
  <2>4. Reads(f, Len(s))
    BY <2>1, <2>3 DEF Reads
  <2>5. QED
    BY <2>1, <2>2, <2>4, ParseOfDepends
<1>2. \A n \in Nat : n \in T
  <2> HIDE DEF T
  <2>1. QED
    BY <1>1, Strong
<1>3. ASSUME NEW s \in Octets, Len(s) < k + 1 PROVE Ends(f[s], Len(s))
  <2>1. Len(s) \in Nat
    BY OctetsAre
  <2>2. Len(s) <= k
    BY <1>3, <2>1
  <2>3. Len(s) \in T
    BY <1>2, <2>1
  <2>4. QED
    BY <2>2, <2>3
<1>4. QED
  BY <1>3 DEF Reads

LEMMA ParsesAgree ==
  ASSUME NEW k \in Nat, NEW m \in Nat, NEW f, NEW g, IsParse(f, k), IsParse(g, m),
         NEW s \in Octets, Len(s) <= k, Len(s) <= m
  PROVE  f[s] = g[s]
<1> DEFINE T == {n \in Nat : n <= k /\ n <= m => \A t \in Octets : Len(t) = n => f[t] = g[t]}
<1>1. ASSUME NEW n \in Nat, \A j \in 0..(n - 1) : j \in T PROVE n \in T
  <2>1. SUFFICES ASSUME n <= k, n <= m, NEW t \in Octets, Len(t) = n PROVE f[t] = g[t]
    OBVIOUS
  <2>2. f[t] = ParseOf(f, t) /\ g[t] = ParseOf(g, t)
    <3>1. t \in UpTo(k) /\ t \in UpTo(m)
      BY <2>1 DEF UpTo
    <3>2. QED
      BY <3>1 DEF IsParse
  <2>3. Reads(f, Len(t))
    <3>1. Reads(f, k + 1)
      BY ParseReads
    <3>2. ASSUME NEW u \in Octets, Len(u) < n PROVE Len(u) < k + 1
      <4>1. Len(u) \in Nat
        BY OctetsAre
      <4>2. QED
        BY <2>1, <3>2, <4>1
    <3>3. QED
      BY <2>1, <3>1, <3>2 DEF Reads
  <2>4. ASSUME NEW u \in Octets, Len(u) < Len(t) PROVE f[u] = g[u]
    <3>1. Len(u) \in Nat
      BY OctetsAre
    <3>2. Len(u) \in 0..(n - 1) /\ Len(u) <= k /\ Len(u) <= m
      BY <2>1, <2>4, <3>1
    <3>3. Len(u) \in T
      BY <1>1, <3>2
    <3>4. QED
      BY <3>2, <3>3
  <2>5. ParseOf(f, t) = ParseOf(g, t)
    BY <2>3, <2>4, ParseOfDepends
  <2>6. QED
    BY <2>2, <2>5
<1>2. Len(s) \in T
  <2>1. \A n \in Nat : n \in T
    <3> HIDE DEF T
    <3>1. QED
      BY <1>1, Strong
  <2>2. QED
    BY <2>1, OctetsAre
<1>3. QED
  BY <1>2

LEMMA ParsesExist ==
  ASSUME NEW k \in Nat
  PROVE  \E f : IsParse(f, k)
<1> DEFINE T == {m \in Nat : \E f : IsParse(f, m)}
<1>1. 0 \in T
  <2> DEFINE f == [s \in UpTo(0) |-> Failure]
  <2>1. ASSUME NEW s \in UpTo(0) PROVE s = <<>>
    <3>1. s \in Octets /\ Len(s) <= 0
      BY DEF UpTo
    <3>2. Len(s) = 0
      BY <3>1, OctetsAre
    <3>3. QED
      BY <3>1, <3>2, NoOctets, OctetsEqual
  <2>2. ASSUME NEW s \in UpTo(0) PROVE ParseOf(f, s) = Failure
    BY <2>1 DEF ParseOf
  <2>3. f = [s \in UpTo(0) |-> ParseOf(f, s)]
    <3>1. [s \in UpTo(0) |-> ParseOf(f, s)] = [s \in UpTo(0) |-> Failure]
      <4> HIDE DEF f
      <4>1. QED
        BY <2>2
    <3>2. QED
      BY <3>1
  <2> HIDE DEF f
  <2>4. IsParse(f, 0)
    BY <2>3 DEF IsParse
  <2>5. QED
    BY <2>4
<1>2. ASSUME NEW m \in 0..(k - 1), m \in T PROVE m + 1 \in T
  <2>1. PICK f : IsParse(f, m)
    BY <1>2
  <2> DEFINE g == [s \in UpTo(m + 1) |-> ParseOf(f, s)]
  <2>2. ASSUME NEW s \in UpTo(m + 1) PROVE g[s] = ParseOf(g, s)
    <3>1. s \in Octets /\ Len(s) <= m + 1 /\ m \in Nat /\ Len(s) \in Nat
      BY OctetsAre DEF UpTo
    <3>2. g[s] = ParseOf(f, s)
      OBVIOUS
    <3>3. Reads(f, Len(s))
      <4>1. Reads(f, m + 1)
        BY <2>1, <3>1, ParseReads
      <4>2. ASSUME NEW t \in Octets, Len(t) < Len(s) PROVE Len(t) < m + 1
        <5>1. Len(t) \in Nat
          BY OctetsAre
        <5>2. QED
          BY <3>1, <4>2, <5>1
      <4>3. QED
        BY <4>1, <4>2 DEF Reads
    <3>4. ASSUME NEW t \in Octets, Len(t) < Len(s) PROVE f[t] = g[t]
      <4>1. Len(t) \in Nat
        BY OctetsAre
      <4>2. Len(t) <= m /\ Len(t) <= m + 1
        BY <3>1, <3>4, <4>1
      <4>3. t \in UpTo(m) /\ t \in UpTo(m + 1)
        BY <4>2 DEF UpTo
      <4>4. f[t] = ParseOf(f, t)
        BY <2>1, <4>3 DEF IsParse
      <4>5. QED
        BY <4>3, <4>4
    <3> HIDE DEF g
    <3>5. ParseOf(f, s) = ParseOf(g, s)
      BY <3>1, <3>3, <3>4, ParseOfDepends
    <3>6. QED
      BY <3>2, <3>5
  <2>3. IsParse(g, m + 1)
    <3>1. g = [s \in UpTo(m + 1) |-> g[s]]
      OBVIOUS
    <3> HIDE DEF g
    <3>2. g = [s \in UpTo(m + 1) |-> ParseOf(g, s)]
      BY <2>2, <3>1
    <3>3. QED
      BY <3>2 DEF IsParse
  <2> HIDE DEF g
  <2>4. QED
    BY <2>3
<1>3. k \in T
  <2> HIDE DEF T
  <2>1. \A m \in 0..k : m \in T
    BY <1>1, <1>2, Steps
  <2>2. QED
    BY <2>1
<1>4. QED
  BY <1>3

(* Parse is what its definition says; it ends for every string, and what   *)
(* it leaves is shorter than what it was given.                            *)
THEOREM ParserEnds ==
  ASSUME NEW s \in Octets
  PROVE  Parse[s] = ParseOf(Parse, s) /\ Ends(Parse[s], Len(s))
<1> DEFINE G(k) == CHOOSE f : IsParse(f, k)
           F == [t \in Octets |-> G(Len(t))[t]]
           D(f) == [t \in Octets |-> ParseOf(f, t)]
<1>1. ASSUME NEW k \in Nat PROVE IsParse(G(k), k)
  BY ParsesExist
<1>2. ASSUME NEW t \in Octets PROVE F[t] = ParseOf(F, t) /\ Ends(F[t], Len(t))
  <2> HIDE DEF G
  <2> DEFINE n == Len(t)
             f == G(n)
  <2>1. n \in Nat /\ IsParse(f, n) /\ F[t] = f[t]
    BY <1>1, OctetsAre
  <2>2. f[t] = ParseOf(f, t)
    <3>1. t \in UpTo(n)
      BY <2>1 DEF UpTo
    <3> HIDE DEF f
    <3>2. QED
      BY <2>1, <3>1 DEF IsParse
  <2>3. Reads(f, n)
    <3>1. Reads(f, n + 1)
      <4> HIDE DEF f, n
      <4>1. QED
        BY <2>1, ParseReads
    <3>2. ASSUME NEW u \in Octets, Len(u) < n PROVE Len(u) < n + 1
      <4>1. Len(u) \in Nat
        BY OctetsAre
      <4>2. QED
        BY <2>1, <3>2, <4>1
    <3> HIDE DEF f, n
    <3>3. QED
      BY <3>1, <3>2 DEF Reads
  <2>4. ASSUME NEW u \in Octets, Len(u) < n PROVE f[u] = F[u]
    <3>1. Len(u) \in Nat /\ IsParse(G(Len(u)), Len(u)) /\ F[u] = G(Len(u))[u]
      BY <1>1, OctetsAre
    <3>2. Len(u) <= n /\ Len(u) <= Len(u)
      BY <2>1, <2>4, <3>1
    <3> DEFINE h == G(Len(u))
    <3> HIDE DEF f, n, F, h
    <3>3. f[u] = h[u]
      BY <2>1, <3>1, <3>2, ParsesAgree DEF h
    <3>4. QED
      BY <3>1, <3>3 DEF h
  <2> HIDE DEF f, F
  <2>5. ParseOf(f, t) = ParseOf(F, t) /\ Ends(ParseOf(f, t), n)
    BY <2>3, <2>4, ParseOfDepends
  <2>6. QED
    BY <2>1, <2>2, <2>5
<1>3. F = D(F)
  <2>1. F = [t \in Octets |-> F[t]]
    OBVIOUS
  <2> HIDE DEF F
  <2>2. QED
    BY <1>2, <2>1
<1>4. Parse = CHOOSE f : f = D(f)
  BY DEF Parse, ParseOf
<1>5. Parse = D(Parse)
  <2> HIDE DEF F
  <2>1. \E f : f = D(f)
    BY <1>3
  <2> HIDE DEF D
  <2>2. QED
    BY <1>4, <2>1
<1>6. ASSUME NEW t \in Octets PROVE Parse[t] = ParseOf(Parse, t)
  <2> DEFINE E == D(Parse)
  <2>1. E[t] = ParseOf(Parse, t)
    OBVIOUS
  <2>2. Parse = E
    BY <1>5
  <2> HIDE DEF E
  <2>3. QED
    BY <2>1, <2>2
<1> DEFINE T == {n \in Nat : \A t \in Octets : Len(t) = n => Ends(Parse[t], n)}
<1>7. ASSUME NEW n \in Nat, \A m \in 0..(n - 1) : m \in T PROVE n \in T
  <2>1. SUFFICES ASSUME NEW t \in Octets, Len(t) = n PROVE Ends(Parse[t], n)
    OBVIOUS
  <2>2. ASSUME NEW u \in Octets, Len(u) < n PROVE Ends(Parse[u], Len(u))
    <3>1. Len(u) \in Nat
      BY OctetsAre
    <3>2. Len(u) \in 0..(n - 1)
      BY <2>2, <3>1
    <3>3. Len(u) \in T
      BY <1>7, <3>2
    <3>4. QED
      BY <3>3
  <2>3. Reads(Parse, Len(t))
    BY <2>1, <2>2 DEF Reads
  <2>4. QED
    BY <1>6, <2>1, <2>3, ParseOfDepends
<1>8. Len(s) \in T
  <2>1. \A n \in Nat : n \in T
    <3> HIDE DEF T
    <3>1. QED
      BY <1>7, Strong
  <2>2. QED
    BY <2>1, OctetsAre
<1>9. QED
  BY <1>6, <1>8

-----------------------------------------------------------------------------
(***************************************************************************)
(* Printed atoms and tags.                                                 *)
(***************************************************************************)
(* Octets without a colon, one, and the rest.                              *)
LEMMA ParseAtomFramed ==
  ASSUME NEW d \in Octets, \A i \in 1..Len(d) : d[i] # Colon, NEW r \in Octets
  PROVE  ParseAtom(Framed(d, r)) =
           IF ~IsNumber(d) \/ Len(r) < Atoi(d) THEN Failure
           ELSE IF Atoi(d) < 0 THEN Panic
           ELSE Parsed(Atom(SubSeq(r, 1, Atoi(d))), SubSeq(r, Atoi(d) + 1, Len(r)))
<1>0. PICK s \in Octets : s = Framed(d, r)
  BY ColonSplits
<1> DEFINE colon == IndexByte(s, Colon)
<1>1. /\ colon = Len(d) + 1
      /\ SubSeq(s, 1, Len(d)) = d /\ SubSeq(s, Len(d) + 2, Len(s)) = r
  BY <1>0, ColonSplits
<1>2. colon - 1 = Len(d) /\ colon + 1 = Len(d) + 2 /\ colon # 0
  <2>1. Len(d) \in Nat
    BY OctetsAre
  <2> HIDE DEF colon
  <2>2. QED
    BY <1>1, <2>1
<1>3. SubSeq(s, 1, colon - 1) = d /\ SubSeq(s, colon + 1, Len(s)) = r
  BY <1>1, <1>2, Zenon
<1>4. ParseAtom(s) =
        IF ~IsNumber(d) \/ Len(r) < Atoi(d) THEN Failure
        ELSE IF Atoi(d) < 0 THEN Panic
        ELSE Parsed(Atom(SubSeq(r, 1, Atoi(d))), SubSeq(r, Atoi(d) + 1, Len(r)))
  BY <1>2, <1>3 DEF ParseAtom
<1>5. QED
  BY <1>0, <1>4

(* A value behind its length begins with a digit and is read as itself,    *)
(* whatever follows.                                                       *)
LEMMA ParseAtomExact ==
  ASSUME NEW v \in Octets, NEW t \in Octets
  PROVE  /\ ParseAtom(LengthValue(v) \o t) = Parsed(Atom(v), t)
         /\ LengthValue(v)[1] \in Digits
<1> DEFINE d == Decimal[Len(v)]
           r == v \o t
           s == Framed(d, r)
<1>1. /\ d \in Octets /\ \A i \in 1..Len(d) : d[i] # Colon
      /\ IsNumber(d) /\ Atoi(d) = Len(v)
      /\ LengthValue(v) \o t = s /\ LengthValue(v) = Framed(d, v)
  BY LengthValueFrames
<1>2. /\ r \in Octets /\ Len(r) = Len(v) + Len(t)
      /\ SubSeq(r, 1, Len(v)) = v /\ SubSeq(r, Len(v) + 1, Len(r)) = t
  BY Joins, JoinsSplit
<1>3. Len(v) \in Nat /\ Len(t) \in Nat
  BY OctetsAre
<1>4. d \in Seq(Digits) /\ Len(d) >= 1
  BY <1>3, DecimalIsDigits
<1> HIDE DEF d, r
<1>5. ParseAtom(s) =
        IF ~IsNumber(d) \/ Len(r) < Atoi(d) THEN Failure
        ELSE IF Atoi(d) < 0 THEN Panic
        ELSE Parsed(Atom(SubSeq(r, 1, Atoi(d))), SubSeq(r, Atoi(d) + 1, Len(r)))
  BY <1>1, <1>2, ParseAtomFramed
<1>6. LengthValue(v)[1] \in Digits
  <2>1. Len(d) \in Nat
    BY <1>1, OctetsAre
  <2>2. 1 \in 1..Len(d)
    BY <1>4, <2>1
  <2>3. Framed(d, v)[1] = d[1]
    BY <1>1, <2>2, ColonSplits
  <2>4. d[1] \in Digits
    BY <1>4, <2>2
  <2>5. QED
    BY <1>1, <2>3, <2>4
<1> HIDE DEF s
<1>7. ~(Atoi(d) < 0) /\ ~(Len(r) < Atoi(d))
  BY <1>1, <1>2, <1>3
<1>8. ParseAtom(s) = Parsed(Atom(SubSeq(r, 1, Len(v))), SubSeq(r, Len(v) + 1, Len(r)))
  BY <1>1, <1>5, <1>7
<1>9. QED
  BY <1>1, <1>2, <1>6, <1>8

(* A beginning that is not the whole is a piece.                           *)
LEMMA CutsArePieces ==
  ASSUME NEW c \in Octets, NEW u \in Octets, u # <<>>
  PROVE  /\ Len(c) \in 0..(Len(c \o u) - 1) /\ c = SubSeq(c \o u, 1, Len(c))
         /\ c \o u \in Octets
<1>1. /\ c \o u \in Octets /\ Len(c \o u) = Len(c) + Len(u) /\ c = SubSeq(c \o u, 1, Len(c))
  BY Joins, JoinsSplit
<1>2. Len(c) \in Nat /\ Len(u) \in Nat /\ Len(u) # 0
  <2>1. Len(u) # 0
    BY OctetsEqual, NoOctets
  <2>2. QED
    BY <2>1, OctetsAre
<1>3. Len(c) \in 0..(Len(c \o u) - 1)
  BY <1>1, <1>2
<1>4. QED
  BY <1>1, <1>3

(* Cut off before its end, it is not read.                                 *)
LEMMA ParseAtomCut ==
  ASSUME NEW v \in Octets, NEW c \in Octets, NEW u \in Octets, u # <<>>, c \o u = LengthValue(v)
  PROVE  ParseAtom(c) = Failure
<1> DEFINE d == Decimal[Len(v)]
           n == Len(c)
<1>1. /\ d \in Octets /\ \A i \in 1..Len(d) : d[i] # Colon
      /\ IsNumber(d) /\ Atoi(d) = Len(v)
      /\ LengthValue(v) = Framed(d, v)
      /\ Len(LengthValue(v)) = Len(d) + 1 + Len(v)
  BY LengthValueFrames
<1> HIDE DEF d
<1>2. Len(d) \in Nat /\ Len(v) \in Nat
  BY <1>1, OctetsAre
<1>3. n \in 0..(Len(LengthValue(v)) - 1) /\ c = SubSeq(LengthValue(v), 1, n)
  BY CutsArePieces
<1> HIDE DEF n
<1>4. /\ n \in 0..Len(Framed(d, v)) /\ n \in Nat /\ n < Len(d) + 1 + Len(v)
      /\ c = SubSeq(Framed(d, v), 1, n)
  BY <1>1, <1>2, <1>3
<1>5. /\ n <= Len(d) => IndexByte(SubSeq(Framed(d, v), 1, n), Colon) = 0
      /\ n > Len(d) => SubSeq(Framed(d, v), 1, n) = Framed(d, SubSeq(v, 1, n - (Len(d) + 1)))
  BY <1>1, <1>4, CutsOfFramed
<1>6. CASE n <= Len(d)
  BY <1>4, <1>5, <1>6 DEF ParseAtom
<1>7. CASE n > Len(d)
  <2> DEFINE m == n - (Len(d) + 1)
             r == SubSeq(v, 1, m)
  <2>1. m \in Nat /\ m < Len(v)
    BY <1>2, <1>4, <1>7
  <2>2. c = Framed(d, r)
    BY <1>4, <1>5, <1>7
  <2> HIDE DEF m
  <2>3. r \in Octets /\ Len(r) = m
    <3>1. 1 \in 1..(Len(v) + 1) /\ m \in (1 - 1)..Len(v) /\ (m - 1) + 1 = m
      BY <1>2, <2>1
    <3>2. QED
      BY <3>1, Pieces
  <2> HIDE DEF r
  <2>4. Len(r) < Atoi(d)
    BY <1>1, <2>1, <2>3
  <2>5. QED
    BY <1>1, <2>2, <2>3, <2>4, ParseAtomFramed
<1>8. QED
  BY <1>2, <1>4, <1>6, <1>7

-----------------------------------------------------------------------------
(***************************************************************************)
(* Printed elements.                                                       *)
(***************************************************************************)
\* An element is read as itself and no further, and never from a part of it.
IsRead(e) ==
  /\ String[e] \in Octets /\ String[e] # <<>> /\ String[e][1] \in Digits \union {Open}
  /\ \A s, t \in Octets : IsJoin(s, String[e], t) => Parse[s] = Parsed(e, t)
  /\ \A s, t \in Octets : t # <<>> /\ IsJoin(String[e], s, t) => Parse[s] = Failure

LEMMA OpenAndClose ==
  /\ Open \notin Digits /\ Close \notin Digits /\ Open # Close
  /\ <<Open>> \in Octets /\ <<Close>> \in Octets
  /\ Len(<<Open>>) = 1 /\ Len(<<Close>>) = 1 /\ <<Open>>[1] = Open /\ <<Close>>[1] = Close
<1>1. Open \in Octet /\ Close \in Octet /\ Open # Close /\ Open \notin Digits /\ Close \notin Digits
  BY DEF Octet, Open, Close, Digits
<1>2. QED
  BY <1>1, OneOctet

(* The first octet of a join, and the rest.                                *)
LEMMA JoinsBegin ==
  ASSUME NEW s \in Octets, NEW t \in Octets, s # <<>>
  PROVE  s \o t \in Octets /\ s \o t # <<>> /\ Head(s \o t) = s[1]
<1> DEFINE w == s \o t
<1>1. /\ w \in Octets /\ Len(w) = Len(s) + Len(t)
      /\ \A i \in 1..Len(s) : w[i] = s[i]
  BY Joins
<1>2. Len(s) \in Nat /\ Len(t) \in Nat /\ Len(s) # 0
  <2>1. Len(s) # 0
    BY OctetsEqual, NoOctets
  <2>2. QED
    BY <2>1, OctetsAre
<1> HIDE DEF w
<1>3. Len(w) # 0 /\ 1 \in 1..Len(s)
  BY <1>1, <1>2
<1>4. w # <<>>
  BY <1>3, NoOctets
<1>5. Head(w) = w[1]
  BY <1>1, <1>4, HeadAndTail
<1>6. QED
  BY <1>1, <1>3, <1>4, <1>5 DEF w

LEMMA OctetThenRest ==
  ASSUME NEW c \in Octet, NEW t \in Octets
  PROVE  <<c>> \o t \in Octets /\ <<c>> \o t # <<>> /\ Head(<<c>> \o t) = c /\ Tail(<<c>> \o t) = t
<1> DEFINE s == <<c>>
           w == s \o t
<1>1. s \in Octets /\ Len(s) = 1 /\ s[1] = c
  BY OneOctet
<1> HIDE DEF s
<1>2. s # <<>>
  BY SMTT(30), <1>1, NoOctets
<1>3. w \in Octets /\ w # <<>> /\ Head(w) = c
  BY <1>1, <1>2, JoinsBegin
<1>4. Len(w) = 1 + Len(t) /\ \A i \in 1..Len(t) : w[1 + i] = t[i]
  <2>1. Len(w) = Len(s) + Len(t) /\ \A i \in 1..Len(t) : w[Len(s) + i] = t[i]
    BY <1>1, Joins
  <2>2. QED
    BY <1>1, <2>1
<1> HIDE DEF w
<1>5. Len(t) \in Nat
  BY OctetsAre
<1>6. Tail(w) \in Octets /\ Len(Tail(w)) = Len(w) - 1 /\ \A i \in 1..(Len(w) - 1) : Tail(w)[i] = w[i + 1]
  BY <1>3, HeadAndTail
<1>7. Len(Tail(w)) = Len(t) /\ Len(w) - 1 = Len(t)
  BY <1>4, <1>5, <1>6
<1>8. ASSUME NEW i \in 1..Len(t) PROVE Tail(w)[i] = t[i]
  <2>1. i \in 1..(Len(w) - 1) /\ i + 1 = 1 + i
    BY <1>7
  <2>2. QED
    BY <1>4, <1>6, <2>1
<1>9. Tail(w) = t
  BY <1>6, <1>7, <1>8, OctetsEqual
<1>10. QED
  BY <1>3, <1>9 DEF w, s

(* One round of the loop: an element, and the end.                         *)
LEMMA ElementIsTaken ==
  ASSUME NEW g, NEW q, NEW w \in Octets, w # <<>>, Head(w) # Close
  PROVE  /\ \A e, t : Parse[w] = Parsed(e, t) =>
              ReadElement(Unclosed(g, q, w), Parse) = Unclosed(g, Append(q, e), t)
         /\ Parse[w] = Failure => ReadElement(Unclosed(g, q, w), Parse) = Failure
<1>1. ReadElement(Unclosed(g, q, w), Parse) = AddElement(Unclosed(g, q, w), Parse[w])
  <2> DEFINE list == Unclosed(g, q, w)
  <2>1. list.kind = "unclosed" /\ list.rest = w
    BY KindsOfResults
  <2> HIDE DEF list
  <2>2. ReadElement(list, Parse) = AddElement(list, Parse[w])
    BY <2>1 DEF ReadElement
  <2>3. QED
    BY <2>2 DEF list
<1>2. ASSUME NEW e, NEW t, Parse[w] = Parsed(e, t)
      PROVE  AddElement(Unclosed(g, q, w), Parse[w]) = Unclosed(g, Append(q, e), t)
  <2>1. /\ Parse[w].kind = "parsed" /\ Parse[w].elem = e /\ Parse[w].rest = t
        /\ Unclosed(g, q, w).tag = g /\ Unclosed(g, q, w).elems = q
    BY <1>2, KindsOfResults
  <2>2. QED
    BY <2>1 DEF AddElement
<1>3. ASSUME Parse[w] = Failure PROVE AddElement(Unclosed(g, q, w), Parse[w]) = Failure
  <2>1. Parse[w].kind # "parsed"
    BY <1>3, KindsOfResults
  <2>2. QED
    BY <1>3, <2>1 DEF AddElement
<1>4. QED
  BY <1>1, <1>2, <1>3

LEMMA ListIsClosed ==
  ASSUME NEW g, NEW q, NEW t \in Octets
  PROVE  ReadElement(Unclosed(g, q, <<Close>> \o t), Parse) = Parsed(List(g, q), t)
<1> DEFINE w == <<Close>> \o t
           list == Unclosed(g, q, w)
<1>1. w # <<>> /\ Head(w) = Close /\ Tail(w) = t
  <2>1. Close \in Octet
    BY DEF Close, Octet
  <2>2. QED
    BY <2>1, OctetThenRest
<1> HIDE DEF w
<1>2. list.kind = "unclosed" /\ list.rest = w /\ list.tag = g /\ list.elems = q
  BY KindsOfResults
<1> HIDE DEF list
<1>3. ReadElement(list, Parse) = Parsed(List(g, q), t)
  BY <1>1, <1>2 DEF ReadElement
<1>4. QED
  BY <1>3 DEF list, w

(* A beginning of a sequence and what comes next.                          *)
LEMMA BeginningsGrow ==
  ASSUME NEW S, NEW q \in Seq(S)
  PROVE  /\ SubSeq(q, 1, 0) = <<>> /\ SubSeq(q, 1, Len(q)) = q
         /\ \A i \in 0..(Len(q) - 1) : Append(SubSeq(q, 1, i), q[i + 1]) = SubSeq(q, 1, i + 1)
<1>1. Len(q) \in Nat
  OBVIOUS
<1>2. SubSeq(q, 1, 0) = <<>> /\ SubSeq(q, 1, Len(q)) = q
  OBVIOUS
<1>3. ASSUME NEW i \in 0..(Len(q) - 1) PROVE Append(SubSeq(q, 1, i), q[i + 1]) = SubSeq(q, 1, i + 1)
  BY <1>1
<1>4. QED
  BY <1>2, <1>3

\* a are the strings of the elements in q, and r is what is left of them.
ArePrinted(q, a, r) ==
  /\ q \in Seq(Elements) /\ a \in Seq(Octets) /\ Len(a) = Len(q)
  /\ \A i \in 1..Len(q) : a[i] = String[q[i]] /\ IsRead(q[i])
  /\ AreRemainders(r, a)

\* l is what the loop has when it begins with w behind the tag g.
IsLoopOver(l, n, g, w) ==
  /\ l[0] = Unclosed(g, <<>>, w)
  /\ \A i \in 1..n : l[i] = ReadElement(l[i - 1], Parse)

LEMMA RemaindersAre ==
  ASSUME NEW q, NEW a, NEW r, ArePrinted(q, a, r), NEW w \in Octets, NEW i \in 0..(Len(q) - 1),
         NEW k, IsJoin(k, r[i], w), NEW v, IsJoin(v, r[i + 1], w)
  PROVE  /\ q[i + 1] \in Elements /\ IsRead(q[i + 1]) /\ v \in Octets
         /\ IsJoin(k, String[q[i + 1]], v)
<1>1. Len(q) \in Nat /\ Len(a) = Len(q)
  BY DEF ArePrinted
<1>2. i + 1 \in 1..Len(q) /\ i + 1 \in 1..Len(a) /\ i + 1 \in 0..Len(a) /\ (i + 1) - 1 = i
  BY <1>1
<1>3. r[i] = a[i + 1] \o r[i + 1] /\ r[i + 1] \in Octets
  BY <1>2 DEF ArePrinted, AreRemainders
<1>4. a[i + 1] = String[q[i + 1]] /\ IsRead(q[i + 1])
  BY <1>2 DEF ArePrinted
<1>5. q[i + 1] \in Elements
  BY <1>2, ElementOfSeq DEF ArePrinted
<1>6. String[q[i + 1]] \in Octets
  BY <1>5, StringDef
<1> DEFINE x == String[q[i + 1]]
           y == r[i + 1]
<1>7. r[i] = x \o y /\ x \in Octets /\ y \in Octets
  BY <1>3, <1>4, <1>6
<1> HIDE DEF x, y
<1>8. y \o w \in Octets
  BY <1>7, Joins
<1>9. (x \o y) \o w = x \o (y \o w)
  BY <1>7, JoinsAssociate
<1>10. k = x \o v /\ v \in Octets
  BY <1>7, <1>8, <1>9 DEF y, IsJoin
<1>11. QED
  BY <1>4, <1>5, <1>10 DEF x, IsJoin

(* The elements of a list are read one after the other, then its end.      *)
LEMMA PartsAreTaken ==
  ASSUME NEW q, NEW a, NEW r, ArePrinted(q, a, r), NEW t \in Octets, NEW g,
         NEW w, IsJoin(w, <<Close>>, t), NEW b, IsJoin(b, r[0], w),
         NEW n \in Nat, NEW l, IsLoopOver(l, n, g, b), l[n].kind # "unclosed"
  PROVE  l[n] = Parsed(List(g, q), t)
<1> DEFINE m == Len(q)
           Now(i) == IF i <= m THEN Unclosed(g, SubSeq(q, 1, i), r[i] \o w) ELSE Parsed(List(g, q), t)
           T == {i \in 0..n : l[i] = Now(i)}
<1>1. m \in Nat /\ q \in Seq(Elements)
  BY DEF ArePrinted
<1>2. w = <<Close>> \o t /\ w \in Octets /\ IsLoopOver(l, n, g, r[0] \o w)
  BY OpenAndClose, Joins DEF IsJoin
<1>3. r[m] = <<>>
  BY DEF ArePrinted, AreRemainders
<1>4. /\ SubSeq(q, 1, 0) = <<>> /\ SubSeq(q, 1, m) = q
      /\ \A i \in 0..(m - 1) : Append(SubSeq(q, 1, i), q[i + 1]) = SubSeq(q, 1, i + 1)
  BY <1>1, BeginningsGrow
<1>5. 0 \in T
  <2>1. l[0] = Unclosed(g, <<>>, r[0] \o w) /\ 0 <= m /\ 0 \in 0..n
    BY <1>1, <1>2 DEF IsLoopOver
  <2>2. QED
    BY <1>4, <2>1
<1>6. ASSUME NEW i \in 0..(n - 1), i \in T PROVE i + 1 \in T
  <2>1. i \in Nat /\ i + 1 \in 1..n /\ i + 1 \in 0..n /\ (i + 1) - 1 = i
    OBVIOUS
  <2>2. l[i + 1] = ReadElement(l[i], Parse)
    BY <1>2, <2>1 DEF IsLoopOver
  <2>3. l[i] = Now(i)
    BY <1>6
  <2>4. CASE i < m
    <3>1. i \in 0..(Len(q) - 1) /\ i <= m /\ i + 1 <= m
      BY <1>1, <2>1, <2>4
    <3> DEFINE e == q[i + 1]
               v == r[i + 1] \o w
               k == r[i] \o w
    <3>2. e \in Elements /\ IsRead(e) /\ v \in Octets /\ k = String[e] \o v
      <4>1. IsJoin(k, r[i], w) /\ IsJoin(v, r[i + 1], w)
        BY DEF IsJoin
      <4> HIDE DEF k, v, Now, T, m
      <4>2. q[i + 1] \in Elements /\ IsRead(q[i + 1]) /\ v \in Octets /\ IsJoin(k, String[q[i + 1]], v)
        BY <1>2, <3>1, <4>1, RemaindersAre
      <4>3. QED
        BY <4>2 DEF IsJoin
    <3>3. l[i] = Unclosed(g, SubSeq(q, 1, i), k) /\ Now(i + 1) = Unclosed(g, SubSeq(q, 1, i + 1), v)
      BY <2>3, <3>1
    <3>4. Append(SubSeq(q, 1, i), e) = SubSeq(q, 1, i + 1)
      BY <1>4, <3>1
    <3> HIDE DEF v, k, e, Now
    <3>5. k \in Octets /\ k # <<>> /\ Head(k) # Close
      <4>1. String[e] \in Octets /\ String[e] # <<>> /\ String[e][1] \in Digits \union {Open}
        BY <3>2 DEF IsRead
      <4>2. k \in Octets /\ k # <<>> /\ Head(k) = String[e][1]
        BY <3>2, <4>1, JoinsBegin
      <4>3. QED
        BY <4>1, <4>2, OpenAndClose
    <3>6. Parse[k] = Parsed(e, v)
      <4>1. IsJoin(k, String[e], v)
        BY <3>2 DEF IsJoin
      <4>2. QED
        BY <3>2, <3>5, <4>1 DEF IsRead
    <3>7. ReadElement(l[i], Parse) = Unclosed(g, Append(SubSeq(q, 1, i), e), v)
      BY <3>3, <3>5, <3>6, ElementIsTaken
    <3>8. QED
      BY <2>1, <2>2, <3>3, <3>4, <3>7
  <2>5. CASE i = m
    <3>1. l[i] = Unclosed(g, q, <<>> \o w)
      <4>1. i <= m
        BY <1>1, <2>5
      <4>2. QED
        BY <1>3, <1>4, <2>3, <2>5, <4>1
    <3>2. <<>> \o w = w
      BY <1>2, JoinsNothing
    <3>3. ReadElement(Unclosed(g, q, w), Parse) = Parsed(List(g, q), t)
      BY <1>2, ListIsClosed
    <3>4. Now(i + 1) = Parsed(List(g, q), t)
      <4>1. ~(i + 1 <= m)
        BY <1>1, <2>5
      <4>2. QED
        BY <4>1
    <3>5. QED
      BY <2>1, <2>2, <3>1, <3>2, <3>3, <3>4
  <2>6. CASE i > m
    <3>1. ~(i <= m) /\ ~(i + 1 <= m)
      BY <1>1, <2>1, <2>6
    <3>2. l[i] = Parsed(List(g, q), t) /\ Now(i + 1) = Parsed(List(g, q), t)
      BY <2>3, <3>1
    <3> HIDE DEF Now
    <3>3. ReadElement(l[i], Parse) = l[i]
      <4>1. l[i].kind = "parsed"
        BY <3>2, KindsOfResults
      <4>2. QED
        BY <4>1 DEF ReadElement
    <3>4. QED
      BY <2>1, <2>2, <3>2, <3>3
  <2>7. i < m \/ i = m \/ i > m
    BY <1>1, <2>1
  <2>8. QED
    BY <2>4, <2>5, <2>6, <2>7, Zenon
<1>7. n \in T
  <2> HIDE DEF T
  <2>1. \A i \in 0..n : i \in T
    BY <1>5, <1>6, Steps
  <2>2. n \in 0..n
    OBVIOUS
  <2>3. QED
    BY <2>1, <2>2
<1>8. Unclosed(g, SubSeq(q, 1, n), r[n] \o w).kind = "unclosed"
  BY KindsOfResults
<1>9. QED
  BY <1>7, <1>8

\* What the loop has in the middle of a list that is cut off before u.
IsCutAt(x, g, i, q, r, u) ==
  /\ i <= Len(q)
  /\ \E p, d : /\ x = Unclosed(g, p, d) /\ d \in Octets
               /\ \E s : IsJoin(s, d, u) /\ IsJoin(s, r[i], <<Close>>)

LEMMA CutGoesOn ==
  ASSUME NEW q, NEW a, NEW r, ArePrinted(q, a, r), NEW u \in Octets, u # <<>>, NEW g,
         NEW i \in Nat, NEW x, IsCutAt(x, g, i, q, r, u)
  PROVE  \/ ReadElement(x, Parse) = Failure
         \/ IsCutAt(ReadElement(x, Parse), g, i + 1, q, r, u)
<1> DEFINE w == <<Close>>
<1>1. PICK p, d, s : x = Unclosed(g, p, d) /\ d \in Octets /\ IsJoin(s, d, u) /\ IsJoin(s, r[i], w)
  BY DEF IsCutAt
<1>2. w \in Octets /\ Len(w) = 1
  BY OpenAndClose
<1>3. i <= Len(q) /\ Len(q) \in Nat
  BY DEF IsCutAt, ArePrinted
<1>4. CASE d = <<>>
  <2>1. x.kind = "unclosed" /\ x.rest = <<>>
    BY <1>1, <1>4, KindsOfResults
  <2>2. QED
    BY <2>1 DEF ReadElement
<1>5. ASSUME i = Len(q) PROVE d = <<>>
  <2>1. r[i] = <<>>
    BY <1>5 DEF ArePrinted, AreRemainders
  <2>2. s = w
    <3>1. s = <<>> \o w
      BY <1>1, <2>1 DEF IsJoin
    <3>2. QED
      BY <1>2, <3>1, JoinsNothing
  <2>3. Len(s) = Len(d) + Len(u)
    <3>1. s = d \o u
      BY <1>1 DEF IsJoin
    <3>2. QED
      BY <1>1, <3>1, Joins
  <2>4. Len(d) \in Nat /\ Len(u) \in Nat /\ Len(u) # 0
    <3>1. Len(u) # 0
      BY OctetsEqual, NoOctets
    <3>2. QED
      BY <1>1, <3>1, OctetsAre
  <2>5. Len(d) = 0
    BY <1>2, <2>2, <2>3, <2>4
  <2>6. QED
    BY <1>1, <2>5, OctetsEqual, NoOctets
<1>6. CASE d # <<>>
  <2>1. i \in 0..(Len(q) - 1) /\ i + 1 <= Len(q)
    BY <1>3, <1>5, <1>6
  <2> DEFINE e == q[i + 1]
             v == r[i + 1] \o w
  <2>2. e \in Elements /\ IsRead(e) /\ v \in Octets /\ IsJoin(s, String[e], v)
    <3>1. IsJoin(v, r[i + 1], w)
      BY DEF IsJoin
    <3> HIDE DEF w, v
    <3>2. QED
      BY <1>1, <1>2, <2>1, <3>1, RemaindersAre
  <2>3. IsJoin(v, r[i + 1], w)
    BY DEF IsJoin
  <2> HIDE DEF e, v, w
  <2>4. String[e] \in Octets /\ String[e] # <<>> /\ String[e][1] \in Digits \union {Open}
    BY <2>2 DEF IsRead
  <2>5. CASE \E y \in Octets : IsJoin(d, String[e], y) /\ IsJoin(v, y, u)
    <3>1. PICK y \in Octets : IsJoin(d, String[e], y) /\ IsJoin(v, y, u)
      BY <2>5
    <3>2. Head(d) # Close
      <4>1. d = String[e] \o y
        BY <3>1 DEF IsJoin
      <4>2. Head(d) = String[e][1]
        BY <2>4, <4>1, JoinsBegin
      <4>3. QED
        BY <2>4, <4>2, OpenAndClose
    <3>3. Parse[d] = Parsed(e, y)
      BY <1>1, <2>2, <3>1 DEF IsRead
    <3>4. ReadElement(x, Parse) = Unclosed(g, Append(p, e), y)
      BY <1>1, <1>6, <3>2, <3>3, ElementIsTaken
    <3>5. IsCutAt(ReadElement(x, Parse), g, i + 1, q, r, u)
      BY <2>1, <2>3, <3>1, <3>4 DEF IsCutAt, w
    <3>6. QED
      BY <3>5
  <2>6. CASE \E y \in Octets : y # <<>> /\ IsJoin(String[e], d, y) /\ IsJoin(u, y, v)
    <3>1. PICK y \in Octets : y # <<>> /\ IsJoin(String[e], d, y)
      BY <2>6
    <3>2. Head(d) # Close
      <4> DEFINE k == String[e]
      <4>1. k = d \o y
        BY <3>1 DEF IsJoin
      <4>2. Head(d \o y) = d[1] /\ d \o y \in Octets /\ d \o y # <<>> /\ Head(d) = d[1]
        BY <1>1, <1>6, JoinsBegin, HeadAndTail
      <4>3. Head(k) = k[1] /\ k[1] \in Digits \union {Open}
        BY <2>4, HeadAndTail
      <4> HIDE DEF k
      <4>4. Head(d) = k[1]
        BY <4>1, <4>2, <4>3
      <4>5. QED
        BY <4>3, <4>4, OpenAndClose
    <3>3. Parse[d] = Failure
      BY <1>1, <2>2, <3>1 DEF IsRead
    <3>4. ReadElement(x, Parse) = Failure
      BY <1>1, <1>6, <3>2, <3>3, ElementIsTaken
    <3>5. QED
      BY <3>4
  <2>7. QED
    BY <1>1, <2>2, <2>4, <2>5, <2>6, CutsMeet
<1>7. QED
  BY <1>4, <1>6

(* A list that is cut off is never closed.                                 *)
LEMMA CutStays ==
  ASSUME NEW q, NEW a, NEW r, ArePrinted(q, a, r), NEW u \in Octets, u # <<>>, NEW g,
         NEW n \in Nat, NEW c \in Octets, NEW s, IsJoin(s, c, u), IsJoin(s, r[0], <<Close>>),
         NEW l, IsLoopOver(l, n, g, c), NEW j \in 0..n
  PROVE  l[j] = Failure \/ IsCutAt(l[j], g, j, q, r, u)
<1> DEFINE T == {i \in 0..n : l[i] = Failure \/ IsCutAt(l[i], g, i, q, r, u)}
<1>1. 0 \in T
  <2>1. l[0] = Unclosed(g, <<>>, c) /\ 0 \in 0..n
    BY DEF IsLoopOver
  <2>2. 0 <= Len(q)
    BY DEF ArePrinted
  <2>3. IsCutAt(l[0], g, 0, q, r, u)
    BY <2>1, <2>2 DEF IsCutAt
  <2>4. QED
    BY <2>1, <2>3
<1>2. ASSUME NEW i \in 0..(n - 1), i \in T PROVE i + 1 \in T
  <2>1. i \in Nat /\ i + 1 \in 1..n /\ i + 1 \in 0..n /\ (i + 1) - 1 = i
    OBVIOUS
  <2>2. l[i + 1] = ReadElement(l[i], Parse)
    BY <2>1 DEF IsLoopOver
  <2>3. CASE l[i] = Failure
    <3>1. ReadElement(l[i], Parse) = Failure
      BY <2>3, KindsOfResults DEF ReadElement
    <3>2. QED
      BY <2>1, <2>2, <3>1
  <2>4. CASE IsCutAt(l[i], g, i, q, r, u)
    <3>1. \/ ReadElement(l[i], Parse) = Failure
          \/ IsCutAt(ReadElement(l[i], Parse), g, i + 1, q, r, u)
      BY <2>1, <2>4, CutGoesOn
    <3>2. QED
      BY <2>1, <2>2, <3>1
  <2>5. QED
    BY <1>2, <2>3, <2>4
<1>3. j \in T
  <2> HIDE DEF T
  <2>1. \A i \in 0..n : i \in T
    BY <1>1, <1>2, Steps
  <2>2. QED
    BY <2>1
<1>4. QED
  BY <1>3

(* What the parser makes of a parenthesis that opens and what follows.     *)
LEMMA ParseOpened ==
  ASSUME NEW d \in Octets, NEW c, IsJoin(c, <<Open>>, d)
  PROVE  /\ c \in Octets
         /\ ParseAtom(d) = Failure => Parse[c] = Failure
         /\ \A g, w : ParseAtom(d) = Parsed(Atom(g), w) =>
              /\ Parse[c].kind # "unclosed"
              /\ \E l : \E n \in Nat : IsLoopOver(l, n, g, w) /\ Parse[c] = l[n]
<1> DEFINE tag == ParseAtom(d)
<1>1. c \in Octets /\ c # <<>> /\ Head(c) = Open /\ Tail(c) = d
  <2>1. Open \in Octet
    BY DEF Open, Octet
  <2>2. c = <<Open>> \o d
    BY DEF IsJoin
  <2>3. QED
    BY <2>1, <2>2, OctetThenRest
<1>2. Parse[c] = ParseList(c, Parse) /\ Ends(Parse[c], Len(c))
  BY <1>1, ParserEnds DEF ParseOf
<1>3. Parse[c] = IF tag.kind = "parsed"
                 THEN ReadElements(Unclosed(tag.elem.value, <<>>, tag.rest), Len(c), Parse)[Len(c)]
                 ELSE tag
  BY <1>1, <1>2 DEF ParseList
<1>4. ASSUME tag = Failure PROVE Parse[c] = Failure
  <2>1. tag.kind # "parsed"
    BY <1>4, KindsOfResults
  <2> HIDE DEF tag
  <2>2. QED
    BY <1>3, <1>4, <2>1
<1>5. ASSUME NEW g, NEW w, tag = Parsed(Atom(g), w)
      PROVE  /\ Parse[c].kind # "unclosed"
             /\ \E l : \E n \in Nat : IsLoopOver(l, n, g, w) /\ Parse[c] = l[n]
  <2> DEFINE n == Len(c)
             list == Unclosed(g, <<>>, w)
             l == ReadElements(list, n, Parse)
  <2>1. tag.kind = "parsed" /\ tag.elem.value = g /\ tag.rest = w
    <3>1. Atom(g).value = g
      BY DEF Atom
    <3> HIDE DEF tag
    <3>2. QED
      BY <1>5, <3>1, KindsOfResults
  <2> HIDE DEF tag
  <2>2. Parse[c] = l[n]
    BY <1>3, <2>1
  <2>3. n \in Nat
    BY <1>1, OctetsAre
  <2>4. IsLoopOver(l, n, g, w)
    <3> HIDE DEF n
    <3>1. l[0] = list /\ \A i \in 1..n : l[i] = ReadElement(l[i - 1], Parse)
      BY <2>3, ReadElementsLoop
    <3>2. QED
      BY <3>1 DEF IsLoopOver
  <2>5. Parse[c].kind # "unclosed"
    BY <1>2 DEF Ends
  <2> HIDE DEF l, n
  <2>6. QED
    BY <2>2, <2>3, <2>4, <2>5
<1>6. QED
  BY <1>1, <1>4, <1>5

LEMMA JoinedOctets ==
  ASSUME NEW t \in Octets, NEW u \in Octets, NEW s, IsJoin(s, t, u)
  PROVE  /\ s \in Octets /\ Len(s) = Len(t) + Len(u) /\ Len(t) \in Nat /\ Len(u) \in Nat
         /\ \A i \in 1..Len(t) : s[i] = t[i]
         /\ \A i \in 1..Len(u) : s[Len(t) + i] = u[i]
<1>1. s = t \o u
  BY DEF IsJoin
<1>2. /\ t \o u \in Octets /\ Len(t \o u) = Len(t) + Len(u)
      /\ \A i \in 1..Len(t) : (t \o u)[i] = t[i]
      /\ \A i \in 1..Len(u) : (t \o u)[Len(t) + i] = u[i]
  BY Joins
<1>3. QED
  BY <1>1, <1>2, OctetsAre

(* Two joins, regrouped.                                                   *)
LEMMA JoinsRegroup ==
  ASSUME NEW o \in Octets, NEW y \in Octets, NEW t \in Octets, NEW x, IsJoin(x, o, y),
         NEW s, IsJoin(s, x, t)
  PROVE  \E d \in Octets : IsJoin(d, y, t) /\ IsJoin(s, o, d)
<1>1. s = (o \o y) \o t
  BY DEF IsJoin
<1>2. (o \o y) \o t = o \o (y \o t)
  BY JoinsAssociate
<1>3. y \o t \in Octets
  BY Joins
<1>4. IsJoin(y \o t, y, t) /\ IsJoin(s, o, y \o t)
  BY <1>1, <1>2 DEF IsJoin
<1>5. QED
  BY <1>3, <1>4

(* A list is read, if its parts are.                                       *)
LEMMA ListIsRead ==
  ASSUME NEW e \in Elements, e.kind = "list", e = List(e.tag, Parts(e)), e.tag \in Octets,
         \A i \in 1..Len(Parts(e)) : IsRead(Parts(e)[i])
  PROVE  IsRead(e)
<1> DEFINE g == e.tag
           q == Parts(e)
           a == PartStrings(String, e)
           x == String[e]
           o == <<Open>>
           v == LengthValue(g)
           w == <<Close>>
<1>1. a \in Seq(Octets) /\ Len(a) = Len(q) /\ \A i \in 1..Len(q) : a[i] = String[q[i]]
  <2>1. \A i \in 1..Len(Parts(e)) : String[Parts(e)[i]] \in Octets
    BY DEF IsRead
  <2>2. QED
    BY <2>1, PartStringsAreOctets
<1>2. PICK r : AreRemainders(r, a) /\ r[0] = Concat(a)
  <2> HIDE DEF a
  <2>1. QED
    BY <1>1, RemaindersExist
<1>3. ArePrinted(q, a, r)
  <2>1. q \in Seq(Elements)
    BY PartsAreElements
  <2>2. QED
    BY <1>1, <1>2, <2>1 DEF ArePrinted
<1> DEFINE z == r[0] \o w
           y == v \o z
<1>4. x = o \o y /\ x \in Octets /\ v \in Octets /\ r[0] \in Octets /\ o \in Octets /\ w \in Octets
  <2>1. x = Printed(e, a) /\ x \in Octets
    BY StringDef
  <2>2. Printed(e, a) = ListString(g, a)
    BY DEF Printed
  <2>3. /\ ListString(g, a) = o \o (v \o (Concat(a) \o w))
        /\ v \in Octets /\ Concat(a) \in Octets /\ o \in Octets /\ w \in Octets
    BY <1>1, ListStringIsOctets
  <2> HIDE DEF x, a, v, o, w
  <2>4. QED
    BY <1>2, <2>1, <2>2, <2>3
<1> HIDE DEF x, a, q
<1>5. z \in Octets /\ y \in Octets
  <2> HIDE DEF v, w
  <2>1. z \in Octets
    BY <1>4, Joins
  <2> HIDE DEF z
  <2>2. QED
    BY <1>4, <2>1, Joins
<1>6. IsJoin(x, o, y) /\ IsJoin(y, v, z) /\ IsJoin(z, r[0], w)
  BY <1>4 DEF IsJoin
<1> HIDE DEF z, y
<1>7. x # <<>> /\ x[1] = Open
  <2>1. Open \in Octet
    BY DEF Open, Octet
  <2>2. x # <<>> /\ Head(x) = Open
    BY <1>4, <1>5, <2>1, OctetThenRest
  <2>3. QED
    BY <1>4, <2>2, HeadAndTail
<1>8. ASSUME NEW s \in Octets, NEW t \in Octets, IsJoin(s, x, t) PROVE Parse[s] = Parsed(e, t)
  <2> HIDE DEF o, v, w
  <2>1. PICK d \in Octets : IsJoin(d, y, t) /\ IsJoin(s, o, d)
    BY <1>4, <1>5, <1>6, <1>8, JoinsRegroup
  <2>2. PICK b \in Octets : IsJoin(b, z, t) /\ IsJoin(d, v, b)
    BY <1>4, <1>5, <1>6, <1>8, <2>1, JoinsRegroup
  <2>3. PICK u \in Octets : IsJoin(u, w, t) /\ IsJoin(b, r[0], u)
    BY <1>4, <1>6, <1>8, <2>2, JoinsRegroup
  <2>4. ParseAtom(d) = Parsed(Atom(g), b)
    <3>1. d = LengthValue(g) \o b
      BY <2>2 DEF IsJoin, v
    <3> HIDE DEF g
    <3>2. ParseAtom(LengthValue(g) \o b) = Parsed(Atom(g), b)
      BY <2>2, ParseAtomExact DEF g
    <3>3. QED
      BY <3>1, <3>2
  <2> HIDE DEF g
  <2>5. Parse[s].kind # "unclosed" /\ \E l : \E n \in Nat : IsLoopOver(l, n, g, b) /\ Parse[s] = l[n]
    BY <2>1, <2>4, ParseOpened DEF o
  <2>6. PICK l, n : n \in Nat /\ IsLoopOver(l, n, g, b) /\ Parse[s] = l[n]
    BY <2>5
  <2>7. IsJoin(u, <<Close>>, t)
    BY <2>3 DEF w
  <2>8. Parse[s] = Parsed(List(g, q), t)
    BY <1>3, <1>8, <2>3, <2>5, <2>6, <2>7, PartsAreTaken
  <2>9. QED
    BY <2>8 DEF g, q
<1>9. ASSUME NEW c \in Octets, NEW u \in Octets, u # <<>>, IsJoin(x, c, u) PROVE Parse[c] = Failure
  <2>1. CASE c = <<>>
    BY <2>1, ParserEnds DEF ParseOf
  <2>2. CASE \E d \in Octets : IsJoin(c, o, d) /\ IsJoin(y, d, u)
    <3>1. PICK d \in Octets : IsJoin(c, o, d) /\ IsJoin(y, d, u)
      BY <2>2
    <3>2. CASE \E b \in Octets : IsJoin(d, v, b) /\ IsJoin(z, b, u)
      <4>1. PICK b \in Octets : IsJoin(d, v, b) /\ IsJoin(z, b, u)
        BY <3>2
      <4>2. ParseAtom(d) = Parsed(Atom(g), b)
        <5>1. d = LengthValue(g) \o b
          BY <4>1 DEF IsJoin
        <5> HIDE DEF g
        <5>2. ParseAtom(LengthValue(g) \o b) = Parsed(Atom(g), b)
          BY ParseAtomExact DEF g
        <5>3. QED
          BY <5>1, <5>2
      <4> HIDE DEF g
      <4>3. Parse[c].kind # "unclosed" /\ \E l : \E n \in Nat : IsLoopOver(l, n, g, b) /\ Parse[c] = l[n]
        BY <3>1, <4>2, ParseOpened
      <4>4. PICK l, n : n \in Nat /\ IsLoopOver(l, n, g, b) /\ Parse[c] = l[n]
        BY <4>3
      <4>5. n \in 0..n
        BY <4>4
      <4>6. l[n] = Failure \/ IsCutAt(l[n], g, n, q, r, u)
        BY <1>3, <1>6, <1>9, <4>1, <4>4, <4>5, CutStays
      <4>7. IsCutAt(l[n], g, n, q, r, u) => l[n].kind = "unclosed"
        BY KindsOfResults DEF IsCutAt
      <4>8. QED
        BY <4>3, <4>4, <4>6, <4>7
    <3>3. CASE \E b \in Octets : b # <<>> /\ IsJoin(v, d, b) /\ IsJoin(u, b, z)
      <4>1. PICK b \in Octets : b # <<>> /\ IsJoin(v, d, b)
        BY <3>3
      <4>2. d \o b = LengthValue(g)
        BY <4>1 DEF IsJoin
      <4>3. ParseAtom(d) = Failure
        <5> HIDE DEF g
        <5>1. g \in Octets
          BY DEF g
        <5>2. QED
          BY <4>1, <4>2, <5>1, ParseAtomCut
      <4>4. QED
        BY <3>1, <4>3, ParseOpened
    <3> HIDE DEF v
    <3>4. QED
      BY <1>4, <1>5, <1>6, <3>1, <3>2, <3>3, CutsMeet
  <2>3. CASE c # <<>> /\ \E d \in Octets : d # <<>> /\ IsJoin(o, c, d) /\ IsJoin(u, d, y)
    <3>1. PICK d \in Octets : d # <<>> /\ IsJoin(o, c, d)
      BY <2>3
    <3>2. Len(o) = Len(c) + Len(d)
      <4>1. o = c \o d
        BY <3>1 DEF IsJoin
      <4> HIDE DEF o
      <4>2. QED
        BY <4>1, Joins
    <3>3. Len(o) = 1
      BY OpenAndClose
    <3>4. Len(c) # 0 /\ Len(d) # 0 /\ Len(c) \in Nat /\ Len(d) \in Nat
      BY <2>3, <3>1, OctetsEqual, NoOctets, OctetsAre
    <3>5. QED
      BY <3>2, <3>3, <3>4
  <2> HIDE DEF o
  <2>4. QED
    BY <1>4, <1>5, <1>6, <1>9, <2>1, <2>2, <2>3, CutsMeet
<1>10. QED
  BY <1>4, <1>7, <1>8, <1>9 DEF IsRead, x

(* An atom is read.                                                        *)
LEMMA AtomIsRead ==
  ASSUME NEW e \in Elements, e.kind = "atom", e = Atom(e.value), e.value \in Octets
  PROVE  IsRead(e)
<1> DEFINE v == e.value
           x == LengthValue(v)
<1>1. String[e] = x
  BY StringDef DEF Printed
<1>2. x \in Octets /\ x # <<>> /\ x[1] \in Digits
  <2> HIDE DEF v
  <2>1. v \in Octets /\ <<>> \in Octets
    BY NoOctets DEF v
  <2>2. x \in Octets /\ Len(x) >= 2 /\ x[1] \in Digits
    BY <2>1, LengthValueFrames, ParseAtomExact
  <2>3. QED
    BY <2>2, NoOctets
<1>3. \A c \in Octets : c # <<>> /\ Head(c) \in Digits => Parse[c] = ParseAtom(c)
  <2>1. ASSUME NEW c \in Octets, c # <<>>, Head(c) \in Digits PROVE Parse[c] = ParseAtom(c)
    <3>1. Head(c) # Open
      BY <2>1, OpenAndClose
    <3>2. Parse[c] = ParseOf(Parse, c)
      BY ParserEnds
    <3>3. QED
      BY <2>1, <3>1, <3>2 DEF ParseOf
  <2>2. QED
    BY <2>1
<1>4. ASSUME NEW s \in Octets, NEW t \in Octets, IsJoin(s, x, t) PROVE Parse[s] = Parsed(e, t)
  <2>1. s = x \o t
    BY <1>4 DEF IsJoin
  <2>2. ParseAtom(x \o t) = Parsed(Atom(v), t)
    BY ParseAtomExact
  <2> HIDE DEF x, v
  <2>3. s # <<>> /\ Head(s) \in Digits
    BY <1>2, <2>1, JoinsBegin
  <2>4. Parse[s] = Parsed(Atom(v), t)
    BY <1>3, <2>1, <2>2, <2>3
  <2>5. QED
    BY <2>4 DEF v
<1>5. ASSUME NEW s \in Octets, NEW t \in Octets, t # <<>>, IsJoin(x, s, t) PROVE Parse[s] = Failure
  <2>1. CASE s = <<>>
    BY <2>1, ParserEnds DEF ParseOf
  <2>2. CASE s # <<>>
    <3>1. s \o t = x
      BY <1>5 DEF IsJoin
    <3> HIDE DEF v
    <3>2. ParseAtom(s) = Failure
      <4>1. v \in Octets
        BY DEF v
      <4>2. s \o t = LengthValue(v)
        BY <3>1
      <4>3. QED
        BY <1>5, <4>1, <4>2, ParseAtomCut
    <3> HIDE DEF x
    <3>3. Head(s) = x[1]
      <4>1. Head(s \o t) = s[1] /\ Head(s) = s[1]
        BY <2>2, JoinsBegin, HeadAndTail
      <4>2. Head(x) = x[1]
        BY <1>2, HeadAndTail
      <4>3. QED
        BY <3>1, <4>1, <4>2
    <3>4. QED
      BY <1>2, <1>3, <2>2, <3>2, <3>3
  <2>3. QED
    BY <2>1, <2>2
<1> HIDE DEF x
<1>6. QED
  BY <1>1, <1>2, <1>4, <1>5 DEF IsRead

(* What is printed of an element without star forms is read as the element *)
(* and no further, whatever follows, and no part of it as anything.        *)
THEOREM PrintedElementsAreRead ==
  ASSUME NEW e \in Elements, ~HasStarForm[e]
  PROVE  IsRead(e)
<1> DEFINE T == {n \in Nat : \A x \in Elements : SizeOf(x) = n /\ ~HasStarForm[x] => IsRead(x)}
<1>1. ASSUME NEW n \in Nat, \A m \in 0..(n - 1) : m \in T PROVE n \in T
  <2>1. ASSUME NEW x \in Elements, SizeOf(x) = n, ~HasStarForm[x] PROVE IsRead(x)
    <3>1. CASE x.kind = "atom" /\ x = Atom(x.value) /\ x.value \in Octets
      BY <3>1, AtomIsRead
    <3>2. CASE x.kind = "list" /\ x = List(x.tag, Parts(x)) /\ x.tag \in Octets
      <4>1. ASSUME NEW i \in 1..Len(Parts(x)) PROVE IsRead(Parts(x)[i])
        <5> DEFINE y == Parts(x)[i]
        <5>1. y \in Elements /\ SizeOf(y) \in Nat /\ SizeOf(y) < n
          BY <2>1, PartsAreElements
        <5>2. ~HasStarForm[y]
          BY <2>1, <3>2, PlainParts
        <5> HIDE DEF y
        <5>3. SizeOf(y) \in 0..(n - 1)
          BY <5>1
        <5>4. SizeOf(y) \in T
          BY <1>1, <5>3
        <5>5. IsRead(y)
          BY <5>1, <5>2, <5>4
        <5>6. QED
          BY <5>5 DEF y
      <4>2. QED
        BY <3>2, <4>1, ListIsRead
    <3>3. QED
      BY <2>1, <3>1, <3>2, PlainParts
  <2>2. QED
    BY <2>1
<1>2. SizeOf(e) \in T
  <2>1. SizeOf(e) \in Nat
    BY KindsOfElements
  <2> HIDE DEF T
  <2>2. \A n \in Nat : n \in T
    BY <1>1, Strong
  <2>3. QED
    BY <2>1, <2>2
<1>3. QED
  BY <1>2

(***************************************************************************)
(* The rules of the last save.                                             *)
(***************************************************************************)
SavedElements == rules \in Seq(Elements)

(* What is saved is elements.                                              *)
THEOREM SavedElementsHolds == Spec => []SavedElements
<1>1. Init => SavedElements
  BY DEF Init, SavedElements
<1>2. SavedElements /\ [Next]_vars => SavedElements'
  BY RulesAreElements DEF Next, Create, Write, BreakOff, vars, SavedElements
<1>3. QED
  BY <1>1, <1>2, PTL DEF Spec

(* A string and an octet behind it; and a string without its end.          *)
LEMMA AppendIsJoin ==
  ASSUME NEW s \in Octets, NEW c \in Octet
  PROVE  Append(s, c) \in Octets /\ IsJoin(Append(s, c), s, <<c>>)
<1>1. Append(s, c) = s \o <<c>>
  BY AppendProperties DEF Octets
<1>2. QED
  BY <1>1, OneOctet, Joins DEF IsJoin

LEMMA CutIsJoin ==
  ASSUME NEW s \in Octets, NEW n \in 0..(Len(s) - 1)
  PROVE  /\ SubSeq(s, 1, n) \in Octets
         /\ \E t \in Octets : t # <<>> /\ IsJoin(s, SubSeq(s, 1, n), t)
<1> DEFINE a == SubSeq(s, 1, n)
           b == Rest(s, n)
           u == a \o b
<1>1. Len(s) \in Nat /\ n \in Nat /\ n \in 0..Len(s)
  BY OctetsAre
<1>2. a \in Octets /\ Len(a) = n /\ \A i \in 1..n : a[i] = s[i]
  <2>1. 1 \in 1..(Len(s) + 1) /\ n \in (1 - 1)..Len(s) /\ (n - 1) + 1 = n
    BY <1>1
  <2>2. /\ a \in Octets /\ Len(a) = (n - 1) + 1
        /\ \A i \in 1..((n - 1) + 1) : a[i] = s[(1 + i) - 1]
    BY <2>1, Pieces
  <2> HIDE DEF a
  <2>3. QED
    BY <1>1, <2>1, <2>2
<1>3. b \in Octets /\ Len(b) = Len(s) - n /\ \A i \in 1..(Len(s) - n) : b[i] = s[n + i]
  BY <1>1, RestIs
<1> HIDE DEF a, b
<1>4. /\ u \in Octets /\ Len(u) = Len(a) + Len(b)
      /\ \A i \in 1..Len(a) : u[i] = a[i]
      /\ \A i \in 1..Len(b) : u[Len(a) + i] = b[i]
  BY <1>2, <1>3, Joins
<1> HIDE DEF u
<1>5. Len(u) = Len(s)
  BY <1>1, <1>2, <1>3, <1>4
<1>6. ASSUME NEW i \in 1..Len(s) PROVE u[i] = s[i]
  <2>1. CASE i <= n
    BY <1>1, <1>2, <1>4, <2>1
  <2>2. CASE i > n
    <3>1. i - n \in 1..(Len(s) - n) /\ n + (i - n) = i
      BY <1>1, <2>2
    <3>2. u[n + (i - n)] = b[i - n] /\ b[i - n] = s[n + (i - n)]
      BY <1>2, <1>3, <1>4, <3>1
    <3>3. QED
      BY <3>1, <3>2
  <2>3. QED
    BY <1>1, <2>1, <2>2
<1>7. u = s
  BY <1>4, <1>5, <1>6, OctetsEqual
<1>8. b # <<>>
  BY <1>1, <1>3, NoOctets
<1>9. QED
  BY <1>2, <1>3, <1>7, <1>8 DEF IsJoin, u, a

(* A printed rule without star forms is read back as itself and no         *)
(* further, and from a part of it nothing is.                              *)
THEOREM PrintedRulesAreExactHolds == Spec => []PrintedRulesAreExact
<1>1. ASSUME SavedElements PROVE PrintedRulesAreExact
  <2>1. ASSUME NEW i \in DOMAIN rules, ~HasStarForm[rules[i]]
        PROVE  LET text == String[rules[i]]
               IN  /\ Parse[text] = Parsed(rules[i], <<>>)
                   /\ \A c \in {Close, 48, 97} : Parse[Append(text, c)] = Parsed(rules[i], <<c>>)
                   /\ \A n \in 0..(Len(text) - 1) : Parse[SubSeq(text, 1, n)].kind = "failure"
    <3> DEFINE e == rules[i]
               text == String[e]
    <3>1. e \in Elements
      BY <1>1 DEF SavedElements
    <3>2. IsRead(e)
      BY <2>1, <3>1, PrintedElementsAreRead
    <3> HIDE DEF e
    <3>3. /\ text \in Octets
          /\ \A s, t \in Octets : IsJoin(s, text, t) => Parse[s] = Parsed(e, t)
          /\ \A s, t \in Octets : t # <<>> /\ IsJoin(text, s, t) => Parse[s] = Failure
      BY <3>2 DEF IsRead
    <3> HIDE DEF text
    <3>4. Parse[text] = Parsed(e, <<>>)
      <4>1. <<>> \in Octets /\ IsJoin(text, text, <<>>)
        BY <3>3, NoOctets, JoinsNothing DEF IsJoin
      <4>2. QED
        BY <3>3, <4>1
    <3>5. ASSUME NEW c \in {Close, 48, 97} PROVE Parse[Append(text, c)] = Parsed(e, <<c>>)
      <4>1. c \in Octet
        BY DEF Octet, Close
      <4>2. <<c>> \in Octets /\ Append(text, c) \in Octets /\ IsJoin(Append(text, c), text, <<c>>)
        BY <3>3, <4>1, OneOctet, AppendIsJoin
      <4>3. QED
        BY <3>3, <4>2
    <3>6. ASSUME NEW n \in 0..(Len(text) - 1) PROVE Parse[SubSeq(text, 1, n)].kind = "failure"
      <4>1. /\ SubSeq(text, 1, n) \in Octets
            /\ \E t \in Octets : t # <<>> /\ IsJoin(text, SubSeq(text, 1, n), t)
        BY <3>3, CutIsJoin
      <4>2. Parse[SubSeq(text, 1, n)] = Failure
        BY <3>3, <4>1
      <4>3. QED
        BY <4>2, KindsOfResults
    <3>7. QED
      BY <3>4, <3>5, <3>6 DEF e, text
  <2>2. QED
    BY <2>1 DEF PrintedRulesAreExact
<1>2. QED
  BY <1>1, SavedElementsHolds, PTL

-----------------------------------------------------------------------------
(***************************************************************************)
(* Binary files.                                                           *)
(***************************************************************************)
(* The number is read from the four octets that are written of it.         *)
LEMMA Uint32IsRead ==
  ASSUME NEW n \in Nat, FitsUint32(n)
  PROVE  /\ Uint32(n) \in Octets /\ Len(Uint32(n)) = 4
         /\ \A s : (\A i \in 1..4 : s[i] = Uint32(n)[i]) => ReadUint32(s) = n
<1> DEFINE a == n % 256
           b == (n \div 256) % 256
           c == (n \div 65536) % 256
           d == n \div 16777216
<1>1. a \in Octet /\ b \in Octet /\ c \in Octet /\ d \in Octet
  BY DEF Octet, FitsUint32
<1>2. a + (256 * b) + (65536 * c) + (16777216 * d) = n
  OBVIOUS
<1>3. Uint32(n) = <<a, b, c, d>>
  BY DEF Uint32
<1> HIDE DEF a, b, c, d
<1>4. Uint32(n) \in Octets /\ Len(Uint32(n)) = 4
  BY <1>1, <1>3 DEF Octets
<1>5. ASSUME NEW s, \A i \in 1..4 : s[i] = Uint32(n)[i] PROVE ReadUint32(s) = n
  <2>1. s[1] = a /\ s[2] = b /\ s[3] = c /\ s[4] = d
    BY <1>3, <1>5
  <2>2. QED
    BY <1>2, <2>1 DEF ReadUint32
<1>6. QED
  BY <1>4, <1>5

\* A rule that fits and is read from what is printed of it.
IsSaved(e) == IsRead(e) /\ FitsUint32(Len(String[e]))

(* What is written of a rule.                                              *)
LEMMA SerializedRule ==
  ASSUME NEW e, IsSaved(e)
  PROVE  /\ SerializeRule(e) \in Octets /\ Len(SerializeRule(e)) = 4 + Len(String[e])
         /\ Len(String[e]) \in Nat
         /\ \A i \in 1..4 : SerializeRule(e)[i] = Uint32(Len(String[e]))[i]
         /\ \A i \in 1..Len(String[e]) : SerializeRule(e)[4 + i] = String[e][i]
<1> DEFINE text == String[e]
           n == Len(text)
           head == Uint32(n)
<1>1. text \in Octets /\ n \in Nat /\ FitsUint32(n)
  BY OctetsAre DEF IsSaved, IsRead
<1>2. SerializeRule(e) = head \o text
  BY DEF SerializeRule
<1> HIDE DEF text
<1>3. head \in Octets /\ Len(head) = 4
  BY <1>1, Uint32IsRead
<1> HIDE DEF head
<1>4. /\ head \o text \in Octets /\ Len(head \o text) = Len(head) + Len(text)
      /\ \A i \in 1..Len(head) : (head \o text)[i] = head[i]
      /\ \A i \in 1..Len(text) : (head \o text)[Len(head) + i] = text[i]
  BY <1>1, <1>3, Joins
<1>5. QED
  BY <1>1, <1>2, <1>3, <1>4 DEF text, head

(* A rule is read back, and what follows it is left.                       *)
LEMMA SerializedIsRead ==
  ASSUME NEW e, IsSaved(e), NEW y \in Octets, NEW d, IsJoin(d, SerializeRule(e), y)
  PROVE  DeserializeRule(d) = Parsed(e, y)
<1> DEFINE text == String[e]
           n == Len(text)
           a == SerializeRule(e)
           piece == SubSeq(d, 5, 4 + n)
<1>1. /\ a \in Octets /\ Len(a) = 4 + n /\ n \in Nat
      /\ \A i \in 1..4 : a[i] = Uint32(n)[i]
      /\ \A i \in 1..n : a[4 + i] = text[i]
  BY SerializedRule
<1>2. text \in Octets /\ FitsUint32(n)
  BY DEF IsSaved, IsRead
<1>3. d = a \o y
  BY DEF IsJoin
<1> HIDE DEF a
<1>4. /\ d \in Octets /\ Len(d) = Len(a) + Len(y) /\ Len(y) \in Nat
      /\ \A i \in 1..Len(a) : d[i] = a[i]
  BY <1>1, <1>3, Joins, OctetsAre
<1>5. SubSeq(d, Len(a) + 1, Len(d)) = y
  BY <1>1, <1>3, JoinsSplit
<1> HIDE DEF text
<1>6. ReadUint32(d) = n
  <2>1. \A i \in 1..4 : d[i] = Uint32(n)[i]
    BY <1>1, <1>4
  <2>2. QED
    BY <1>1, <1>2, <2>1, Uint32IsRead
<1>7. piece = text
  <2>1. 5 \in 1..(Len(d) + 1) /\ 4 + n \in (5 - 1)..Len(d) /\ ((4 + n) - 5) + 1 = n
    BY <1>1, <1>4
  <2>2. /\ piece \in Octets /\ Len(piece) = ((4 + n) - 5) + 1
        /\ \A i \in 1..(((4 + n) - 5) + 1) : piece[i] = d[(5 + i) - 1]
    BY <1>4, <2>1, Pieces
  <2> HIDE DEF piece
  <2>3. ASSUME NEW i \in 1..n PROVE piece[i] = text[i]
    <3>1. (5 + i) - 1 = 4 + i /\ 4 + i \in 1..Len(a)
      BY <1>1
    <3>2. piece[i] = d[4 + i] /\ d[4 + i] = a[4 + i] /\ a[4 + i] = text[i]
      BY <1>1, <1>4, <2>1, <2>2, <3>1
    <3>3. QED
      BY <3>2
  <2>4. Len(piece) = Len(text)
    BY <2>1, <2>2
  <2>5. QED
    BY <1>2, <2>2, <2>3, <2>4, OctetsEqual
<1>8. Parse[text] = Parsed(e, <<>>)
  <2>1. IsJoin(text, text, <<>>) /\ <<>> \in Octets
    BY <1>2, NoOctets, JoinsNothing DEF IsJoin
  <2>2. QED
    BY <1>2, <2>1 DEF IsSaved, IsRead, text
<1> HIDE DEF n
<1>9. ~(Len(d) < 4) /\ ~(Len(d) < 4 + n) /\ Len(a) + 1 = (4 + n) + 1
  BY <1>1, <1>4
<1>10. DeserializeRule(d) = RuleBefore(SubSeq(d, (4 + n) + 1, Len(d)), Parse[piece])
  BY <1>6, <1>9 DEF DeserializeRule
<1>11. DeserializeRule(d) = RuleBefore(y, Parsed(e, <<>>))
  BY <1>5, <1>7, <1>8, <1>9, <1>10
<1>12. QED
  BY <1>11, KindsOfResults DEF RuleBefore

(* And not at all, if it is cut off.                                       *)
LEMMA CutRuleIsNotRead ==
  ASSUME NEW e, IsSaved(e), NEW d \in Octets, NEW y \in Octets, y # <<>>,
         IsJoin(SerializeRule(e), d, y)
  PROVE  DeserializeRule(d) = Failure
<1> DEFINE text == String[e]
           n == Len(text)
           a == SerializeRule(e)
<1>1. /\ a \in Octets /\ Len(a) = 4 + n /\ n \in Nat
      /\ \A i \in 1..4 : a[i] = Uint32(n)[i]
  BY SerializedRule
<1>2. FitsUint32(n)
  BY DEF IsSaved
<1>3. a = d \o y
  BY DEF IsJoin
<1> HIDE DEF a, n
<1>4. /\ Len(a) = Len(d) + Len(y) /\ \A i \in 1..Len(d) : a[i] = d[i]
      /\ Len(d) \in Nat /\ Len(y) \in Nat
  BY <1>3, Joins, OctetsAre
<1>5. Len(y) # 0
  BY OctetsEqual, NoOctets
<1>6. CASE Len(d) < 4
  BY <1>6 DEF DeserializeRule
<1>7. CASE ~(Len(d) < 4)
  <2>1. \A i \in 1..4 : d[i] = Uint32(n)[i]
    BY <1>1, <1>4, <1>7
  <2>2. ReadUint32(d) = n
    BY <1>1, <1>2, <2>1, Uint32IsRead
  <2>3. Len(d) < 4 + n
    BY <1>1, <1>4, <1>5
  <2>4. QED
    BY <1>7, <2>2, <2>3 DEF DeserializeRule
<1>8. QED
  BY <1>6, <1>7

\* What a parser can return as a rule, and what loadBinary has after some rounds.
Readable     == {Parse[s].elem : s \in Octets}
BinaryStates == [ok : BOOLEAN, rules : Seq(Readable), rest : Octets]

LEMMA TakeBinaryType ==
  ASSUME NEW x \in BinaryStates
  PROVE  TakeBinary(x, DeserializeRule(x.rest)) \in BinaryStates
<1> DEFINE s == x.rest
           end == 4 + ReadUint32(s)
           next == DeserializeRule(s)
           got == Parse[SubSeq(s, 5, end)]
<1>1. s \in Octets /\ x.rules \in Seq(Readable) /\ x.ok \in BOOLEAN
  BY DEF BinaryStates
<1> HIDE DEF s
<1>2. Len(s) \in Nat /\ \A i \in 1..Len(s) : s[i] \in Nat
  <2>1. Len(s) \in Nat /\ \A i \in 1..Len(s) : s[i] \in Octet
    BY <1>1, OctetsAre
  <2>2. \A c \in Octet : c \in Nat
    BY DEF Octet
  <2>3. QED
    BY <2>1, <2>2
<1>3. ASSUME next.kind = "parsed" PROVE next.elem \in Readable /\ next.rest \in Octets
  <2>1. ~(Len(s) < 4)
    BY <1>3, KindsOfResults DEF DeserializeRule
  <2>2. ~(Len(s) < end)
    BY <1>3, <2>1, KindsOfResults DEF DeserializeRule
  <2>3. s[1] \in Nat /\ s[2] \in Nat /\ s[3] \in Nat /\ s[4] \in Nat
    BY <1>2, <2>1
  <2>4. end \in Nat /\ end >= 4
    BY <2>3 DEF ReadUint32
  <2>5. next = RuleBefore(SubSeq(s, end + 1, Len(s)), got)
    BY <2>1, <2>2 DEF DeserializeRule
  <2> HIDE DEF end
  <2>6. SubSeq(s, 5, end) \in Octets
    <3>1. 5 \in 1..(Len(s) + 1) /\ end \in (5 - 1)..Len(s)
      BY <1>2, <2>2, <2>4
    <3>2. QED
      BY <1>1, <3>1, Pieces
  <2>7. SubSeq(s, end + 1, Len(s)) \in Octets
    <3>1. end + 1 \in 1..(Len(s) + 1) /\ Len(s) \in ((end + 1) - 1)..Len(s)
      BY <1>2, <2>2, <2>4
    <3>2. QED
      BY <1>1, <3>1, Pieces
  <2>8. got.elem \in Readable
    BY <2>6 DEF Readable
  <2> HIDE DEF got, next
  <2>9. next = Parsed(got.elem, SubSeq(s, end + 1, Len(s)))
    BY <1>3, <2>5 DEF RuleBefore
  <2>10. QED
    BY <2>7, <2>8, <2>9, KindsOfResults
<1> HIDE DEF next
<1>4. CASE x.ok /\ next.kind = "parsed"
  <2>1. TakeBinary(x, next) = [ok |-> TRUE, rules |-> Append(x.rules, next.elem), rest |-> next.rest]
    BY <1>4 DEF TakeBinary
  <2>2. next.elem \in Readable /\ next.rest \in Octets
    BY <1>3, <1>4
  <2>3. QED
    BY <1>1, <2>1, <2>2 DEF BinaryStates, next, s
<1>5. CASE ~(x.ok /\ next.kind = "parsed")
  <2>1. TakeBinary(x, next) = [ok |-> FALSE, rules |-> <<>>, rest |-> <<>>]
    BY <1>5 DEF TakeBinary
  <2>2. QED
    BY <2>1, NoOctets DEF BinaryStates, next, s
<1>6. QED
  BY <1>4, <1>5

(* The loop of loadBinary is what its definition says.                     *)
LEMMA BinaryLoop ==
  ASSUME NEW s \in Octets, NEW n \in Nat
  PROVE  /\ LoadBinaryRules(s, n)[0] = [ok |-> TRUE, rules |-> <<>>, rest |-> s]
         /\ \A i \in 1..n :
              LoadBinaryRules(s, n)[i] =
                TakeBinary(LoadBinaryRules(s, n)[i - 1],
                           DeserializeRule(LoadBinaryRules(s, n)[i - 1].rest))
<1> DEFINE start == [ok |-> TRUE, rules |-> <<>>, rest |-> s]
           Body(f) == [i \in 0..n |-> IF i = 0 THEN start
                                      ELSE TakeBinary(f[i - 1], DeserializeRule(f[i - 1].rest))]
           Round == [p \in (1..n) \X BinaryStates |-> TakeBinary(p[2], DeserializeRule(p[2].rest))]
           L == LoadBinaryRules(s, n)
<1>1. start \in BinaryStates
  BY DEF BinaryStates
<1>2. Round \in [(1..n) \X BinaryStates -> BinaryStates]
  BY TakeBinaryType
<1>3. PICK f \in [0..n -> BinaryStates] : IsLoop(f, n, start, Round)
  <2> HIDE DEF start, Round
  <2>1. QED
    BY <1>1, <1>2, LoopStays
<1>4. f = Body(f)
  <2>1. ASSUME NEW i \in 0..n, i # 0
        PROVE  Round[<<i, f[i - 1]>>] = TakeBinary(f[i - 1], DeserializeRule(f[i - 1].rest))
    <3>1. i \in 1..n /\ i - 1 \in 0..n
      BY <2>1
    <3>2. <<i, f[i - 1]>> \in (1..n) \X BinaryStates
      BY <1>3, <3>1
    <3>3. QED
      BY <3>2
  <2>2. f = [i \in 0..n |-> IF i = 0 THEN start ELSE Round[<<i, f[i - 1]>>]]
    BY <1>3 DEF IsLoop
  <2> HIDE DEF Round, start
  <2>3. QED
    BY <2>1, <2>2
<1>5. L = Body(L)
  <2>1. L = CHOOSE g : g = Body(g)
    BY DEF LoadBinaryRules
  <2> HIDE DEF Body, L
  <2>2. QED
    BY <1>4, <2>1
<1> HIDE DEF L
<1>6. L[0] = start
  <2>1. 0 \in 0..n
    OBVIOUS
  <2>2. QED
    BY <1>5, <2>1
<1>7. ASSUME NEW i \in 1..n PROVE L[i] = TakeBinary(L[i - 1], DeserializeRule(L[i - 1].rest))
  <2>1. i \in 0..n /\ i # 0
    OBVIOUS
  <2>2. QED
    BY <1>5, <2>1
<1>8. QED
  BY <1>6, <1>7 DEF L, start

\* a is what is written of the rules in q, and r what is left of them.
AreSerialized(q, a, r) ==
  /\ a \in Seq(Octets) /\ Len(a) = Len(q) /\ Len(q) \in Nat
  /\ \A i \in 1..Len(q) : a[i] = SerializeRule(q[i]) /\ IsSaved(q[i])
  /\ AreRemainders(r, a)

\* i rules are read, and d is left to read of what is left of a file before u.
HaveBeenRead(x, i, q, r, u) ==
  \E d \in Octets : /\ x = [ok |-> TRUE, rules |-> SubSeq(q, 1, i), rest |-> d]
                    /\ IsJoin(r[i], d, u)

BinaryFailed == [ok |-> FALSE, rules |-> <<>>, rest |-> <<>>]

(* One round: the next rule is read, or nothing at all if it is cut off.   *)
LEMMA NextRuleIsRead ==
  ASSUME NEW S, NEW q \in Seq(S), NEW a, NEW r, AreSerialized(q, a, r), NEW u \in Octets,
         NEW i \in 0..(Len(q) - 1), NEW x, HaveBeenRead(x, i, q, r, u)
  PROVE  \/ HaveBeenRead(TakeBinary(x, DeserializeRule(x.rest)), i + 1, q, r, u)
         \/ TakeBinary(x, DeserializeRule(x.rest)) = BinaryFailed /\ u # <<>>
<1> DEFINE e == q[i + 1]
           b == SerializeRule(e)
           v == r[i + 1]
<1>1. PICK d \in Octets : /\ x = [ok |-> TRUE, rules |-> SubSeq(q, 1, i), rest |-> d]
                          /\ IsJoin(r[i], d, u)
  BY DEF HaveBeenRead
<1>2. x.ok /\ x.rules = SubSeq(q, 1, i) /\ x.rest = d
  BY <1>1
<1>3. i + 1 \in 1..Len(q) /\ (i + 1) - 1 = i /\ i + 1 \in 0..Len(q)
  OBVIOUS
<1>4. IsSaved(e) /\ v \in Octets /\ IsJoin(r[i], b, v)
  <2>1. a[i + 1] = b /\ IsSaved(e)
    BY <1>3 DEF AreSerialized
  <2>2. v \in Octets /\ r[i] = a[i + 1] \o v
    BY <1>3 DEF AreSerialized, AreRemainders
  <2>3. QED
    BY <2>1, <2>2 DEF IsJoin
<1>5. b \in Octets
  BY <1>4, SerializedRule
<1>6. Append(SubSeq(q, 1, i), e) = SubSeq(q, 1, i + 1)
  BY BeginningsGrow
<1> HIDE DEF e, v
<1>7. ASSUME NEW y \in Octets, IsJoin(d, b, y), IsJoin(v, y, u)
      PROVE  HaveBeenRead(TakeBinary(x, DeserializeRule(x.rest)), i + 1, q, r, u)
  <2>1. DeserializeRule(d) = Parsed(e, y)
    BY <1>4, <1>7, SerializedIsRead
  <2>2. TakeBinary(x, Parsed(e, y)) = [ok |-> TRUE, rules |-> SubSeq(q, 1, i + 1), rest |-> y]
    <3> DEFINE p == Parsed(e, y)
    <3>1. p.kind = "parsed" /\ p.elem = e /\ p.rest = y
      BY KindsOfResults
    <3> HIDE DEF p
    <3>2. TakeBinary(x, p) = [ok |-> TRUE, rules |-> Append(x.rules, p.elem), rest |-> p.rest]
      BY <1>2, <3>1 DEF TakeBinary
    <3>3. QED
      BY <1>2, <1>6, <3>1, <3>2 DEF p
  <2>3. QED
    BY <1>2, <1>7, <2>1, <2>2 DEF HaveBeenRead, v
<1>8. ASSUME NEW y \in Octets, y # <<>>, IsJoin(b, d, y), IsJoin(u, y, v)
      PROVE  TakeBinary(x, DeserializeRule(x.rest)) = BinaryFailed /\ u # <<>>
  <2>1. DeserializeRule(d) = Failure
    BY <1>4, <1>8, CutRuleIsNotRead
  <2>2. TakeBinary(x, Failure) = BinaryFailed
    BY KindsOfResults DEF TakeBinary, BinaryFailed
  <2>3. u # <<>>
    <3>1. u = y \o v
      BY <1>8 DEF IsJoin
    <3>2. QED
      BY <1>4, <1>8, <3>1, JoinsBegin
  <2>4. QED
    BY <1>2, <2>1, <2>2, <2>3
<1> HIDE DEF b
<1>9. \/ \E y \in Octets : IsJoin(d, b, y) /\ IsJoin(v, y, u)
      \/ \E y \in Octets : y # <<>> /\ IsJoin(b, d, y) /\ IsJoin(u, y, v)
  BY <1>1, <1>4, <1>5, CutsMeet
<1>10. QED
  BY <1>7, <1>8, <1>9

(* What is left of a binary file is read as all its rules or not at all.   *)
LEMMA RulesAreReadOrNone ==
  ASSUME NEW S, NEW q \in Seq(S), NEW a, NEW r, AreSerialized(q, a, r),
         NEW s \in Octets, NEW u \in Octets, IsJoin(r[0], s, u), NEW x,
         x = LoadBinaryRules(s, Len(q))[Len(q)]
  PROVE  \/ x.ok /\ x.rules = q
         \/ ~x.ok /\ u # <<>>
<1> DEFINE n == Len(q)
           L == LoadBinaryRules(s, n)
           T == {i \in 0..n : HaveBeenRead(L[i], i, q, r, u) \/ (L[i] = BinaryFailed /\ u # <<>>)}
<1>1. n \in Nat
  BY DEF AreSerialized
<1>2. /\ L[0] = [ok |-> TRUE, rules |-> <<>>, rest |-> s]
      /\ \A i \in 1..n : L[i] = TakeBinary(L[i - 1], DeserializeRule(L[i - 1].rest))
  BY <1>1, BinaryLoop
<1>3. SubSeq(q, 1, 0) = <<>> /\ SubSeq(q, 1, n) = q
  BY BeginningsGrow
<1> HIDE DEF L
<1>4. 0 \in T
  <2>1. HaveBeenRead(L[0], 0, q, r, u)
    BY <1>2, <1>3 DEF HaveBeenRead
  <2>2. QED
    BY <1>1, <2>1
<1>5. ASSUME NEW i \in 0..(n - 1), i \in T PROVE i + 1 \in T
  <2>1. i + 1 \in 1..n /\ i + 1 \in 0..n /\ (i + 1) - 1 = i
    BY <1>1
  <2>2. L[i + 1] = TakeBinary(L[i], DeserializeRule(L[i].rest))
    BY <1>2, <2>1
  <2>3. CASE HaveBeenRead(L[i], i, q, r, u)
    <3>1. \/ HaveBeenRead(L[i + 1], i + 1, q, r, u)
          \/ L[i + 1] = BinaryFailed /\ u # <<>>
      BY <2>2, <2>3, NextRuleIsRead
    <3>2. QED
      BY <2>1, <3>1
  <2>4. CASE L[i] = BinaryFailed /\ u # <<>>
    <3>1. ~L[i].ok
      BY <2>4 DEF BinaryFailed
    <3>2. L[i + 1] = BinaryFailed
      BY <2>2, <3>1 DEF TakeBinary, BinaryFailed
    <3>3. QED
      BY <2>1, <2>4, <3>2
  <2>5. QED
    BY <1>5, <2>3, <2>4
<1>6. n \in T
  <2> HIDE DEF T
  <2>1. \A i \in 0..n : i \in T
    BY <1>1, <1>4, <1>5, Steps
  <2>2. QED
    BY <1>1, <2>1
<1>7. x = L[n]
  BY DEF L
<1>8. HaveBeenRead(x, n, q, r, u) \/ (x = BinaryFailed /\ u # <<>>)
  BY <1>6, <1>7
<1>9. HaveBeenRead(x, n, q, r, u) => x.ok /\ x.rules = SubSeq(q, 1, n)
  BY DEF HaveBeenRead
<1>10. ~BinaryFailed.ok
  BY DEF BinaryFailed
<1> HIDE DEF n
<1>11. QED
  BY <1>3, <1>8, <1>9, <1>10

(* What is written before the rules.                                       *)
LEMMA HeaderIs ==
  ASSUME NEW n \in Nat, FitsUint32(n)
  PROVE  /\ Header(n) \in Octets /\ Len(Header(n)) = 10
         /\ Magic \o Version \in Octets /\ Len(Magic \o Version) = 6
         /\ \A i \in 1..6 : Header(n)[i] = (Magic \o Version)[i]
         /\ \A i \in 1..4 : Header(n)[6 + i] = Uint32(n)[i]
         /\ (Magic \o Version)[1] = 83
<1> DEFINE m == Magic
           v == Version
           p == m \o v
           w == Uint32(n)
           h == p \o w
<1>0. m \in Octets /\ v \in Octets
  BY DEF Magic, Version, Octets, Octet
<1>1. Len(m) = 5 /\ m[1] = 83 /\ Len(v) = 1
  BY DEF Magic, Version
<1>2. w \in Octets /\ Len(w) = 4
  BY Uint32IsRead
<1> HIDE DEF m, v, w
<1>3. p \in Octets /\ Len(p) = 6 /\ p[1] = 83
  <2>1. IsJoin(p, m, v)
    BY DEF IsJoin
  <2> HIDE DEF p
  <2>2. p \in Octets /\ Len(p) = Len(m) + Len(v) /\ \A i \in 1..Len(m) : p[i] = m[i]
    BY <1>0, <2>1, JoinedOctets
  <2>3. Len(p) = 6
    BY <1>1, <2>2
  <2>4. 1 \in 1..Len(m)
    BY <1>1
  <2>5. QED
    BY <1>1, <2>2, <2>3, <2>4
<1> HIDE DEF p
<1>4. /\ h \in Octets /\ Len(h) = Len(p) + Len(w)
      /\ \A i \in 1..Len(p) : h[i] = p[i]
      /\ \A i \in 1..Len(w) : h[Len(p) + i] = w[i]
  <2>1. p \in Octets /\ w \in Octets
    BY <1>2, <1>3
  <2>2. IsJoin(h, p, w)
    BY DEF IsJoin
  <2> HIDE DEF h
  <2>3. QED
    BY <2>1, <2>2, JoinedOctets
<1>5. Header(n) = (m \o v) \o w
  BY DEF Header, m, v, w
<1>6. Header(n) = h
  BY <1>5 DEF p
<1> HIDE DEF h
<1>7. /\ Len(h) = 10 /\ \A i \in 1..6 : h[i] = p[i]
      /\ \A i \in 1..4 : h[6 + i] = w[i]
  BY <1>2, <1>3, <1>4
<1>8. QED
  BY <1>3, <1>4, <1>6, <1>7 DEF p, m, v, w

(* The rules of a binary file, as it is written.                           *)
LEMMA BinaryFile ==
  ASSUME NEW S, NEW q \in Seq(S), \A i \in 1..Len(q) : IsSaved(q[i])
  PROVE  \E a, r : AreSerialized(q, a, r) /\ IsJoin(SaveBinary(q), Header(Len(q)), r[0])
<1> DEFINE a == [i \in DOMAIN q |-> SerializeRule(q[i])]
<1>1. Len(q) \in Nat /\ DOMAIN q = 1..Len(q)
  OBVIOUS
<1>2. a \in Seq(Octets) /\ Len(a) = Len(q) /\ \A i \in 1..Len(q) : a[i] = SerializeRule(q[i])
  <2>1. \A i \in 1..Len(q) : SerializeRule(q[i]) \in Octets
    BY SerializedRule
  <2>2. a \in [1..Len(q) -> Octets]
    BY <1>1, <2>1
  <2>3. QED
    BY <1>1, <2>2
<1>3. SaveBinary(q) = Header(Len(q)) \o Concat(a)
  BY DEF SaveBinary
<1> HIDE DEF a
<1>4. PICK r : AreRemainders(r, a) /\ r[0] = Concat(a)
  BY <1>2, RemaindersExist
<1>5. AreSerialized(q, a, r)
  BY <1>1, <1>2, <1>4 DEF AreSerialized
<1>6. IsJoin(SaveBinary(q), Header(Len(q)), r[0])
  BY <1>3, <1>4 DEF IsJoin
<1>7. QED
  BY <1>5, <1>6

(* A binary file, whole or cut off: all of its rules, or none if it is cut *)
(* off.                                                                    *)
THEOREM BinaryFilesAreWhole ==
  ASSUME NEW S, NEW q \in Seq(S), \A i \in 1..Len(q) : IsSaved(q[i]), FitsUint32(Len(q)),
         NEW c \in Octets, NEW u \in Octets, IsJoin(SaveBinary(q), c, u)
  PROVE  \/ LoadBinary(c) = Loaded(q)
         \/ LoadBinary(c) = LoadFailed /\ u # <<>>
<1> DEFINE n == Len(q)
           h == Header(n)
           p == Magic \o Version
<1>1. n \in Nat /\ FitsUint32(n)
  OBVIOUS
<1>2. PICK a, r : AreSerialized(q, a, r) /\ IsJoin(SaveBinary(q), h, r[0])
  BY BinaryFile
<1>3. r[0] \in Octets
  <2>1. 0 \in 0..Len(a)
    BY <1>1, <1>2 DEF AreSerialized
  <2>2. QED
    BY <1>2, <2>1 DEF AreSerialized, AreRemainders
<1>4. /\ h \in Octets /\ Len(h) = 10 /\ p \in Octets /\ Len(p) = 6
      /\ \A i \in 1..6 : h[i] = p[i]
      /\ \A i \in 1..4 : h[6 + i] = Uint32(n)[i]
  BY SMTT(30), <1>1, HeaderIs
<1> HIDE DEF h, p
<1>5. ASSUME NEW d \in Octets, IsJoin(c, h, d), IsJoin(r[0], d, u)
      PROVE  LoadBinary(c) = Loaded(q) \/ (LoadBinary(c) = LoadFailed /\ u # <<>>)
  <2>1. c = h \o d
    BY <1>5 DEF IsJoin
  <2>2. Len(c) = Len(h) + Len(d) /\ (\A i \in 1..Len(h) : c[i] = h[i]) /\ Len(d) \in Nat
    <3>1. h \in Octets
      BY <1>4
    <3>2. QED
      BY <1>5, <3>1, JoinedOctets
  <2>3. SubSeq(c, 11, Len(c)) = d
    <3>1. SubSeq(c, Len(h) + 1, Len(c)) = d
      BY <1>4, <2>1, JoinsSplit
    <3>2. QED
      BY <1>4, <3>1
  <2>4. SubSeq(c, 1, 6) = p
    <3> DEFINE z == SubSeq(c, 1, 6)
    <3>1. 1 \in 1..(Len(c) + 1) /\ 6 \in (1 - 1)..Len(c) /\ (6 - 1) + 1 = 6
      BY <1>4, <2>2
    <3>2. z \in Octets /\ Len(z) = (6 - 1) + 1 /\ \A i \in 1..((6 - 1) + 1) : z[i] = c[(1 + i) - 1]
      BY <3>1, Pieces
    <3> HIDE DEF z
    <3>3. Len(z) = Len(p) /\ \A i \in 1..6 : z[i] = c[i]
      BY <1>4, <3>1, <3>2
    <3>4. \A i \in 1..Len(z) : z[i] = p[i]
      BY <1>4, <2>2, <3>3
    <3>5. z = p
      BY <1>4, <3>2, <3>3, <3>4, OctetsEqual
    <3>6. QED
      BY <3>5 DEF z
  <2>5. ReadUint32(SubSeq(c, 7, 10)) = n
    <3> DEFINE z == SubSeq(c, 7, 10)
    <3>1. 7 \in 1..(Len(c) + 1) /\ 10 \in (7 - 1)..Len(c) /\ (10 - 7) + 1 = 4
      BY <1>4, <2>2
    <3>2. \A i \in 1..((10 - 7) + 1) : z[i] = c[(7 + i) - 1]
      BY <3>1, Pieces
    <3> HIDE DEF z
    <3>3. ASSUME NEW i \in 1..4 PROVE z[i] = Uint32(n)[i]
      <4>1. (7 + i) - 1 = 6 + i /\ 6 + i \in 1..10
        OBVIOUS
      <4>2. z[i] = c[6 + i] /\ c[6 + i] = h[6 + i] /\ h[6 + i] = Uint32(n)[i]
        BY <1>4, <2>2, <3>1, <3>2, <4>1
      <4>3. QED
        BY <4>2
    <3>4. ReadUint32(z) = n
      BY <1>1, <3>3, Uint32IsRead
    <3>5. QED
      BY <3>4 DEF z
  <2> DEFINE x == LoadBinaryRules(d, n)[n]
  <2>6. LoadBinary(c) = IF x.ok THEN Loaded(x.rules) ELSE LoadFailed
    <3>1. ~(Len(c) < 10)
      BY <1>4, <2>2
    <3>2. QED
      BY <2>3, <2>4, <2>5, <3>1 DEF LoadBinary, p
  <2>7. (x.ok /\ x.rules = q) \/ (~x.ok /\ u # <<>>)
    BY <1>2, <1>5, RulesAreReadOrNone
  <2> HIDE DEF x
  <2>8. QED
    BY <2>6, <2>7
<1>6. ASSUME NEW d \in Octets, d # <<>>, IsJoin(h, c, d), IsJoin(u, d, r[0])
      PROVE  LoadBinary(c) = LoadFailed /\ u # <<>>
  <2>1. h = c \o d /\ u = d \o r[0]
    BY <1>6 DEF IsJoin
  <2>2. Len(h) = Len(c) + Len(d)
    BY <2>1, Joins
  <2>3. Len(c) \in Nat /\ Len(d) \in Nat /\ Len(d) # 0
    BY <1>6, OctetsAre, OctetsEqual, NoOctets
  <2>4. Len(c) < 10
    <3> DEFINE k == Len(c)
               m == Len(d)
    <3>1. k + m = 10 /\ k \in Nat /\ m \in Nat /\ m # 0
      BY <1>4, <2>2, <2>3
    <3> HIDE DEF k, m
    <3>2. k < 10
      BY <3>1
    <3>3. QED
      BY <3>2 DEF k
  <2>5. u # <<>>
    BY <1>3, <1>6, <2>1, JoinsBegin
  <2>6. QED
    BY <2>4, <2>5 DEF LoadBinary
<1>7. \/ \E d \in Octets : IsJoin(c, h, d) /\ IsJoin(r[0], d, u)
      \/ \E d \in Octets : d # <<>> /\ IsJoin(h, c, d) /\ IsJoin(u, d, r[0])
  BY <1>2, <1>3, <1>4, CutsMeet
<1>8. QED
  BY <1>5, <1>6, <1>7

-----------------------------------------------------------------------------
(***************************************************************************)
(* Lines.                                                                  *)
(***************************************************************************)
(* A set of places in a string has a first one and a last one.             *)
LEMMA FirstAndLast ==
  ASSUME NEW n \in Nat, NEW S \in SUBSET (1..n), S # {}
  PROVE  /\ \E i \in S : \A j \in S : i <= j
         /\ \E i \in S : \A j \in S : j <= i
<1> DEFINE P(k) == S \intersect (1..k)
           T == {k \in 0..n : P(k) = {} \/ (/\ \E i \in P(k) : \A j \in P(k) : i <= j
                                            /\ \E i \in P(k) : \A j \in P(k) : j <= i)}
<1>1. 0 \in T
  <2>1. P(0) = {}
    OBVIOUS
  <2>2. QED
    BY <2>1
<1>2. ASSUME NEW k \in 0..(n - 1), k \in T PROVE k + 1 \in T
  <2>1. k + 1 \in 0..n /\ k \in Nat
    OBVIOUS
  <2>2. CASE k + 1 \notin S
    <3>1. P(k + 1) = P(k)
      <4>1. ASSUME NEW j \in S PROVE j \in 1..(k + 1) <=> j \in 1..k
        BY <2>2
      <4>2. QED
        BY <4>1
    <3> HIDE DEF P
    <3>2. QED
      BY <1>2, <2>1, <3>1
  <2>3. CASE k + 1 \in S
    <3>1. k + 1 \in P(k + 1) /\ \A j \in P(k + 1) : j \in Nat /\ j <= k + 1
      BY <2>3
    <3>2. ASSUME NEW j \in P(k + 1) PROVE j \in P(k) \/ j = k + 1
      OBVIOUS
    <3>3. ASSUME NEW j \in P(k) PROVE j \in P(k + 1)
      OBVIOUS
    <3>4. P(k) = {} \/ \E i \in P(k) : \A j \in P(k) : i <= j
      BY <1>2
    <3> HIDE DEF P, T
    <3>5. \E i \in P(k + 1) : \A j \in P(k + 1) : j <= i
      BY <3>1
    <3>6. CASE P(k) = {}
      <4>1. \A j \in P(k + 1) : k + 1 <= j
        BY <2>1, <3>2, <3>6
      <4>2. QED
        BY <2>1, <3>1, <3>5, <4>1 DEF T
    <3>7. CASE \E i \in P(k) : \A j \in P(k) : i <= j
      <4>1. PICK i \in P(k) : \A j \in P(k) : i <= j
        BY <3>7
      <4>2. i \in P(k + 1) /\ i <= k + 1
        BY <3>1, <3>3
      <4>3. \A j \in P(k + 1) : i <= j
        BY <3>2, <4>1, <4>2
      <4>4. QED
        BY <2>1, <3>5, <4>2, <4>3 DEF T
    <3>8. QED
      BY <3>4, <3>6, <3>7
  <2>4. QED
    BY <2>2, <2>3
<1>3. n \in T
  <2> HIDE DEF T
  <2>1. \A k \in 0..n : k \in T
    BY <1>1, <1>2, Steps
  <2>2. QED
    BY <2>1
<1>4. P(n) = S
  OBVIOUS
<1> HIDE DEF P
<1>5. QED
  BY <1>3, <1>4

(* Trimming leaves a piece, and the beginning where that is not blank.     *)
LEMMA TrimSpaceIs ==
  ASSUME NEW s \in Octets
  PROVE  /\ TrimSpace(s) \in Octets
         /\ s # <<>> /\ s[1] \notin Whitespace =>
              \E m \in 1..Len(s) : TrimSpace(s) = SubSeq(s, 1, m)
<1> DEFINE n == Len(s)
           solid == {i \in DOMAIN s : s[i] \notin Whitespace}
           first == CHOOSE i \in solid : \A j \in solid : i <= j
           last == CHOOSE i \in solid : \A j \in solid : j <= i
<1>1. n \in Nat /\ DOMAIN s = 1..n
  BY OctetsAre
<1>2. CASE solid = {}
  <2>1. TrimSpace(s) = <<>>
    BY <1>2 DEF TrimSpace
  <2>2. ASSUME s # <<>> PROVE s[1] \in Whitespace
    <3>1. 1 \in 1..n
      BY <1>1, <2>2, HeadAndTail
    <3>2. QED
      BY <1>1, <1>2, <3>1
  <2>3. QED
    BY <2>1, <2>2, NoOctets
<1>3. CASE solid # {}
  <2>1. TrimSpace(s) = SubSeq(s, first, last)
    BY <1>3 DEF TrimSpace
  <2>2. solid \in SUBSET (1..n)
    BY <1>1
  <2>3. first \in solid /\ last \in solid /\ \A j \in solid : first <= j /\ j <= last
    <3> HIDE DEF solid, n
    <3>1. /\ \E i \in solid : \A j \in solid : i <= j
          /\ \E i \in solid : \A j \in solid : j <= i
      BY <1>1, <1>3, <2>2, FirstAndLast
    <3>2. QED
      BY <3>1
  <2> HIDE DEF first, last
  <2>4. first \in 1..n /\ last \in 1..n /\ first <= last
    BY <2>2, <2>3
  <2>5. SubSeq(s, first, last) \in Octets
    <3>1. first \in 1..(Len(s) + 1) /\ last \in (first - 1)..Len(s)
      BY <1>1, <2>4
    <3>2. QED
      BY <3>1, Pieces
  <2>6. ASSUME s # <<>>, s[1] \notin Whitespace PROVE first = 1
    <3>1. 1 \in 1..n
      BY <1>1, <2>6, HeadAndTail
    <3>2. 1 \in solid
      BY <1>1, <2>6, <3>1
    <3>3. first <= 1
      BY <2>3, <3>2
    <3>4. QED
      BY <2>4, <3>3
  <2>7. QED
    BY <2>1, <2>4, <2>5, <2>6
<1>4. QED
  BY <1>2, <1>3

\* What the scanner has after some octets: lines and the beginning of one.
SplitStates == [tokens : Seq(Octets), current : Octets]

LEMMA ScanOctetType ==
  ASSUME NEW t \in SplitStates, NEW c \in Octet
  PROVE  /\ ScanOctet(t, c) \in SplitStates
         /\ c = Newline => /\ ScanOctet(t, c).tokens = Append(t.tokens, t.current)
                           /\ ScanOctet(t, c).current = <<>>
         /\ c # Newline => /\ ScanOctet(t, c).tokens = t.tokens
                           /\ ScanOctet(t, c).current = Append(t.current, c)
<1>1. t.tokens \in Seq(Octets) /\ t.current \in Octets /\ <<>> \in Octets
  BY NoOctets DEF SplitStates
<1>2. t = [tokens |-> t.tokens, current |-> t.current]
  BY DEF SplitStates
<1>3. CASE c = Newline
  <2>1. ScanOctet(t, c) = [tokens |-> Append(t.tokens, t.current), current |-> <<>>]
    BY <1>2, <1>3 DEF ScanOctet, FlushToken
  <2>2. Append(t.tokens, t.current) \in Seq(Octets)
    BY <1>1
  <2>3. QED
    BY <1>1, <1>3, <2>1, <2>2 DEF SplitStates
<1>4. CASE c # Newline
  <2>1. ScanOctet(t, c) = [tokens |-> t.tokens, current |-> Append(t.current, c)]
    BY <1>2, <1>4 DEF ScanOctet, Keep
  <2>2. Append(t.current, c) \in Octets
    BY <1>1, AppendIsJoin
  <2>3. QED
    BY <1>1, <1>4, <2>1, <2>2 DEF SplitStates
<1>5. QED
  BY <1>3, <1>4

(* The loop of the scanner is what its definition says.                    *)
LEMMA SplitLoop ==
  ASSUME NEW s \in Octets
  PROVE  /\ Split(s) \in [0..Len(s) -> SplitStates]
         /\ Split(s)[0] = [tokens |-> <<>>, current |-> <<>>]
         /\ \A i \in 1..Len(s) : Split(s)[i] = ScanOctet(Split(s)[i - 1], s[i])
<1> DEFINE n == Len(s)
           start == [tokens |-> <<>>, current |-> <<>>]
           Body(f) == [i \in 0..n |-> IF i = 0 THEN start ELSE ScanOctet(f[i - 1], s[i])]
           Round == [p \in (1..n) \X SplitStates |-> ScanOctet(p[2], s[p[1]])]
           L == Split(s)
<1>0. n \in Nat /\ \A i \in 1..n : s[i] \in Octet
  BY OctetsAre
<1>1. start \in SplitStates
  BY NoOctets DEF SplitStates
<1>2. Round \in [(1..n) \X SplitStates -> SplitStates]
  <2>1. ASSUME NEW p \in (1..n) \X SplitStates PROVE ScanOctet(p[2], s[p[1]]) \in SplitStates
    <3>1. s[p[1]] \in Octet /\ p[2] \in SplitStates
      BY <1>0
    <3>2. QED
      BY <3>1, ScanOctetType
  <2>2. QED
    BY <2>1
<1>3. PICK f \in [0..n -> SplitStates] : IsLoop(f, n, start, Round)
  <2> HIDE DEF start, Round, n
  <2>1. QED
    BY <1>0, <1>1, <1>2, LoopStays
<1>4. f = Body(f)
  <2>1. ASSUME NEW i \in 0..n, i # 0
        PROVE  Round[<<i, f[i - 1]>>] = ScanOctet(f[i - 1], s[i])
    <3>1. i \in 1..n /\ i - 1 \in 0..n
      BY <1>0, <2>1
    <3>2. <<i, f[i - 1]>> \in (1..n) \X SplitStates
      BY <1>3, <3>1
    <3>3. QED
      BY <3>2
  <2>2. f = [i \in 0..n |-> IF i = 0 THEN start ELSE Round[<<i, f[i - 1]>>]]
    BY <1>3 DEF IsLoop
  <2> HIDE DEF Round, start, n
  <2>3. QED
    BY <2>1, <2>2
<1>5. L = Body(L)
  <2>1. L = CHOOSE g : g = Body(g)
    BY DEF Split
  <2> HIDE DEF Body, L
  <2>2. QED
    BY <1>4, <2>1
<1> HIDE DEF L
<1>6. L[0] = start
  <2>1. 0 \in 0..n
    BY <1>0
  <2>2. QED
    BY <1>5, <2>1
<1>7. ASSUME NEW i \in 1..n PROVE L[i] = ScanOctet(L[i - 1], s[i])
  <2>1. i \in 0..n /\ i # 0
    BY <1>0
  <2>2. QED
    BY <1>5, <2>1
<1> HIDE DEF n, start
<1>8. L \in [0..n -> SplitStates]
  <2> DEFINE T == {i \in 0..n : L[i] \in SplitStates}
  <2>1. 0 \in T
    BY <1>0, <1>1, <1>6
  <2>2. ASSUME NEW i \in 0..(n - 1), i \in T PROVE i + 1 \in T
    <3>1. i + 1 \in 1..n /\ i + 1 \in 0..n /\ (i + 1) - 1 = i
      BY <1>0
    <3>2. L[i + 1] = ScanOctet(L[i], s[i + 1])
      BY <1>7, <3>1
    <3>3. L[i] \in SplitStates /\ s[i + 1] \in Octet
      BY <1>0, <2>2, <3>1
    <3>4. QED
      BY <3>1, <3>2, <3>3, ScanOctetType
  <2>3. \A i \in 0..n : i \in T
    <3> HIDE DEF T
    <3>1. QED
      BY <1>0, <2>1, <2>2, Steps
  <2>4. L = [i \in 0..n |-> L[i]]
    BY <1>5
  <2> HIDE DEF Body
  <2>5. QED
    BY <2>3, <2>4
<1>9. QED
  BY <1>6, <1>7, <1>8 DEF L, n, start

(* A string is its first octet and the rest.                               *)
LEMMA HeadThenTail ==
  ASSUME NEW d \in Octets, d # <<>>
  PROVE  IsJoin(d, <<Head(d)>>, Tail(d)) /\ <<Head(d)>> \in Octets /\ Tail(d) \in Octets
<1> DEFINE c == Head(d)
           t == Tail(d)
           o == <<c>>
           x == o \o t
<1>1. /\ c \in Octet /\ t \in Octets /\ d[1] = c /\ Len(d) \in Nat /\ Len(d) >= 1
      /\ Len(t) = Len(d) - 1 /\ \A i \in 1..(Len(d) - 1) : t[i] = d[i + 1]
  BY HeadAndTail
<1> HIDE DEF c, t
<1>2. o \in Octets /\ Len(o) = 1 /\ o[1] = c
  BY <1>1, OneOctet
<1> HIDE DEF o
<1>3. x \in Octets /\ Len(x) = Len(o) + Len(t)
  BY <1>1, <1>2, Joins
<1>4. (\A i \in 1..Len(o) : x[i] = o[i]) /\ \A i \in 1..Len(t) : x[Len(o) + i] = t[i]
  BY <1>1, <1>2, Joins
<1> HIDE DEF x
<1>5. Len(x) = Len(d)
  BY <1>1, <1>2, <1>3
<1>6. ASSUME NEW i \in 1..Len(d) PROVE x[i] = d[i]
  <2>1. CASE i = 1
    BY <1>1, <1>2, <1>4, <2>1
  <2>2. CASE i # 1
    <3>1. i - 1 \in 1..(Len(d) - 1) /\ 1 + (i - 1) = i /\ (i - 1) + 1 = i
      BY <1>1, <2>2
    <3>2. x[1 + (i - 1)] = t[i - 1] /\ t[i - 1] = d[(i - 1) + 1]
      BY <1>1, <1>2, <1>4, <3>1
    <3>3. QED
      BY <3>1, <3>2
  <2>3. QED
    BY <2>1, <2>2
<1>7. x = d
  BY <1>3, <1>5, <1>6, OctetsEqual
<1>8. QED
  BY <1>1, <1>2, <1>7 DEF IsJoin, x, o, t, c

(* A join that begins with something, without its first octet.             *)
LEMMA JoinWithoutHead ==
  ASSUME NEW d \in Octets, d # <<>>, NEW u \in Octets, NEW w, IsJoin(w, d, u)
  PROVE  /\ w \in Octets /\ w # <<>> /\ Head(w) = Head(d) /\ Head(d) \in Octet
         /\ Tail(d) \in Octets /\ IsJoin(Tail(w), Tail(d), u)
<1> DEFINE c == Head(d)
           t == Tail(d)
           o == <<c>>
<1>1. c \in Octet /\ t \in Octets
  BY HeadAndTail
<1>2. IsJoin(d, o, t) /\ o \in Octets
  BY HeadThenTail
<1> HIDE DEF o, t
<1>3. PICK v \in Octets : IsJoin(v, t, u) /\ IsJoin(w, o, v)
  BY <1>1, <1>2, JoinsRegroup
<1>4. w \in Octets /\ w # <<>> /\ Head(w) = c /\ Tail(w) = v
  <2>1. w = <<c>> \o v
    BY <1>3 DEF IsJoin, o
  <2> HIDE DEF c
  <2>2. QED
    BY <1>1, <2>1, OctetThenRest
<1>5. QED
  BY <1>1, <1>3, <1>4 DEF t

(* The first octet of the second piece, moved to the end of the first.     *)
LEMMA HeadMoves ==
  ASSUME NEW c \in Octets, NEW y \in Octets, y # <<>>, NEW s, IsJoin(s, c, y)
  PROVE  /\ Append(c, Head(y)) \in Octets /\ Tail(y) \in Octets
         /\ IsJoin(s, Append(c, Head(y)), Tail(y))
<1> DEFINE h == Head(y)
           t == Tail(y)
           o == <<h>>
           a == Append(c, h)
<1>1. h \in Octet /\ t \in Octets
  BY HeadAndTail
<1>2. IsJoin(y, o, t) /\ o \in Octets
  BY HeadThenTail
<1>3. a \in Octets /\ IsJoin(a, c, o)
  BY <1>1, AppendIsJoin
<1> HIDE DEF a, o, t, h
<1>4. s = c \o y /\ y = o \o t /\ a = c \o o
  BY <1>2, <1>3 DEF IsJoin
<1>5. (c \o o) \o t = c \o (o \o t)
  BY <1>1, <1>2, JoinsAssociate
<1>6. IsJoin(s, a, t)
  BY <1>4, <1>5 DEF IsJoin
<1>7. QED
  BY <1>1, <1>3, <1>6 DEF a, t, h

(***************************************************************************)
(* The lines of a file.                                                    *)
(***************************************************************************)
\* A text that is one line.
IsText(t) == t \in Octets /\ \A i \in 1..Len(t) : t[i] # Newline

Upto(p, k) == [i \in 1..k |-> p[i]]

\* a are the lines that are written of the texts in p, and r what is left of them.
AreLines(p, a, r) ==
  /\ a \in Seq(Octets) /\ Len(a) = Len(p) /\ Len(p) \in Nat
  /\ \A i \in 1..Len(p) : a[i] = Line(p[i]) /\ IsText(p[i])
  /\ AreRemainders(r, a)

LEMMA TextsGrow ==
  ASSUME NEW p, NEW k \in Nat, \A i \in 1..k : p[i] \in Octets
  PROVE  /\ Upto(p, k) \in Seq(Octets) /\ Len(Upto(p, k)) = k
         /\ \A i \in 1..k : Upto(p, k)[i] = p[i]
         /\ Upto(p, 0) = <<>>
         /\ p[k + 1] \in Octets =>
              Append(Upto(p, k), p[k + 1]) = Upto(p, k + 1)
<1> DEFINE s == Upto(p, k)
           t == p[k + 1]
           z == Upto(p, k + 1)
<1>1. s \in Seq(Octets) /\ Len(s) = k /\ \A i \in 1..k : s[i] = p[i]
  <2>1. s \in [1..k -> Octets]
    BY DEF Upto
  <2>2. s \in Seq(Octets) /\ Len(s) = k
    BY <2>1
  <2>3. QED
    BY <2>2 DEF Upto
<1>2. Upto(p, 0) = <<>>
  BY DEF Upto
<1>3. ASSUME t \in Octets PROVE Append(s, t) = z
  <2>1. \A i \in 1..(k + 1) : p[i] \in Octets
    <3>1. ASSUME NEW i \in 1..(k + 1) PROVE p[i] \in Octets
      <4>1. i \in 1..k \/ i = k + 1
        OBVIOUS
      <4>2. QED
        BY <1>3, <4>1
    <3>2. QED
      BY <3>1
  <2>2. z \in [1..(k + 1) -> Octets]
    BY <2>1 DEF Upto
  <2>3. z \in Seq(Octets) /\ Len(z) = k + 1 /\ \A i \in 1..(k + 1) : z[i] = p[i]
    BY <2>2 DEF Upto
  <2> HIDE DEF s, z, t
  <2>4. /\ Append(s, t) \in Seq(Octets) /\ Len(Append(s, t)) = k + 1
        /\ \A i \in 1..(k + 1) : Append(s, t)[i] = IF i = k + 1 THEN t ELSE s[i]
    BY <1>1, <1>3
  <2>5. ASSUME NEW i \in 1..(k + 1) PROVE Append(s, t)[i] = z[i]
    <3>1. CASE i = k + 1
      BY <2>3, <2>4, <3>1 DEF t
    <3>2. CASE i # k + 1
      <4>1. i \in 1..k
        BY <3>2
      <4>2. QED
        BY <1>1, <2>3, <2>4, <3>2, <4>1
    <3>3. QED
      BY <3>1, <3>2
  <2>6. QED
    BY <2>3, <2>4, <2>5, SeqEqual
<1>4. QED
  BY <1>1, <1>2, <1>3

\* The scanner has found some lines and the beginning of the next, with d still
\* to read of what is left of the file before u.
HaveSplit(x, d, p, r, u) ==
  \E k \in 0..Len(p) :
    /\ x.tokens = Upto(p, k)
    /\ \/ k = Len(p) /\ x.current = <<>> /\ d = <<>> /\ u = <<>>
       \/ /\ k < Len(p)
          /\ \E y \in Octets : \E z, w : /\ IsJoin(p[k + 1], x.current, y)
                                         /\ IsJoin(z, <<Newline>>, r[k + 1])
                                         /\ IsJoin(w, y, z) /\ IsJoin(w, d, u)

LEMMA NewlineIsOctet == Newline \in Octet /\ <<Newline>> \in Octets
<1>1. Newline \in Octet
  BY DEF Newline, Octet
<1>2. QED
  BY <1>1, OneOctet

LEMMA NoJoin ==
  ASSUME NEW d \in Octets, NEW u \in Octets, IsJoin(<<>>, d, u)
  PROVE  d = <<>> /\ u = <<>>
<1> DEFINE k == Len(d)
           m == Len(u)
<1>1. k \in Nat /\ m \in Nat /\ 0 = k + m
  BY JoinedOctets, NoOctets
<1> HIDE DEF k, m
<1>2. k = 0 /\ m = 0
  BY <1>1
<1>3. Len(d) = 0 /\ Len(u) = 0
  BY <1>2 DEF k, m
<1>4. QED
  BY <1>3, OctetsEqual, NoOctets

LEMMA LineBegins ==
  ASSUME NEW p, NEW a, NEW r, AreLines(p, a, r), NEW u \in Octets, NEW d \in Octets,
         NEW k \in 0..Len(p), IsJoin(r[k], d, u), NEW x, x.tokens = Upto(p, k), x.current = <<>>
  PROVE  HaveSplit(x, d, p, r, u)
<1>1. Len(p) \in Nat /\ Len(a) = Len(p)
  BY DEF AreLines
<1>2. CASE k = Len(p)
  <2>1. r[k] = <<>>
    BY <1>1, <1>2 DEF AreLines, AreRemainders
  <2>2. d = <<>> /\ u = <<>>
    BY <2>1, NoJoin
  <2>3. QED
    BY <1>2, <2>2 DEF HaveSplit
<1>3. CASE k # Len(p)
  <2> DEFINE t == p[k + 1]
             v == r[k + 1]
             o == <<Newline>>
             b == a[k + 1]
             w == r[k]
  <2>1. k < Len(p) /\ k + 1 \in 1..Len(p) /\ (k + 1) - 1 = k /\ k + 1 \in 0..Len(p)
    BY <1>1, <1>3
  <2>2. t \in Octets /\ b = Line(t)
    BY <2>1 DEF AreLines, IsText
  <2>3. v \in Octets /\ w = b \o v
    BY <2>1 DEF AreLines, AreRemainders
  <2>4. o \in Octets
    BY NewlineIsOctet
  <2> HIDE DEF t
  <2>5. IsJoin(b, t, o) /\ IsJoin(w, b, v)
    BY <2>2, <2>3, NewlineIsOctet, AppendIsJoin DEF IsJoin, Line
  <2> HIDE DEF b, v, o, w
  <2>6. PICK z \in Octets : IsJoin(z, o, v) /\ IsJoin(w, t, z)
    BY <2>2, <2>3, <2>4, <2>5, JoinsRegroup
  <2>7. IsJoin(t, <<>>, t)
    BY <2>2, JoinsNothing DEF IsJoin
  <2>8. \E y \in Octets : \E f, g : /\ IsJoin(p[k + 1], x.current, y)
                                    /\ IsJoin(f, <<Newline>>, r[k + 1])
                                    /\ IsJoin(g, y, f) /\ IsJoin(g, d, u)
    BY <2>2, <2>6, <2>7 DEF t, v, o, w
  <2>9. QED
    BY <2>1, <2>8 DEF HaveSplit
<1>4. QED
  BY <1>2, <1>3

LEMMA NextOctetSplits ==
  ASSUME NEW p, NEW a, NEW r, AreLines(p, a, r), NEW u \in Octets, NEW d \in Octets, d # <<>>,
         NEW x \in SplitStates, HaveSplit(x, d, p, r, u)
  PROVE  HaveSplit(ScanOctet(x, Head(d)), Tail(d), p, r, u)
<1> DEFINE h == Head(d)
           x2 == ScanOctet(x, h)
<1>1. PICK k \in 0..Len(p) :
        /\ x.tokens = Upto(p, k)
        /\ k < Len(p)
        /\ \E y \in Octets : \E z, w : /\ IsJoin(p[k + 1], x.current, y)
                                       /\ IsJoin(z, <<Newline>>, r[k + 1])
                                       /\ IsJoin(w, y, z) /\ IsJoin(w, d, u)
  BY DEF HaveSplit
<1>2. PICK y, z, w : /\ y \in Octets /\ IsJoin(p[k + 1], x.current, y)
                     /\ IsJoin(z, <<Newline>>, r[k + 1])
                     /\ IsJoin(w, y, z) /\ IsJoin(w, d, u)
  BY <1>1
<1>3. k + 1 \in 1..Len(p) /\ k + 1 \in 0..Len(p) /\ k \in Nat
  BY <1>1 DEF AreLines
<1> DEFINE t == p[k + 1]
           v == r[k + 1]
<1>4. /\ t \in Octets /\ \A i \in 1..Len(t) : t[i] # Newline
      /\ \A i \in 1..(k + 1) : p[i] \in Octets
  BY <1>3 DEF AreLines, IsText
<1>5. v \in Octets
  BY <1>3 DEF AreLines, AreRemainders
<1>6. x.tokens \in Seq(Octets) /\ x.current \in Octets
  BY DEF SplitStates
<1>7. h \in Octet /\ Tail(d) \in Octets /\ w # <<>> /\ Head(w) = h /\ IsJoin(Tail(w), Tail(d), u)
  BY <1>2, JoinWithoutHead
<1>8. z \in Octets /\ Head(z) = Newline /\ Tail(z) = v
  <2>1. z = <<Newline>> \o v
    BY <1>2 DEF IsJoin
  <2> HIDE DEF v
  <2>2. QED
    BY <1>5, <2>1, NewlineIsOctet, OctetThenRest
<1> HIDE DEF h, t, v
<1>9. CASE y = <<>>
  <2>1. w = z /\ x.current = t
    <3>1. w = <<>> \o z /\ t = x.current \o <<>>
      BY <1>2, <1>9 DEF IsJoin, t
    <3>2. <<>> \o z = z /\ x.current \o <<>> = x.current
      BY <1>6, <1>8, JoinsNothing
    <3>3. QED
      BY <3>1, <3>2
  <2>2. h = Newline /\ IsJoin(r[k + 1], Tail(d), u)
    BY <1>7, <1>8, <2>1 DEF v
  <2>3. x2.tokens = Append(x.tokens, x.current) /\ x2.current = <<>>
    BY <1>7, <2>2, ScanOctetType
  <2>4. x2.tokens = Upto(p, k + 1)
    <3>1. \A i \in 1..k : p[i] \in Octets
      BY <1>3, <1>4
    <3>2. Append(Upto(p, k), p[k + 1]) = Upto(p, k + 1)
      BY <1>3, <1>4, <3>1, TextsGrow DEF t
    <3>3. QED
      BY <1>1, <2>1, <2>3, <3>2 DEF t
  <2> HIDE DEF x2
  <2>5. HaveSplit(x2, Tail(d), p, r, u)
    BY <1>3, <1>7, <2>2, <2>3, <2>4, LineBegins
  <2>6. QED
    BY <2>5 DEF x2, h
<1>10. CASE y # <<>>
  <2>1. h = Head(y) /\ IsJoin(Tail(w), Tail(y), z)
    BY <1>2, <1>7, <1>8, <1>10, JoinWithoutHead
  <2>2. Tail(y) \in Octets /\ IsJoin(t, Append(x.current, h), Tail(y))
    <3>1. IsJoin(t, x.current, y)
      BY <1>2 DEF t
    <3>2. Tail(y) \in Octets /\ IsJoin(t, Append(x.current, Head(y)), Tail(y))
      BY <1>2, <1>6, <1>10, <3>1, HeadMoves
    <3>3. QED
      BY <2>1, <3>2
  <2>3. h # Newline
    <3> DEFINE c == x.current
    <3>1. IsJoin(t, c, y) /\ c \in Octets /\ y \in Octets
      BY <1>2, <1>6 DEF t
    <3> HIDE DEF c
    <3>2. /\ Len(t) = Len(c) + Len(y) /\ Len(c) \in Nat /\ Len(y) \in Nat
          /\ \A i \in 1..Len(y) : t[Len(c) + i] = y[i]
      BY <3>1, JoinedOctets
    <3>3. Len(y) >= 1 /\ Head(y) = y[1]
      BY <1>10, HeadAndTail
    <3>4. t[Len(c) + 1] = y[1]
      BY <3>2, <3>3
    <3>5. Len(c) + 1 \in 1..Len(t)
      <4> DEFINE i == Len(c)
                 j == Len(y)
                 m == Len(t)
      <4>1. m = i + j /\ i \in Nat /\ j \in Nat /\ j >= 1
        BY <3>2, <3>3
      <4> HIDE DEF i, j, m
      <4>2. i + 1 \in 1..m
        BY <4>1
      <4>3. QED
        BY <4>2 DEF i, m
    <3>6. QED
      BY <1>4, <2>1, <3>3, <3>4, <3>5
  <2>4. x2.tokens = x.tokens /\ x2.current = Append(x.current, h)
    BY <1>7, <2>3, ScanOctetType
  <2> HIDE DEF x2
  <2>5. \E y2 \in Octets : \E z2, w2 : /\ IsJoin(p[k + 1], x2.current, y2)
                                       /\ IsJoin(z2, <<Newline>>, r[k + 1])
                                       /\ IsJoin(w2, y2, z2) /\ IsJoin(w2, Tail(d), u)
    BY <1>2, <1>7, <2>1, <2>2, <2>4 DEF t
  <2>6. HaveSplit(x2, Tail(d), p, r, u)
    BY <1>1, <2>4, <2>5 DEF HaveSplit
  <2>7. QED
    BY <2>6 DEF x2, h
<1>11. QED
  BY <1>9, <1>10

\* Lines that are the first k texts, or those and the beginning of the next one.
AreLinesOf(lines, p, u) ==
  \E k \in 0..Len(p) :
    \/ lines = Upto(p, k) /\ (u = <<>> => k = Len(p))
    \/ /\ k < Len(p) /\ u # <<>>
       /\ \E f, y \in Octets : /\ f # <<>> /\ IsJoin(p[k + 1], f, y)
                               /\ lines = Append(Upto(p, k), f)

(* A file, whole or cut off, has the lines that were written, and the      *)
(* beginning of one if it is cut off.                                      *)
LEMMA FileLines ==
  ASSUME NEW p, NEW a, NEW r, AreLines(p, a, r), NEW u \in Octets, NEW c \in Octets,
         IsJoin(r[0], c, u)
  PROVE  AreLinesOf(Lines(c), p, u) /\ Lines(c) \in Seq(Octets)
<1> DEFINE n == Len(c)
           L == Split(c)
           T == {i \in 0..n : HaveSplit(L[i], Rest(c, i), p, r, u)}
<1>1. n \in Nat /\ Len(p) \in Nat /\ \A i \in 1..Len(p) : p[i] \in Octets
  BY OctetsAre DEF AreLines, IsText
<1>2. /\ L \in [0..n -> SplitStates] /\ L[0] = [tokens |-> <<>>, current |-> <<>>]
      /\ \A i \in 1..n : L[i] = ScanOctet(L[i - 1], c[i])
  BY SplitLoop
<1>3. \A i \in 0..n : Rest(c, i) \in Octets /\ Len(Rest(c, i)) = n - i
  BY RestIs
<1> HIDE DEF L
<1>4. 0 \in T
  <2>1. Rest(c, 0) = c
    <3> DEFINE t == Rest(c, 0)
    <3>0. 0 \in 0..Len(c)
      BY <1>1
    <3>1. t \in Octets /\ Len(t) = n - 0 /\ \A i \in 1..(n - 0) : t[i] = c[0 + i]
      BY <3>0, RestIs
    <3> HIDE DEF t
    <3>2. n - 0 = n /\ \A i \in 1..n : 0 + i = i
      BY <1>1
    <3>3. Len(t) = Len(c) /\ \A i \in 1..Len(t) : t[i] = c[i]
      BY <3>1, <3>2
    <3>4. t = c
      BY <3>1, <3>3, OctetsEqual
    <3>5. QED
      BY <3>4 DEF t
  <2>2. Upto(p, 0) = <<>>
    BY DEF Upto
  <2>3. HaveSplit(L[0], c, p, r, u)
    <3>1. 0 \in 0..Len(p) /\ L[0].tokens = Upto(p, 0) /\ L[0].current = <<>>
      BY <1>1, <1>2, <2>2
    <3>2. QED
      BY <3>1, LineBegins
  <2>4. QED
    BY <1>1, <2>1, <2>3
<1>5. ASSUME NEW i \in 0..(n - 1), i \in T PROVE i + 1 \in T
  <2> DEFINE d == Rest(c, i)
  <2>1. i + 1 \in 1..n /\ i + 1 \in 0..n /\ (i + 1) - 1 = i /\ i \in 0..n /\ n - i >= 1
    BY <1>1
  <2>2. d \in Octets /\ d # <<>>
    BY <1>3, <2>1, NoOctets
  <2>3. Head(d) = c[i + 1] /\ Tail(d) = Rest(c, i + 1)
    <3>0. i \in 0..Len(c) /\ i + 1 \in 0..Len(c)
      BY <2>1
    <3>1. Len(d) = n - i /\ \A j \in 1..(n - i) : d[j] = c[i + j]
      BY <3>0, RestIs
    <3> DEFINE t == Tail(d)
               v == Rest(c, i + 1)
    <3>2. v \in Octets /\ Len(v) = n - (i + 1) /\ \A j \in 1..(n - (i + 1)) : v[j] = c[(i + 1) + j]
      BY <3>0, RestIs
    <3> HIDE DEF d, v
    <3>3. /\ Head(d) = d[1] /\ t \in Octets /\ Len(t) = Len(d) - 1
          /\ \A j \in 1..(Len(d) - 1) : t[j] = d[j + 1]
      BY <2>2, HeadAndTail
    <3> HIDE DEF t
    <3>4. Len(t) = Len(v)
      BY <1>1, <2>1, <3>1, <3>2, <3>3
    <3>5. ASSUME NEW j \in 1..Len(t) PROVE t[j] = v[j]
      <4>1. j \in 1..((n - i) - 1) /\ j + 1 \in 1..(n - i) /\ i + (j + 1) = (i + 1) + j
            /\ j \in 1..(n - (i + 1))
        BY <1>1, <2>1, <3>1, <3>3
      <4>2. t[j] = d[j + 1] /\ d[j + 1] = c[i + (j + 1)] /\ v[j] = c[(i + 1) + j]
        BY <3>1, <3>2, <3>3, <4>1
      <4>3. QED
        BY <4>1, <4>2
    <3>6. t = v
      BY <3>2, <3>3, <3>4, <3>5, OctetsEqual
    <3>7. d[1] = c[i + 1]
      BY <1>1, <2>1, <3>1
    <3>8. QED
      BY <3>3, <3>6, <3>7 DEF t, v, d
  <2>4. L[i + 1] = ScanOctet(L[i], c[i + 1]) /\ L[i] \in SplitStates
    BY <1>2, <2>1
  <2>5. HaveSplit(L[i], d, p, r, u)
    BY <1>5
  <2> HIDE DEF d
  <2>6. HaveSplit(ScanOctet(L[i], Head(d)), Tail(d), p, r, u)
    BY <2>2, <2>4, <2>5, NextOctetSplits
  <2>7. HaveSplit(L[i + 1], Rest(c, i + 1), p, r, u)
    BY <2>3, <2>4, <2>6
  <2>8. QED
    BY <2>1, <2>7
<1>6. n \in T
  <2> HIDE DEF T
  <2>1. \A i \in 0..n : i \in T
    BY <1>1, <1>4, <1>5, Steps
  <2>2. QED
    BY <1>1, <2>1
<1> DEFINE x == L[n]
<1>7. Rest(c, n) = <<>>
  <2>1. n \in 0..n /\ n - n = 0
    BY <1>1
  <2>2. Rest(c, n) \in Octets /\ Len(Rest(c, n)) = 0
    BY <1>3, <2>1
  <2>3. QED
    BY <2>2, OctetsEqual, NoOctets
<1>8. HaveSplit(x, <<>>, p, r, u)
  BY <1>6, <1>7
<1>9. Lines(c) = NonEmpty(x).tokens
  BY DEF Lines, L
<1>10. x.tokens \in Seq(Octets) /\ x.current \in Octets /\ x = [tokens |-> x.tokens, current |-> x.current]
  <2>1. x \in SplitStates
    BY <1>1, <1>2
  <2>2. QED
    BY <2>1 DEF SplitStates
<1> HIDE DEF x, T
<1>11. /\ x.current = <<>> => Lines(c) = x.tokens
       /\ x.current # <<>> => Lines(c) = Append(x.tokens, x.current)
  BY <1>9, <1>10 DEF NonEmpty, FlushToken
<1>12. PICK k \in 0..Len(p) :
         /\ x.tokens = Upto(p, k)
         /\ \/ k = Len(p) /\ x.current = <<>> /\ u = <<>>
            \/ /\ k < Len(p)
               /\ \E y \in Octets : \E z, w : /\ IsJoin(p[k + 1], x.current, y)
                                              /\ IsJoin(z, <<Newline>>, r[k + 1])
                                              /\ IsJoin(w, y, z) /\ IsJoin(w, <<>>, u)
  BY <1>8 DEF HaveSplit
<1>13. Lines(c) \in Seq(Octets)
  BY <1>10, <1>11
<1>14. CASE k = Len(p) /\ x.current = <<>> /\ u = <<>>
  BY <1>11, <1>12, <1>13, <1>14 DEF AreLinesOf
<1>15. CASE k < Len(p)
  <2>1. PICK y, z, w : /\ y \in Octets /\ IsJoin(p[k + 1], x.current, y)
                       /\ IsJoin(z, <<Newline>>, r[k + 1])
                       /\ IsJoin(w, y, z) /\ IsJoin(w, <<>>, u)
    BY <1>12, <1>15
  <2>2. u # <<>>
    <3>1. k + 1 \in 0..Len(p)
      BY <1>1, <1>15
    <3>2. r[k + 1] \in Octets
      BY <3>1 DEF AreLines, AreRemainders
    <3>3. z \in Octets /\ z # <<>>
      <4> DEFINE v == r[k + 1]
      <4>1. z = <<Newline>> \o v
        BY <2>1 DEF IsJoin
      <4>2. v \in Octets
        BY <3>2
      <4> HIDE DEF v
      <4>3. QED
        BY <4>1, <4>2, NewlineIsOctet, OctetThenRest
    <3>4. ASSUME u = <<>> PROVE FALSE
      <4>1. w = <<>>
        <5>1. w = <<>> \o <<>>
          BY <2>1, <3>4 DEF IsJoin
        <5>2. QED
          BY <5>1, NoOctets, JoinsNothing
      <4>2. IsJoin(<<>>, y, z)
        BY <2>1, <4>1
      <4>3. QED
        BY <2>1, <3>3, <4>2, NoJoin
    <3>5. QED
      BY <3>4
  <2>3. CASE x.current = <<>>
    BY <1>11, <1>12, <1>13, <2>2, <2>3 DEF AreLinesOf
  <2>4. CASE x.current # <<>>
    <3>1. Lines(c) = Append(Upto(p, k), x.current)
      BY <1>11, <1>12, <2>4
    <3>2. QED
      BY <1>10, <1>13, <1>15, <2>1, <2>2, <2>4, <3>1 DEF AreLinesOf
  <2>5. QED
    BY <2>3, <2>4
<1>16. QED
  BY <1>12, <1>14, <1>15

(* What begins with none of their octets is not a comment.                 *)
LEMMA NoComment ==
  ASSUME NEW s \in Octets, s # <<>>, s[1] \notin {35, 47, 59}
  PROVE  ~IsComment(s)
<1>1. SUFFICES ASSUME NEW mark \in Comments, StartsWith(s, mark) PROVE FALSE
  BY DEF IsComment
<1>2. Len(mark) \in Nat /\ Len(mark) >= 1 /\ mark[1] \in {35, 47, 59}
  <2>1. mark = <<35>> \/ mark = <<47, 47>> \/ mark = <<59>>
    BY DEF Comments
  <2>2. CASE mark = <<35>>
    BY <2>2
  <2>3. CASE mark = <<47, 47>>
    BY <2>3
  <2>4. CASE mark = <<59>>
    BY <2>4
  <2>5. QED
    BY <2>1, <2>2, <2>3, <2>4
<1>3. Len(mark) <= Len(s) /\ SubSeq(s, 1, Len(mark)) = mark
  BY <1>1 DEF StartsWith
<1> DEFINE n == Len(mark)
<1> HIDE DEF n
<1>4. n \in Nat /\ n >= 1 /\ n <= Len(s) /\ SubSeq(s, 1, n) = mark /\ Len(s) \in Nat
  BY <1>2, <1>3, OctetsAre DEF n
<1>5. 1 \in 1..(Len(s) + 1) /\ n \in (1 - 1)..Len(s) /\ 1 \in 1..((n - 1) + 1) /\ (1 + 1) - 1 = 1
  BY <1>4
<1>6. SubSeq(s, 1, n)[1] = s[(1 + 1) - 1]
  BY <1>5, Pieces
<1>7. mark[1] = s[1]
  BY <1>4, <1>5, <1>6
<1>8. QED
  BY <1>2, <1>7

-----------------------------------------------------------------------------
(***************************************************************************)
(* Advanced files.  That a text has none of some octets is said by the     *)
(* set of those it may have.                                               *)
(***************************************************************************)
LEMMA JoinsOver ==
  ASSUME NEW A, NEW s \in Seq(A), NEW t \in Seq(A)
  PROVE  s \o t \in Seq(A)
BY ConcatProperties

LEMMA SequencesOver ==
  ASSUME NEW A, NEW B, A \subseteq B, NEW s \in Seq(A)
  PROVE  s \in Seq(B)
<1>1. Len(s) \in Nat /\ s \in [1..Len(s) -> A]
  OBVIOUS
<1>2. s \in [1..Len(s) -> B]
  BY <1>1
<1>3. QED
  BY <1>1, <1>2

(* A concatenation has the octets of what is concatenated.                 *)
LEMMA ConcatOver ==
  ASSUME NEW A, NEW a \in Seq(Seq(A))
  PROVE  /\ Joined(a)[0] = <<>>
         /\ \A i \in 1..Len(a) : Joined(a)[i] = Joined(a)[i - 1] \o a[i]
         /\ \A i \in 0..Len(a) : Joined(a)[i] \in Seq(A)
         /\ Concat(a) \in Seq(A)
<1> DEFINE n == Len(a)
           S == Seq(A)
           Body(f) == [i \in 0..n |-> IF i = 0 THEN <<>> ELSE f[i - 1] \o a[i]]
           Round == [p \in (1..n) \X S |-> p[2] \o a[p[1]]]
           L == Joined(a)
<1>0. n \in Nat /\ <<>> \in S /\ \A i \in 1..n : a[i] \in S
  OBVIOUS
<1>1. \A x, y \in S : x \o y \in S
  BY JoinsOver
<1> HIDE DEF S
<1>2. Round \in [(1..n) \X S -> S]
  <2> HIDE DEF n
  <2>1. ASSUME NEW p \in (1..n) \X S PROVE p[2] \o a[p[1]] \in S
    <3>1. p[1] \in 1..n /\ p[2] \in S
      OBVIOUS
    <3>2. QED
      BY <1>0, <1>1, <3>1
  <2>2. QED
    BY <2>1
<1>3. PICK f \in [0..n -> S] : IsLoop(f, n, <<>>, Round)
  <2> HIDE DEF n, Round
  <2>1. QED
    BY <1>0, <1>2, LoopStays
<1>4. f = Body(f)
  <2>1. ASSUME NEW i \in 0..n, i # 0
        PROVE  Round[<<i, f[i - 1]>>] = f[i - 1] \o a[i]
    <3>1. <<i, f[i - 1]>> \in (1..n) \X S
      <4>1. i \in 1..n /\ i - 1 \in 0..n
        BY <1>0, <2>1
      <4>2. QED
        BY <1>3, <4>1
    <3>2. QED
      BY <3>1
  <2>2. f = [i \in 0..n |-> IF i = 0 THEN <<>> ELSE Round[<<i, f[i - 1]>>]]
    BY <1>3 DEF IsLoop
  <2> HIDE DEF Round, n
  <2>3. QED
    BY <2>1, <2>2
<1>5. L = Body(L)
  <2>1. L = CHOOSE g : g = Body(g)
    BY DEF Joined
  <2> HIDE DEF Body, L
  <2>2. QED
    BY <1>4, <2>1
<1> HIDE DEF L
<1>6. L[0] = <<>>
  <2>1. 0 \in 0..n
    BY <1>0
  <2>2. QED
    BY <1>5, <2>1
<1>7. ASSUME NEW i \in 1..n PROVE L[i] = L[i - 1] \o a[i]
  <2>1. i \in 0..n /\ i # 0
    BY <1>0
  <2>2. QED
    BY <1>5, <2>1
<1> HIDE DEF n
<1>8. \A i \in 0..n : L[i] \in S
  <2> DEFINE T == {i \in 0..n : L[i] \in S}
  <2>1. 0 \in T
    BY <1>0, <1>6
  <2>2. ASSUME NEW i \in 0..(n - 1), i \in T PROVE i + 1 \in T
    <3>1. i + 1 \in 1..n /\ i + 1 \in 0..n /\ (i + 1) - 1 = i
      BY <1>0
    <3>2. L[i + 1] = L[i] \o a[i + 1]
      BY <1>7, <3>1
    <3>3. L[i] \in S /\ a[i + 1] \in S
      BY <1>0, <2>2, <3>1
    <3>4. QED
      BY <1>1, <3>1, <3>2, <3>3
  <2>3. \A i \in 0..n : i \in T
    <3> HIDE DEF T
    <3>1. QED
      BY <1>0, <2>1, <2>2, Steps
  <2>4. QED
    BY <2>3
<1>9. n \in 0..n
  BY <1>0
<1>10. QED
  BY <1>6, <1>7, <1>8, <1>9 DEF L, n, S, Concat


-----------------------------------------------------------------------------
(***************************************************************************)
(* Tokens.                                                                 *)
(***************************************************************************)
\* What tokenize has after some octets: tokens, the beginning of one, and more.
Scannings(A) == [tokens : Seq(Seq(A)), current : Seq(A), depth : Int, quoted : BOOLEAN]

\* The tokens when one more is ended, if it has begun.
Ended(t) == IF t.current = <<>> THEN t.tokens ELSE Append(t.tokens, t.current)

\* u has these tokens and this beginning, and the rest of t.
Has(u, A, tokens, current, t) ==
  /\ u \in Scannings(A) /\ u.tokens = tokens /\ u.current = current
  /\ u.depth = t.depth /\ u.quoted = t.quoted

LEMMA TokensAreSet ==
  ASSUME NEW A, NEW t \in Scannings(A), NEW x \in Seq(Seq(A))
  PROVE  Has([t EXCEPT !.tokens = x], A, x, t.current, t)
BY DEF Scannings, Has

LEMMA CurrentIsSet ==
  ASSUME NEW A, NEW t \in Scannings(A), NEW x \in Seq(A)
  PROVE  Has([t EXCEPT !.current = x], A, t.tokens, x, t)
BY DEF Scannings, Has

LEMMA DepthIsSet ==
  ASSUME NEW A, NEW t \in Scannings(A), NEW x \in Int
  PROVE  /\ [t EXCEPT !.depth = x] \in Scannings(A)
         /\ [t EXCEPT !.depth = x].tokens = t.tokens /\ [t EXCEPT !.depth = x].current = t.current
         /\ [t EXCEPT !.depth = x].depth = x /\ [t EXCEPT !.depth = x].quoted = t.quoted
BY DEF Scannings

LEMMA QuotedIsSet ==
  ASSUME NEW A, NEW t \in Scannings(A), NEW x \in BOOLEAN
  PROVE  /\ [t EXCEPT !.quoted = x] \in Scannings(A)
         /\ [t EXCEPT !.quoted = x].tokens = t.tokens /\ [t EXCEPT !.quoted = x].current = t.current
         /\ [t EXCEPT !.quoted = x].depth = t.depth /\ [t EXCEPT !.quoted = x].quoted = x
BY DEF Scannings

LEMMA FieldsAre ==
  ASSUME NEW A, NEW t \in Scannings(A)
  PROVE  /\ t.tokens \in Seq(Seq(A)) /\ t.current \in Seq(A) /\ t.depth \in Int /\ t.quoted \in BOOLEAN
         /\ (~t.quoted) \in BOOLEAN
BY DEF Scannings

LEMMA FlushTokenIs ==
  ASSUME NEW A, NEW t \in Scannings(A)
  PROVE  Has(FlushToken(t), A, Append(t.tokens, t.current), <<>>, t)
<1> DEFINE U == Append(t.tokens, t.current)
           u == [t EXCEPT !.tokens = U]
<1>1. U \in Seq(Seq(A)) /\ <<>> \in Seq(A)
  BY FieldsAre
<1> HIDE DEF U
<1>2. [t EXCEPT !.tokens = U, !.current = <<>>] = [u EXCEPT !.current = <<>>]
  BY DEF Scannings
<1>3. Has(u, A, U, t.current, t)
  BY <1>1, TokensAreSet
<1> HIDE DEF u
<1>4. u \in Scannings(A)
  BY <1>3 DEF Has
<1>5. Has([u EXCEPT !.current = <<>>], A, u.tokens, <<>>, u)
  BY <1>1, <1>4, CurrentIsSet
<1>6. QED
  BY <1>2, <1>3, <1>5 DEF FlushToken, Has, U

LEMMA NonEmptyIs ==
  ASSUME NEW A, NEW t \in Scannings(A)
  PROVE  Has(NonEmpty(t), A, Ended(t), <<>>, t)
BY FlushTokenIs DEF NonEmpty, Ended, Has

LEMMA KeepIs ==
  ASSUME NEW A, NEW t \in Scannings(A), NEW c \in A
  PROVE  Has(Keep(t, c), A, t.tokens, Append(t.current, c), t)
<1> DEFINE K == Append(t.current, c)
<1>1. K \in Seq(A)
  BY FieldsAre
<1>2. Keep(t, c) = [t EXCEPT !.current = K]
  BY DEF Keep
<1> HIDE DEF K
<1>3. QED
  BY <1>1, <1>2, CurrentIsSet DEF K

LEMMA KindsOfOctets ==
  /\ Open # Close /\ Open # Quote /\ Close # Quote
  /\ Open \notin Separators /\ Close \notin Separators /\ Quote \notin Separators
BY DEF Open, Close, Quote, Separators, Space

(* One round of the loop, by the octet, outside of quotes.                 *)
LEMMA ScanUnquoted ==
  ASSUME NEW A, NEW t \in Scannings(A), NEW c \in A, ~t.quoted
  PROVE  /\ c = Open => /\ Scan(t, c) \in Scannings(A) /\ ~Scan(t, c).quoted
                        /\ Scan(t, c).tokens = Ended(t) /\ Scan(t, c).current = <<c>>
                        /\ Scan(t, c).depth = t.depth + 1
         /\ c = Close => /\ Scan(t, c) \in Scannings(A) /\ ~Scan(t, c).quoted
                         /\ Scan(t, c).depth = t.depth - 1
                         /\ t.depth - 1 = 0 =>
                              /\ Scan(t, c).tokens = Append(t.tokens, Append(t.current, c))
                              /\ Scan(t, c).current = <<>>
                         /\ t.depth - 1 # 0 =>
                              /\ Scan(t, c).tokens = t.tokens
                              /\ Scan(t, c).current = Append(t.current, c)
         /\ c \in Separators /\ t.depth = 0 => Has(Scan(t, c), A, Ended(t), <<>>, t)
         /\ c \notin {Open, Close, Quote} /\ (c \notin Separators \/ t.depth # 0) =>
              Has(Scan(t, c), A, t.tokens, Append(t.current, c), t)
<1>1. ASSUME c = Open
      PROVE  /\ Scan(t, c) \in Scannings(A) /\ ~Scan(t, c).quoted
             /\ Scan(t, c).tokens = Ended(t) /\ Scan(t, c).current = <<c>>
             /\ Scan(t, c).depth = t.depth + 1
  <2> DEFINE u == NonEmpty(t)
             v == [u EXCEPT !.depth = u.depth + 1]
  <2>1. Scan(t, c) = Keep(v, c)
    BY <1>1, KindsOfOctets DEF Scan
  <2>2. Has(u, A, Ended(t), <<>>, t)
    BY NonEmptyIs
  <2> HIDE DEF u
  <2>3. u \in Scannings(A) /\ u.depth + 1 \in Int
    BY <2>2, FieldsAre DEF Has
  <2>4. /\ v \in Scannings(A) /\ v.tokens = u.tokens /\ v.current = u.current
        /\ v.depth = u.depth + 1 /\ v.quoted = u.quoted
    BY <2>3, DepthIsSet
  <2> HIDE DEF v
  <2>5. Has(Keep(v, c), A, v.tokens, Append(v.current, c), v)
    BY <2>4, KeepIs
  <2>6. Append(<<>>, c) = <<c>>
    OBVIOUS
  <2>7. QED
    BY <2>1, <2>2, <2>4, <2>5, <2>6 DEF Has
<1>2. ASSUME c = Close
      PROVE  /\ Scan(t, c) \in Scannings(A) /\ ~Scan(t, c).quoted
             /\ Scan(t, c).depth = t.depth - 1
             /\ t.depth - 1 = 0 =>
                  /\ Scan(t, c).tokens = Append(t.tokens, Append(t.current, c))
                  /\ Scan(t, c).current = <<>>
             /\ t.depth - 1 # 0 =>
                  /\ Scan(t, c).tokens = t.tokens
                  /\ Scan(t, c).current = Append(t.current, c)
  <2> DEFINE u == Keep(t, c)
             v == [u EXCEPT !.depth = u.depth - 1]
  <2>1. Scan(t, c) = IF v.depth = 0 THEN FlushToken(v) ELSE v
    BY <1>2, KindsOfOctets DEF Scan
  <2>2. Has(u, A, t.tokens, Append(t.current, c), t)
    BY KeepIs
  <2> HIDE DEF u
  <2>3. u \in Scannings(A) /\ u.depth - 1 \in Int
    BY <2>2, FieldsAre DEF Has
  <2>4. /\ v \in Scannings(A) /\ v.tokens = u.tokens /\ v.current = u.current
        /\ v.depth = u.depth - 1 /\ v.quoted = u.quoted
    BY <2>3, DepthIsSet
  <2> HIDE DEF v
  <2>5. Has(FlushToken(v), A, Append(v.tokens, v.current), <<>>, v)
    BY <2>4, FlushTokenIs
  <2>6. QED
    BY <2>1, <2>2, <2>4, <2>5 DEF Has
<1>3. ASSUME c \in Separators, t.depth = 0 PROVE Has(Scan(t, c), A, Ended(t), <<>>, t)
  <2>1. Scan(t, c) = NonEmpty(t)
    BY <1>3, KindsOfOctets DEF Scan
  <2>2. QED
    BY <2>1, NonEmptyIs
<1>4. ASSUME c \notin {Open, Close, Quote}, c \notin Separators \/ t.depth # 0
      PROVE  Has(Scan(t, c), A, t.tokens, Append(t.current, c), t)
  <2>1. Scan(t, c) = Keep(t, c)
    BY <1>4 DEF Scan
  <2>2. QED
    BY <2>1, KeepIs
<1>5. QED
  BY <1>1, <1>2, <1>3, <1>4

(* And in any case.                                                        *)
LEMMA ScanQuoted ==
  ASSUME NEW A, NEW t \in Scannings(A), NEW c \in A, t.quoted \/ c = Quote
  PROVE  /\ Scan(t, c) \in Scannings(A)
         /\ Scan(t, c).tokens = t.tokens /\ Scan(t, c).current = Append(t.current, c)
<1>1. CASE c = Quote
  <2> DEFINE b == ~t.quoted
             v == [t EXCEPT !.quoted = b]
  <2>1. Scan(t, c) = Keep(v, c)
    BY <1>1, KindsOfOctets DEF Scan
  <2>2. b \in BOOLEAN
    BY FieldsAre
  <2> HIDE DEF b
  <2>3. v \in Scannings(A) /\ v.tokens = t.tokens /\ v.current = t.current
    BY <2>2, QuotedIsSet
  <2> HIDE DEF v
  <2>4. Has(Keep(v, c), A, v.tokens, Append(v.current, c), v)
    BY <2>3, KeepIs
  <2>5. QED
    BY <2>1, <2>3, <2>4 DEF Has
<1>2. CASE c # Quote
  <2>1. Scan(t, c) = Keep(t, c)
    BY <1>2 DEF Scan
  <2>2. QED
    BY <2>1, KeepIs DEF Has
<1>3. QED
  BY <1>1, <1>2

\* No token is longer than n.
Bounded(tokens, n) == \A i \in 1..Len(tokens) : Len(tokens[i]) <= n

LEMMA AppendIs ==
  ASSUME NEW S, NEW s \in Seq(S), NEW e \in S
  PROVE  /\ Append(s, e) \in Seq(S) /\ Len(Append(s, e)) = Len(s) + 1 /\ Len(s) \in Nat
         /\ \A i \in 1..Len(s) : Append(s, e)[i] = s[i] /\ s[i] \in S
         /\ Append(s, e)[Len(s) + 1] = e
OBVIOUS

LEMMA BoundedGrows ==
  ASSUME NEW A, NEW T \in Seq(Seq(A)), NEW n \in Nat, Bounded(T, n)
  PROVE  /\ Bounded(T, n + 1)
         /\ \A D \in Seq(A) : Len(D) <= n + 1 => Bounded(Append(T, D), n + 1)
<1>0. Len(T) \in Nat
  OBVIOUS
<1>1. ASSUME NEW i \in 1..Len(T) PROVE Len(T[i]) <= n + 1
  <2> DEFINE m == Len(T[i])
  <2>1. m \in Nat
    OBVIOUS
  <2>2. m <= n
    BY <1>1 DEF Bounded
  <2> HIDE DEF m
  <2>3. m <= n + 1
    BY <2>1, <2>2
  <2>4. QED
    BY <2>3 DEF m
<1>2. ASSUME NEW D \in Seq(A), Len(D) <= n + 1 PROVE Bounded(Append(T, D), n + 1)
  <2> DEFINE U == Append(T, D)
  <2>1. /\ Len(U) = Len(T) + 1
        /\ \A i \in 1..Len(T) : U[i] = T[i]
        /\ U[Len(T) + 1] = D
    BY AppendIs
  <2> HIDE DEF U
  <2>2. ASSUME NEW i \in 1..Len(U) PROVE Len(U[i]) <= n + 1
    <3>1. CASE i = Len(T) + 1
      BY <1>2, <2>1, <3>1
    <3>2. CASE i # Len(T) + 1
      <4>1. i \in 1..Len(T)
        BY <1>0, <2>1, <3>2
      <4>2. QED
        BY <1>1, <2>1, <4>1
    <3>3. QED
      BY <3>1, <3>2
  <2>3. QED
    BY <2>2 DEF Bounded, U
<1>3. QED
  BY <1>1, <1>2 DEF Bounded

(* No round makes a token longer by more than the octet that it takes.     *)
LEMMA ScanGoes ==
  ASSUME NEW A, NEW t \in Scannings(A), NEW c \in A
  PROVE  /\ Scan(t, c) \in Scannings(A)
         /\ \A n \in Nat : Len(t.current) <= n /\ Bounded(t.tokens, n) =>
              Len(Scan(t, c).current) <= n + 1 /\ Bounded(Scan(t, c).tokens, n + 1)
<1> DEFINE T == t.tokens
           C == t.current
           K == Append(C, c)
           one == <<c>>
           u == Scan(t, c)
<1>0. /\ T \in Seq(Seq(A)) /\ C \in Seq(A) /\ K \in Seq(A) /\ Len(K) = Len(C) + 1 /\ Len(C) \in Nat
      /\ Len(one) = 1 /\ Len(<<>>) = 0
  BY FieldsAre
<1>1. /\ u \in Scannings(A) /\ u.tokens \in {T, Append(T, C), Append(T, K)}
      /\ u.current \in {<<>>, one, K}
  <2>1. CASE t.quoted \/ c = Quote
    BY <2>1, ScanQuoted
  <2>2. CASE ~t.quoted /\ c # Quote
    <3>0. Ended(t) \in {T, Append(T, C)}
      BY DEF Ended
    <3>1. CASE c = Open
      <4>1. u \in Scannings(A) /\ u.tokens = Ended(t) /\ u.current = one
        BY <2>2, <3>1, ScanUnquoted
      <4> HIDE DEF T, C, K, one, u
      <4>2. QED
        BY <3>0, <4>1
    <3>2. CASE c = Close
      BY <2>2, <3>2, ScanUnquoted
    <3>3. CASE c \in Separators /\ t.depth = 0
      <4>1. u \in Scannings(A) /\ u.tokens = Ended(t) /\ u.current = <<>>
        BY <2>2, <3>3, ScanUnquoted DEF Has
      <4> HIDE DEF T, C, K, one, u
      <4>2. QED
        BY <3>0, <4>1
    <3>4. CASE c \notin {Open, Close, Quote} /\ (c \notin Separators \/ t.depth # 0)
      BY <2>2, <3>4, ScanUnquoted DEF Has
    <3>5. QED
      BY <2>2, <3>1, <3>2, <3>3, <3>4
  <2>3. QED
    BY <2>1, <2>2
<1> HIDE DEF T, C, K, one, u
<1>2. ASSUME NEW n \in Nat, Len(C) <= n, Bounded(T, n)
      PROVE  Len(u.current) <= n + 1 /\ Bounded(u.tokens, n + 1)
  <2>1. Len(C) <= n + 1 /\ Len(K) <= n + 1 /\ Len(one) <= n + 1 /\ Len(<<>>) <= n + 1
    BY <1>0, <1>2
  <2>2. Bounded(T, n + 1) /\ Bounded(Append(T, C), n + 1) /\ Bounded(Append(T, K), n + 1)
    BY <1>0, <1>2, <2>1, BoundedGrows
  <2>3. QED
    BY <1>1, <2>1, <2>2
<1>3. QED
  BY <1>1, <1>2 DEF T, C, u

\* What tokenize starts with.
ScanStart == [tokens |-> <<>>, current |-> <<>>, depth |-> 0, quoted |-> FALSE]

LEMMA ScanStartIs ==
  ASSUME NEW A
  PROVE  /\ ScanStart \in Scannings(A) /\ ScanStart.tokens = <<>> /\ ScanStart.current = <<>>
         /\ ScanStart.depth = 0 /\ ~ScanStart.quoted
<1>1. <<>> \in Seq(A) /\ <<>> \in Seq(Seq(A))
  OBVIOUS
<1>2. QED
  BY <1>1 DEF ScanStart, Scannings

(* The loop of tokenize is what its definition says.                       *)
LEMMA ScanLoop ==
  ASSUME NEW A, NEW s \in Seq(A)
  PROVE  /\ \A i \in 0..Len(s) : Scanned(s)[i] \in Scannings(A)
         /\ Scanned(s)[0] = ScanStart
         /\ \A i \in 1..Len(s) : Scanned(s)[i] = Scan(Scanned(s)[i - 1], s[i])
<1> DEFINE n == Len(s)
           S == Scannings(A)
           Body(f) == [i \in 0..n |-> IF i = 0 THEN ScanStart ELSE Scan(f[i - 1], s[i])]
           Round == [p \in (1..n) \X S |-> Scan(p[2], s[p[1]])]
           L == Scanned(s)
<1>0. n \in Nat /\ \A i \in 1..n : s[i] \in A
  OBVIOUS
<1>1. ScanStart \in S
  BY ScanStartIs
<1>2. Round \in [(1..n) \X S -> S]
  <2>1. ASSUME NEW p \in (1..n) \X S PROVE Scan(p[2], s[p[1]]) \in S
    <3>1. s[p[1]] \in A /\ p[2] \in S
      BY <1>0
    <3>2. QED
      BY <3>1, ScanGoes
  <2> HIDE DEF S
  <2>2. QED
    BY <2>1
<1> HIDE DEF S
<1>3. PICK f \in [0..n -> S] : IsLoop(f, n, ScanStart, Round)
  <2> HIDE DEF Round, n
  <2>1. QED
    BY <1>0, <1>1, <1>2, LoopStays
<1>4. f = Body(f)
  <2>1. ASSUME NEW i \in 0..n, i # 0
        PROVE  Round[<<i, f[i - 1]>>] = Scan(f[i - 1], s[i])
    <3>1. i \in 1..n /\ i - 1 \in 0..n
      BY <1>0, <2>1
    <3>2. <<i, f[i - 1]>> \in (1..n) \X S
      BY <1>3, <3>1
    <3>3. QED
      BY <3>2
  <2>2. f = [i \in 0..n |-> IF i = 0 THEN ScanStart ELSE Round[<<i, f[i - 1]>>]]
    BY <1>3 DEF IsLoop
  <2> HIDE DEF Round, n
  <2>3. QED
    BY <2>1, <2>2
<1>5. L = Body(L)
  <2>1. L = CHOOSE g : g = Body(g)
    BY DEF Scanned, ScanStart
  <2> HIDE DEF Body, L
  <2>2. QED
    BY <1>4, <2>1
<1> HIDE DEF L
<1>6. L[0] = ScanStart
  <2>1. 0 \in 0..n
    BY <1>0
  <2>2. QED
    BY <1>5, <2>1
<1>7. ASSUME NEW i \in 1..n PROVE L[i] = Scan(L[i - 1], s[i])
  <2>1. i \in 0..n /\ i # 0
    BY <1>0
  <2>2. QED
    BY <1>5, <2>1
<1> HIDE DEF n
<1>8. \A i \in 0..n : L[i] \in S
  <2> DEFINE T == {i \in 0..n : L[i] \in S}
  <2>1. 0 \in T
    BY <1>0, <1>1, <1>6
  <2>2. ASSUME NEW i \in 0..(n - 1), i \in T PROVE i + 1 \in T
    <3>1. i + 1 \in 1..n /\ i + 1 \in 0..n /\ (i + 1) - 1 = i
      BY <1>0
    <3>2. L[i + 1] = Scan(L[i], s[i + 1])
      BY <1>7, <3>1
    <3>3. L[i] \in S /\ s[i + 1] \in A
      BY <1>0, <2>2, <3>1
    <3>4. Scan(L[i], s[i + 1]) \in S
      BY <3>3, ScanGoes DEF S
    <3>5. QED
      BY <3>1, <3>2, <3>4
  <2>3. \A i \in 0..n : i \in T
    <3> HIDE DEF T
    <3>1. QED
      BY <1>0, <2>1, <2>2, Steps
  <2>4. QED
    BY <2>3
<1>9. QED
  BY <1>6, <1>7, <1>8 DEF L, n, S

(* No token is longer than the text, nor has it other octets.              *)
LEMMA TokensAreBounded ==
  ASSUME NEW A, NEW s \in Seq(A)
  PROVE  Tokenize(s) \in Seq(Seq(A)) /\ Bounded(Tokenize(s), Len(s))
<1> DEFINE n == Len(s)
           L == Scanned(s)
           Fits(i) == Len(L[i].current) <= i /\ Bounded(L[i].tokens, i)
           U == {i \in 0..n : Fits(i)}
<1>0. n \in Nat /\ \A i \in 1..n : s[i] \in A
  OBVIOUS
<1>1. /\ \A i \in 0..n : L[i] \in Scannings(A)
      /\ L[0] = ScanStart
      /\ \A i \in 1..n : L[i] = Scan(L[i - 1], s[i])
  BY ScanLoop
<1> HIDE DEF n, L
<1>2. 0 \in U
  <2>1. L[0].tokens = <<>> /\ L[0].current = <<>>
    BY <1>1, ScanStartIs
  <2>2. QED
    BY <1>0, <2>1 DEF Bounded
<1>3. ASSUME NEW i \in 0..(n - 1), i \in U PROVE i + 1 \in U
  <2>1. i \in Nat /\ i + 1 \in 1..n /\ i + 1 \in 0..n /\ i \in 0..n /\ (i + 1) - 1 = i
    BY <1>0
  <2>2. L[i + 1] = Scan(L[i], s[i + 1]) /\ L[i] \in Scannings(A) /\ s[i + 1] \in A
    BY <1>0, <1>1, <2>1
  <2>3. Len(L[i].current) <= i /\ Bounded(L[i].tokens, i)
    BY <1>3
  <2>4. Fits(i + 1)
    BY <2>1, <2>2, <2>3, ScanGoes
  <2> HIDE DEF Fits
  <2>5. QED
    BY <2>1, <2>4
<1>4. \A i \in 0..n : i \in U
  <2> HIDE DEF U
  <2>1. QED
    BY <1>0, <1>2, <1>3, Steps
<1>5. n \in 0..n
  BY <1>0
<1> DEFINE t == L[n]
<1>6. t \in Scannings(A) /\ Len(t.current) <= n /\ Bounded(t.tokens, n)
  BY <1>1, <1>4, <1>5
<1> HIDE DEF t
<1>7. NonEmpty(t) \in Scannings(A) /\ NonEmpty(t).tokens = Ended(t)
  BY <1>6, NonEmptyIs DEF Has
<1>8. t.tokens \in Seq(Seq(A)) /\ t.current \in Seq(A) /\ Ended(t) \in Seq(Seq(A))
  BY <1>6, <1>7, FieldsAre
<1>9. Bounded(Ended(t), n)
  <2>1. CASE t.current = <<>>
    BY <1>6, <2>1 DEF Ended
  <2>2. CASE t.current # <<>>
    <3> DEFINE T == t.tokens
               C == t.current
    <3>1. n # 0
      <4>1. C \in Seq(A) /\ C # <<>> /\ Len(C) <= n
        BY <1>6, <1>8, <2>2
      <4> HIDE DEF C
      <4>2. Len(C) \in Nat /\ Len(C) # 0
        BY <4>1
      <4>3. QED
        BY <1>0, <4>1, <4>2
    <3>2. Ended(t) = Append(T, C)
      BY <2>2 DEF Ended
    <3>3. T \in Seq(Seq(A)) /\ C \in Seq(A) /\ Len(C) <= n /\ Bounded(T, n)
      BY <1>6, <1>8
    <3> HIDE DEF T, C
    <3> DEFINE V == Append(T, C)
    <3>4. /\ Len(V) = Len(T) + 1 /\ Len(T) \in Nat
          /\ \A i \in 1..Len(T) : V[i] = T[i]
          /\ V[Len(T) + 1] = C
      BY <3>3, AppendIs
    <3> HIDE DEF V
    <3>5. ASSUME NEW i \in 1..Len(V) PROVE Len(V[i]) <= n
      <4>1. CASE i = Len(T) + 1
        BY <3>3, <3>4, <4>1
      <4>2. CASE i # Len(T) + 1
        <5>1. i \in 1..Len(T)
          BY <3>4, <4>2
        <5>2. QED
          BY <3>3, <3>4, <5>1 DEF Bounded
      <4>3. QED
        BY <4>1, <4>2
    <3>6. QED
      BY <3>2, <3>5 DEF Bounded, V
  <2>3. QED
    BY <2>1, <2>2
<1>10. QED
  BY <1>7, <1>8, <1>9 DEF Tokenize, t, L, n

-----------------------------------------------------------------------------
(***************************************************************************)
(* From tokens to a canonical form.  The function that calls itself for    *)
(* what is in a token that opens is one: such tokens become shorter.       *)
(***************************************************************************)
Signs == Octet \union {Panicking}
Texts == Seq(Signs)
TokenLists == Seq(Texts)

IsOpen(token) == token # <<>> /\ Head(token) = Open

\* What the definition says, with f in place of TokensToCanonical.
CanonicalBy(f, token) == IF IsOpen(token) THEN f[Tokenize(Inner(token))] ELSE LengthValue(token)
PartsBy(f, tokens) == Concat([i \in DOMAIN tokens |-> CanonicalBy(f, tokens[i])])
TokensBy(f, tokens) ==
  IF Len(tokens) < 2 THEN PartsBy(f, tokens) ELSE <<Open>> \o PartsBy(f, tokens) \o <<Close>>

\* No token that opens is longer than n, which is where the measure comes from.
OpenBound(tokens, n) == \A i \in 1..Len(tokens) : IsOpen(tokens[i]) => Len(tokens[i]) <= n
OpenBounds(tokens) == {n \in Nat : OpenBound(tokens, n)}
Longest(tokens) ==
  CHOOSE n \in OpenBounds(tokens) : \A k \in OpenBounds(tokens) : n <= k

(* Every set of numbers has a least one.                                   *)
LEMMA LeastExists ==
  ASSUME NEW S \in SUBSET Nat, NEW k \in S
  PROVE  \E m \in S : \A j \in S : m <= j
<1> DEFINE Found == \E m \in S : \A j \in S : m <= j
           T == {n \in Nat : n \in S => Found}
<1>1. ASSUME NEW n \in Nat, \A m \in 0..(n - 1) : m \in T PROVE n \in T
  <2>1. SUFFICES ASSUME n \in S PROVE Found
    OBVIOUS
  <2>2. CASE \E j \in S : ~(n <= j)
    <3>1. PICK j \in S : ~(n <= j)
      BY <2>2
    <3>2. j \in 0..(n - 1)
      BY <3>1
    <3>3. QED
      BY <1>1, <3>1, <3>2
  <2>3. CASE ~\E j \in S : ~(n <= j)
    BY <2>1, <2>3
  <2>4. QED
    BY <2>2, <2>3
<1>2. \A n \in Nat : n \in T
  <2> HIDE DEF T
  <2>1. QED
    BY <1>1, Strong
<1>3. k \in Nat /\ k \in T
  BY <1>2
<1>4. QED
  BY <1>3

(* The strings of a list are bounded.                                      *)
LEMMA BoundExists ==
  ASSUME NEW A, NEW q \in Seq(Seq(A))
  PROVE  \E n \in Nat : Bounded(q, n)
<1> DEFINE m == Len(q)
           ShortUntil(k, n) == \A i \in 1..k : Len(q[i]) <= n
           T == {k \in 0..m : \E n \in Nat : ShortUntil(k, n)}
<1>0. m \in Nat /\ \A i \in 1..m : Len(q[i]) \in Nat
  <2>1. \A i \in 1..m : q[i] \in Seq(A)
    OBVIOUS
  <2>2. QED
    BY <2>1
<1> HIDE DEF m
<1>1. 0 \in T
  BY <1>0
<1>2. ASSUME NEW k \in 0..(m - 1), k \in T PROVE k + 1 \in T
  <2>1. PICK n \in Nat : ShortUntil(k, n)
    BY <1>2
  <2>2. k + 1 \in 1..m /\ k + 1 \in 0..m /\ k \in Nat
    BY <1>0
  <2> DEFINE h == Len(q[k + 1])
  <2>3. h \in Nat
    BY <1>0, <2>2
  <2>4. ASSUME NEW i \in 1..(k + 1) PROVE Len(q[i]) <= n + h
    <3>1. CASE i = k + 1
      <4> HIDE DEF h
      <4>1. h <= n + h
        BY <2>3
      <4>2. QED
        BY <3>1, <4>1 DEF h
    <3>2. CASE i # k + 1
      <4> HIDE DEF h
      <4> DEFINE g == Len(q[i])
      <4>1. i \in 1..k /\ i \in 1..m
        BY <1>0, <2>2, <3>2
      <4>2. g \in Nat
        BY <1>0, <4>1
      <4>3. g <= n
        BY <2>1, <4>1
      <4> HIDE DEF g
      <4>4. g <= n + h
        BY <2>3, <4>2, <4>3
      <4>5. QED
        BY <4>4 DEF g
    <3>3. QED
      BY <3>1, <3>2
  <2>5. n + h \in Nat
    <3> HIDE DEF h
    <3>1. QED
      BY <2>3
  <2> HIDE DEF h
  <2>6. ShortUntil(k + 1, n + h)
    BY <2>4
  <2> HIDE DEF ShortUntil
  <2>7. QED
    BY <2>2, <2>5, <2>6
<1>3. \A k \in 0..m : k \in T
  <2> HIDE DEF T
  <2>1. QED
    BY <1>0, <1>1, <1>2, Steps
<1>4. \E n \in Nat : ShortUntil(m, n)
  <2>1. m \in 0..m
    BY <1>0
  <2> HIDE DEF ShortUntil
  <2>2. QED
    BY <1>3, <2>1
<1>5. QED
  BY <1>4 DEF Bounded, m

(* The measure is a bound, and the least.                                  *)
LEMMA LongestIs ==
  ASSUME NEW q \in TokenLists
  PROVE  /\ Longest(q) \in Nat /\ OpenBound(q, Longest(q))
         /\ \A k \in Nat : OpenBound(q, k) => Longest(q) <= k
<1> DEFINE B == OpenBounds(q)
<1>1. \E n \in B : TRUE
  <2>1. PICK n \in Nat : Bounded(q, n)
    BY BoundExists DEF TokenLists, Texts
  <2>2. QED
    BY <2>1 DEF Bounded, OpenBound, OpenBounds
<1>2. B \in SUBSET Nat
  BY DEF OpenBounds
<1>3. Longest(q) = CHOOSE n \in B : \A k \in B : n <= k
  BY DEF Longest
<1> HIDE DEF B
<1>4. \E n \in B : \A k \in B : n <= k
  BY <1>1, <1>2, LeastExists
<1>5. Longest(q) \in B /\ \A k \in B : Longest(q) <= k
  BY <1>3, <1>4
<1>6. QED
  BY <1>5 DEF B, OpenBounds

LEMMA PiecesOver ==
  ASSUME NEW A, NEW s \in Seq(A), NEW m \in 1..(Len(s) + 1), NEW n \in (m - 1)..Len(s)
  PROVE  /\ SubSeq(s, m, n) \in Seq(A) /\ Len(SubSeq(s, m, n)) = (n - m) + 1
         /\ \A i \in 1..((n - m) + 1) : SubSeq(s, m, n)[i] = s[(m + i) - 1]
<1>1. Len(s) \in Nat /\ \A i \in 1..Len(s) : s[i] \in A
  OBVIOUS
<1>2. m \in Int /\ n \in Int /\ \A i \in m..n : s[i] \in A
  BY <1>1
<1> DEFINE t == SubSeq(s, m, n)
<1>3. /\ t \in Seq(A)
      /\ Len(t) = IF m <= n THEN n - m + 1 ELSE 0
      /\ \A i \in 1..n - m + 1 : t[i] = s[m + i - 1]
  BY <1>2, SubSeqProperties
<1> HIDE DEF t
<1>4. Len(t) = (n - m) + 1
  BY <1>1, <1>3
<1>5. \A i \in 1..((n - m) + 1) : t[i] = s[(m + i) - 1]
  BY <1>2, <1>3
<1>6. QED
  BY <1>3, <1>4, <1>5 DEF t

(* What is in a token that opens has only shorter ones.                    *)
LEMMA InnerIsShorter ==
  ASSUME NEW token \in Texts, token # <<>>
  PROVE  /\ Inner(token) \in Texts /\ Tokenize(Inner(token)) \in TokenLists
         /\ \E n \in Nat : n < Len(token) /\ OpenBound(Tokenize(Inner(token)), n)
<1>0. Len(token) \in Nat /\ Len(token) # 0
  BY DEF Texts
<1>1. CASE Len(token) >= 2
  <2> DEFINE s == SubSeq(token, 2, Len(token) - 1)
             n == Len(token) - 2
  <2>1. s \in Texts /\ Len(s) = n /\ n \in Nat /\ n < Len(token)
    <3>1. 2 \in 1..(Len(token) + 1) /\ Len(token) - 1 \in 1..Len(token)
      BY <1>0, <1>1
    <3>2. s \in Texts /\ Len(s) = ((Len(token) - 1) - 2) + 1
      <4> DEFINE m == 2
                 k == Len(token) - 1
      <4>1. m \in 1..(Len(token) + 1) /\ k \in (m - 1)..Len(token)
        BY <3>1
      <4> HIDE DEF m, k
      <4>2. SubSeq(token, m, k) \in Texts /\ Len(SubSeq(token, m, k)) = (k - m) + 1
        BY <4>1, PiecesOver DEF Texts
      <4>3. QED
        BY <4>2 DEF m, k
    <3>3. QED
      BY <1>0, <1>1, <3>2
  <2>2. Inner(token) = s
    BY <1>0, <1>1 DEF Inner
  <2> HIDE DEF s, n
  <2>3. Tokenize(s) \in TokenLists /\ Bounded(Tokenize(s), n)
    BY <2>1, TokensAreBounded DEF Texts, TokenLists
  <2>4. QED
    BY <2>1, <2>2, <2>3 DEF Bounded, OpenBound
<1>2. CASE ~(Len(token) >= 2)
  <2> DEFINE s == <<Panicking>>
             q == Tokenize(s)
             P == {Panicking}
  <2>1. Inner(token) = s
    BY <1>0, <1>2 DEF Inner
  <2>2. s \in Seq(P) /\ s \in Texts
    BY DEF Signs, Texts
  <2> HIDE DEF s, P
  <2>3. q \in Seq(Seq(P)) /\ q \in TokenLists
    BY <2>2, TokensAreBounded DEF Texts, TokenLists
  <2> HIDE DEF q
  <2>4. ASSUME NEW i \in 1..Len(q), IsOpen(q[i]) PROVE FALSE
    <3> DEFINE w == q[i]
    <3>1. w \in Seq(P) /\ w # <<>> /\ Head(w) = Open
      BY <2>3, <2>4 DEF IsOpen
    <3> HIDE DEF w
    <3>2. Head(w) \in P
      BY <3>1
    <3>3. QED
      BY <3>1, <3>2 DEF P, Panicking, Open
  <2>5. OpenBound(q, 0)
    BY <2>4 DEF OpenBound
  <2>6. 0 \in Nat /\ 0 < Len(token)
    BY <1>0
  <2>7. QED
    BY <2>1, <2>2, <2>3, <2>5, <2>6 DEF q
<1>3. QED
  BY <1>1, <1>2

LEMMA LengthValueOver ==
  ASSUME NEW t \in Texts
  PROVE  LengthValue(t) \in Texts
<1>1. Decimal[Len(t)] \in Texts
  <2>1. Len(t) \in Nat
    BY DEF Texts
  <2>2. Digits \subseteq Signs
    BY DEF Digits, Signs, Octet
  <2>3. QED
    BY <2>1, <2>2, DecimalIsDigits, SequencesOver DEF Texts
<1>2. <<Colon>> \in Texts
  <2>1. Colon \in Signs
    BY DEF Colon, Signs, Octet
  <2>2. QED
    BY <2>1 DEF Texts
<1> DEFINE d == Decimal[Len(t)]
           c == <<Colon>>
<1>3. LengthValue(t) = d \o c \o t
  BY DEF LengthValue
<1> HIDE DEF d, c
<1>4. d \o c \in Texts
  BY <1>1, <1>2, JoinsOver DEF Texts, d, c
<1>5. (d \o c) \o t \in Texts
  BY <1>4, JoinsOver DEF Texts
<1>6. QED
  BY <1>3, <1>5

(* What the definition builds from f is of the right type.                 *)
LEMMA CanonicalByType ==
  ASSUME NEW f \in [TokenLists -> Texts], NEW token \in Texts
  PROVE  CanonicalBy(f, token) \in Texts
<1>1. CASE IsOpen(token)
  <2>1. Tokenize(Inner(token)) \in TokenLists
    BY <1>1, InnerIsShorter DEF IsOpen
  <2>2. QED
    BY <1>1, <2>1 DEF CanonicalBy
<1>2. CASE ~IsOpen(token)
  BY <1>2, LengthValueOver DEF CanonicalBy
<1>3. QED
  BY <1>1, <1>2

LEMMA PartsByType ==
  ASSUME NEW f \in [TokenLists -> Texts], NEW q \in TokenLists
  PROVE  PartsBy(f, q) \in Texts
<1> DEFINE a == [i \in DOMAIN q |-> CanonicalBy(f, q[i])]
<1>1. Len(q) \in Nat /\ DOMAIN q = 1..Len(q) /\ \A i \in 1..Len(q) : q[i] \in Texts
  BY DEF TokenLists
<1>2. \A i \in 1..Len(q) : CanonicalBy(f, q[i]) \in Texts
  BY <1>1, CanonicalByType
<1>3. a \in [1..Len(q) -> Texts]
  BY <1>1, <1>2
<1> HIDE DEF a
<1>4. a \in Seq(Texts)
  BY <1>1, <1>3
<1>5. Concat(a) \in Texts
  BY <1>4, ConcatOver DEF Texts
<1>6. QED
  BY <1>5 DEF PartsBy, a

LEMMA TokensByType ==
  ASSUME NEW f \in [TokenLists -> Texts], NEW q \in TokenLists
  PROVE  TokensBy(f, q) \in Texts
<1>1. PartsBy(f, q) \in Texts
  BY PartsByType
<1>2. <<Open>> \in Texts /\ <<Close>> \in Texts
  <2>1. Open \in Signs /\ Close \in Signs
    BY DEF Open, Close, Signs, Octet
  <2>2. QED
    BY <2>1 DEF Texts
<1> DEFINE p == PartsBy(f, q)
           o == <<Open>>
           c == <<Close>>
<1>3. TokensBy(f, q) = IF Len(q) < 2 THEN p ELSE o \o p \o c
  BY DEF TokensBy
<1> HIDE DEF p, o, c
<1>4. p \in Texts /\ o \o p \in Texts
  BY <1>1, <1>2, JoinsOver DEF Texts, p, o
<1>5. (o \o p) \o c \in Texts
  BY <1>2, <1>4, JoinsOver DEF Texts, c
<1>6. QED
  BY <1>3, <1>4, <1>5

(* What f has for tokens that open less far is all that counts.            *)
LEMMA TokensByDepends ==
  ASSUME NEW f, NEW g, NEW q \in TokenLists,
         \A y \in TokenLists : Longest(y) < Longest(q) => f[y] = g[y]
  PROVE  TokensBy(f, q) = TokensBy(g, q)
<1>1. Len(q) \in Nat /\ DOMAIN q = 1..Len(q) /\ \A i \in 1..Len(q) : q[i] \in Texts
  BY DEF TokenLists
<1>2. ASSUME NEW i \in 1..Len(q) PROVE CanonicalBy(f, q[i]) = CanonicalBy(g, q[i])
  <2> DEFINE token == q[i]
             y == Tokenize(Inner(token))
             n == Len(token)
  <2>1. CASE ~IsOpen(token)
    BY <2>1 DEF CanonicalBy
  <2>2. CASE IsOpen(token)
    <3>1. token \in Texts /\ token # <<>> /\ n \in Nat
      <4>1. token \in Texts
        BY <1>1
      <4> HIDE DEF token
      <4>2. QED
        BY <2>2, <4>1 DEF IsOpen, Texts
    <3>2. n <= Longest(q) /\ Longest(q) \in Nat
      BY <2>2, LongestIs DEF OpenBound
    <3> HIDE DEF token
    <3>3. y \in TokenLists /\ \E m \in Nat : m < n /\ OpenBound(y, m)
      BY <3>1, InnerIsShorter
    <3> HIDE DEF y, n
    <3>4. PICK m \in Nat : m < n /\ OpenBound(y, m)
      BY <3>3
    <3>5. Longest(y) <= m /\ Longest(y) \in Nat
      BY <3>3, <3>4, LongestIs
    <3>6. Longest(y) < Longest(q)
      BY <3>1, <3>2, <3>4, <3>5
    <3>7. f[y] = g[y]
      BY <3>3, <3>6
    <3>8. QED
      BY <2>2, <3>7 DEF CanonicalBy, y, token
  <2>3. QED
    BY <2>1, <2>2
<1>3. [i \in DOMAIN q |-> CanonicalBy(f, q[i])] = [i \in DOMAIN q |-> CanonicalBy(g, q[i])]
  BY <1>1, <1>2
<1>4. PartsBy(f, q) = PartsBy(g, q)
  BY <1>3 DEF PartsBy
<1>5. QED
  BY <1>4 DEF TokensBy

(* TokensToCanonical is what its definition says.                          *)
LEMMA TokensToCanonicalDef ==
  ASSUME NEW q \in TokenLists
  PROVE  /\ TokensToCanonical[q] = TokensBy(TokensToCanonical, q)
         /\ TokensToCanonical \in [TokenLists -> Texts]
<1> DEFINE M == [x \in TokenLists |-> Longest(x)]
           Value == [p \in TokenLists \X [TokenLists -> Texts] |-> TokensBy(p[2], p[1])]
           D(f) == [x \in TokenLists |-> TokensBy(f, x)]
<1>1. M \in [TokenLists -> Nat]
  BY LongestIs
<1>2. Value \in [TokenLists \X [TokenLists -> Texts] -> Texts]
  BY TokensByType
<1>3. ASSUME NEW x \in TokenLists, NEW f \in [TokenLists -> Texts], NEW g \in [TokenLists -> Texts],
             \A y \in TokenLists : M[y] < M[x] => f[y] = g[y]
      PROVE  Value[<<x, f>>] = Value[<<x, g>>]
  <2>1. TokensBy(f, x) = TokensBy(g, x)
    BY <1>3, TokensByDepends
  <2>2. Value[<<x, f>>] = TokensBy(f, x) /\ Value[<<x, g>>] = TokensBy(g, x)
    OBVIOUS
  <2>3. QED
    BY <2>1, <2>2
<1>4. \E F : Obeys(F, TokenLists, Texts, Value)
  <2> HIDE DEF M, Value, D
  <2>1. <<>> \in Texts
    BY DEF Texts
  <2>2. \A x \in TokenLists, f, g \in [TokenLists -> Texts] :
          (\A y \in TokenLists : M[y] < M[x] => f[y] = g[y]) => Value[<<x, f>>] = Value[<<x, g>>]
    BY <1>3
  <2>3. Descends(TokenLists, Texts, M, Value)
    BY <1>1, <1>2, <2>2 DEF Descends
  <2>4. QED
    BY <2>1, <2>3, RecursionExists
<1>5. PICK F : Obeys(F, TokenLists, Texts, Value)
  <2> HIDE DEF M, Value, D
  <2>1. QED
    BY <1>4
<1>6. F = D(F)
  <2>1. ASSUME NEW x \in TokenLists PROVE F[x] = TokensBy(F, x)
    BY <1>5 DEF Obeys
  <2>2. F = [x \in TokenLists |-> F[x]]
    BY <1>5 DEF Obeys
  <2>3. QED
    BY <2>1, <2>2
<1>7. TokensToCanonical = D(TokensToCanonical)
  <2>1. TokensToCanonical = CHOOSE f : f = D(f)
    BY DEF TokensToCanonical, TokensBy, PartsBy, CanonicalBy, IsOpen, TokenLists, Texts, Signs
  <2> HIDE DEF D
  <2>2. QED
    BY <1>6, <2>1
<1>8. ASSUME NEW x \in TokenLists PROVE TokensToCanonical[x] = TokensBy(TokensToCanonical, x)
  <2> DEFINE E == D(TokensToCanonical)
  <2>1. E[x] = TokensBy(TokensToCanonical, x)
    OBVIOUS
  <2>2. TokensToCanonical = E
    BY <1>7
  <2> HIDE DEF E
  <2>3. QED
    BY <2>1, <2>2
<1> DEFINE f == TokensToCanonical
           T == {n \in Nat : \A x \in TokenLists : Longest(x) = n => f[x] \in Texts}
<1>9. ASSUME NEW n \in Nat, \A m \in 0..(n - 1) : m \in T PROVE n \in T
  <2>1. SUFFICES ASSUME NEW x \in TokenLists, Longest(x) = n PROVE f[x] \in Texts
    OBVIOUS
  <2> DEFINE g == [y \in TokenLists |-> IF f[y] \in Texts THEN f[y] ELSE <<>>]
  <2>2. g \in [TokenLists -> Texts]
    BY DEF Texts
  <2>3. ASSUME NEW y \in TokenLists, Longest(y) < Longest(x) PROVE f[y] = g[y]
    <3>1. Longest(y) \in 0..(n - 1)
      BY <2>1, <2>3, LongestIs
    <3>2. f[y] \in Texts
      BY <1>9, <3>1
    <3>3. QED
      BY <3>2
  <2>4. TokensBy(f, x) = TokensBy(g, x)
    <3> HIDE DEF f, g
    <3>1. QED
      BY <2>3, TokensByDepends
  <2>5. TokensBy(g, x) \in Texts
    <3> HIDE DEF g
    <3>1. QED
      BY <2>2, TokensByType
  <2>6. QED
    BY <1>8, <2>4, <2>5
<1>10. ASSUME NEW x \in TokenLists PROVE TokensToCanonical[x] \in Texts
  <2>1. Longest(x) \in Nat
    BY LongestIs
  <2>2. \A n \in Nat : n \in T
    <3> HIDE DEF T
    <3>1. QED
      BY <1>9, Strong
  <2>3. QED
    BY <2>1, <2>2
<1>11. TokensToCanonical = [x \in TokenLists |-> TokensToCanonical[x]]
  BY <1>7
<1>12. TokensToCanonical \in [TokenLists -> Texts]
  <2> HIDE DEF D
  <2>1. QED
    BY <1>10, <1>11
<1>13. QED
  BY <1>8, <1>12

-----------------------------------------------------------------------------
(***************************************************************************)
(* Tokenizing what is printed.                                             *)
(***************************************************************************)
\* l is the loop of tokenize over w, from t to u.
IsScan(l, t, w, u) ==
  l[0] = t /\ l[Len(w)] = u /\ \A i \in 1..Len(w) : l[i] = Scan(l[i - 1], w[i])

Scans(t, w, u) == \E l : IsScan(l, t, w, u)

(* Loops of tokenize join to one.                                          *)
LEMMA ScansNothing ==
  ASSUME NEW t
  PROVE  Scans(t, <<>>, t)
<1> DEFINE l == [i \in 0..0 |-> t]
<1>1. l[0] = t /\ Len(<<>>) = 0 /\ \A i \in 1..0 : FALSE
  OBVIOUS
<1> HIDE DEF l
<1>2. IsScan(l, t, <<>>, t)
  BY <1>1 DEF IsScan
<1>3. QED
  BY <1>2 DEF Scans

LEMMA ScansOne ==
  ASSUME NEW t, NEW c
  PROVE  Scans(t, <<c>>, Scan(t, c))
<1> DEFINE u == Scan(t, c)
           l == [i \in 0..1 |-> IF i = 0 THEN t ELSE u]
           w == <<c>>
<1>1. l[0] = t /\ l[1] = u /\ Len(w) = 1 /\ w[1] = c /\ \A i \in 1..1 : i = 1 /\ i - 1 = 0
  OBVIOUS
<1> HIDE DEF l, w
<1>2. IsScan(l, t, w, u)
  BY <1>1 DEF IsScan
<1>3. QED
  BY <1>2 DEF Scans, w

LEMMA ScansJoin ==
  ASSUME NEW w \in Octets, NEW v \in Octets, NEW t, NEW u, NEW x, Scans(t, w, u), Scans(u, v, x)
  PROVE  Scans(t, w \o v, x)
<1> DEFINE n == Len(w)
           m == Len(v)
           z == w \o v
<1>1. PICK f : IsScan(f, t, w, u)
  BY DEF Scans
<1>2. PICK g : IsScan(g, u, v, x)
  BY DEF Scans
<1>3. /\ n \in Nat /\ m \in Nat /\ Len(z) = n + m
      /\ (\A i \in 1..n : z[i] = w[i]) /\ (\A i \in 1..m : z[n + i] = v[i])
  BY OctetsAre, Joins
<1>4. f[0] = t /\ f[n] = u /\ \A i \in 1..n : f[i] = Scan(f[i - 1], w[i])
  BY <1>1 DEF IsScan
<1>5. g[0] = u /\ g[m] = x /\ \A i \in 1..m : g[i] = Scan(g[i - 1], v[i])
  BY <1>2 DEF IsScan
<1> DEFINE l == [i \in 0..(n + m) |-> IF i <= n THEN f[i] ELSE g[i - n]]
<1> HIDE DEF n, m, z
<1>6. (\A i \in 0..n : l[i] = f[i]) /\ (\A i \in 0..m : l[n + i] = g[i])
  <2>1. ASSUME NEW i \in 0..n PROVE l[i] = f[i]
    BY <1>3
  <2>2. ASSUME NEW i \in 0..m PROVE l[n + i] = g[i]
    <3>1. n + i \in 0..(n + m) /\ (n + i) - n = i
      BY <1>3
    <3>2. CASE i = 0
      <4>1. n + i = n
        BY <1>3, <3>2
      <4>2. QED
        BY <1>3, <1>4, <1>5, <2>1, <3>2, <4>1
    <3>3. CASE i # 0
      <4>1. ~(n + i <= n)
        BY <1>3, <3>3
      <4>2. QED
        BY <3>1, <4>1
    <3>4. QED
      BY <3>2, <3>3
  <2>3. QED
    BY <2>1, <2>2
<1> HIDE DEF l
<1>7. l[0] = t /\ l[n + m] = x
  BY <1>3, <1>4, <1>5, <1>6
<1>8. ASSUME NEW i \in 1..(n + m) PROVE l[i] = Scan(l[i - 1], z[i])
  <2>1. CASE i <= n
    <3>1. i \in 1..n /\ i \in 0..n /\ i - 1 \in 0..n
      BY <1>3, <2>1
    <3>2. QED
      BY <1>3, <1>4, <1>6, <3>1
  <2>2. CASE ~(i <= n)
    <3> DEFINE j == i - n
    <3>1. j \in 1..m /\ j \in 0..m /\ j - 1 \in 0..m /\ n + j = i /\ n + (j - 1) = i - 1
      BY <1>3, <2>2
    <3> HIDE DEF j
    <3>2. l[n + j] = g[j] /\ l[n + (j - 1)] = g[j - 1] /\ z[n + j] = v[j] /\ g[j] = Scan(g[j - 1], v[j])
      BY <1>3, <1>5, <1>6, <3>1
    <3>3. QED
      BY <3>1, <3>2
  <2>3. QED
    BY <2>1, <2>2
<1>9. IsScan(l, t, z, x)
  BY <1>3, <1>7, <1>8 DEF IsScan
<1>10. QED
  BY <1>9 DEF Scans, z

(* And that is what tokenize does.                                         *)
LEMMA TokenizeScans ==
  ASSUME NEW s \in Octets, NEW u, Scans(ScanStart, s, u)
  PROVE  Tokenize(s) = NonEmpty(u).tokens
<1> DEFINE n == Len(s)
           L == Scanned(s)
<1>1. PICK l : IsScan(l, ScanStart, s, u)
  BY DEF Scans
<1>2. l[0] = ScanStart /\ l[n] = u /\ \A i \in 1..n : l[i] = Scan(l[i - 1], s[i])
  BY <1>1 DEF IsScan
<1>3. L[0] = ScanStart /\ \A i \in 1..n : L[i] = Scan(L[i - 1], s[i])
  BY ScanLoop DEF Octets
<1>4. n \in Nat
  BY OctetsAre
<1> HIDE DEF n, L
<1> DEFINE T == {i \in 0..n : L[i] = l[i]}
<1>5. 0 \in T
  BY <1>2, <1>3, <1>4
<1>6. ASSUME NEW i \in 0..(n - 1), i \in T PROVE i + 1 \in T
  <2>1. i + 1 \in 1..n /\ i + 1 \in 0..n /\ (i + 1) - 1 = i
    BY <1>4
  <2>2. QED
    BY <1>2, <1>3, <1>6, <2>1
<1>7. \A i \in 0..n : i \in T
  <2> HIDE DEF T
  <2>1. QED
    BY <1>4, <1>5, <1>6, Steps
<1>8. L[n] = u
  BY <1>2, <1>4, <1>7
<1>9. QED
  BY <1>8 DEF Tokenize, L, n

\* Octets that only make a token longer: in any state, or inside parentheses.
Plain  == Octet \ ({Open, Close, Quote} \union Whitespace)
Inside == Plain \union {Space}

LEMMA PlainOctets ==
  /\ Plain \subseteq Octet /\ Inside \subseteq Octet /\ Plain \subseteq Inside
  /\ \A c \in Inside : c \notin {Open, Close, Quote}
  /\ \A c \in Plain : c \notin Separators
  /\ Space \in Inside /\ Space \in Octet /\ Space \in Separators
BY DEF Plain, Inside, Octet, Open, Close, Quote, Whitespace, Separators, Space

\* The scanner outside of quotes, at a depth.
IsAt(t, depth, tokens, current) ==
  /\ t \in Scannings(Octet) /\ ~t.quoted /\ t.depth = depth
  /\ t.tokens = tokens /\ t.current = current

(* A run of plain octets, in a list also of spaces, is kept as it is.      *)
LEMMA RunScans ==
  ASSUME NEW d \in Nat, NEW w \in Octets, w \in Seq(Plain) \/ (w \in Seq(Inside) /\ d # 0),
         NEW q, NEW c, NEW t, IsAt(t, d, q, c)
  PROVE  \E u : Scans(t, w, u) /\ IsAt(u, d, q, c \o w)
<1> DEFINE n == Len(w)
           b(i) == SubSeq(w, 1, i)
           T == {i \in 0..n : \E u : Scans(t, b(i), u) /\ IsAt(u, d, q, c \o b(i))}
<1>0. n \in Nat /\ c \in Octets /\ \A i \in 1..n : w[i] \in Octet
  BY OctetsAre, FieldsAre DEF IsAt, Octets
<1>1. b(0) = <<>> /\ b(n) = w /\ \A i \in 0..(n - 1) : Append(b(i), w[i + 1]) = b(i + 1)
  BY BeginningsGrow DEF Octets
<1>2. 0 \in T
  <2>1. c \o <<>> = c
    BY <1>0, JoinsNothing
  <2>2. Scans(t, <<>>, t)
    BY ScansNothing
  <2> DEFINE e == b(0)
  <2>3. e = <<>> /\ 0 \in 0..n
    BY <1>0, <1>1
  <2> HIDE DEF e
  <2>4. Scans(t, e, t) /\ IsAt(t, d, q, c \o e)
    BY <2>1, <2>2, <2>3
  <2>5. QED
    BY <2>3, <2>4 DEF e
<1>3. ASSUME NEW i \in 0..(n - 1), i \in T PROVE i + 1 \in T
  <2>0. i + 1 \in 1..n /\ i + 1 \in 0..n /\ i \in Nat
    BY <1>0
  <2>1. PICK u : Scans(t, b(i), u) /\ IsAt(u, d, q, c \o b(i))
    BY <1>3
  <2> DEFINE h == w[i + 1]
             v == Scan(u, h)
             a == b(i)
  <2>2. h \in Octet /\ h \notin {Open, Close, Quote} /\ (h \notin Separators \/ d # 0)
    BY <1>0, <2>0, PlainOctets
  <2>3. a \in Octets
    <3>1. 1 \in 1..(Len(w) + 1) /\ i \in (1 - 1)..Len(w)
      BY <1>0, <2>0
    <3>2. QED
      BY <3>1, Pieces
  <2>4. Append(a, h) = b(i + 1)
    BY <1>1
  <2> HIDE DEF h, a
  <2>5. Has(v, Octet, u.tokens, Append(u.current, h), u)
    BY <2>1, <2>2, ScanUnquoted DEF IsAt
  <2>6. Append(c \o a, h) = c \o Append(a, h)
    <3> DEFINE e == c \o a
    <3>1. <<h>> \in Octets /\ e \in Octets
      BY <1>0, <2>2, <2>3, OneOctet, Joins
    <3>2. (c \o a) \o <<h>> = c \o (a \o <<h>>)
      BY <1>0, <2>3, <3>1, JoinsAssociate
    <3>3. e = c \o a
      OBVIOUS
    <3> HIDE DEF e
    <3>4. Append(a, h) = a \o <<h>> /\ Append(e, h) = e \o <<h>>
      BY <2>2, <2>3, <3>1, AppendIsJoin DEF IsJoin
    <3>5. QED
      BY <3>2, <3>3, <3>4
  <2>7. IsAt(v, d, q, c \o Append(a, h))
    BY <2>1, <2>5, <2>6 DEF IsAt, Has, a
  <2>8. Scans(t, Append(a, h), v)
    <3>1. Append(a, h) = a \o <<h>> /\ <<h>> \in Octets
      BY <2>2, <2>3, OneOctet, AppendIsJoin DEF IsJoin
    <3>2. Scans(u, <<h>>, v)
      BY ScansOne
    <3>3. Scans(t, a, u)
      BY <2>1 DEF a
    <3> HIDE DEF v
    <3>4. Scans(t, a \o <<h>>, v)
      BY <2>3, <3>1, <3>2, <3>3, ScansJoin
    <3>5. QED
      BY <3>1, <3>4
  <2>9. QED
    BY <2>0, <2>4, <2>7, <2>8
<1>4. n \in T
  <2>1. \A i \in 0..n : i \in T
    <3> HIDE DEF T, n
    <3>1. QED
      BY <1>0, <1>2, <1>3, Steps
  <2>2. n \in 0..n
    BY <1>0
  <2> HIDE DEF T
  <2>3. QED
    BY <2>1, <2>2
<1>5. QED
  BY <1>1, <1>4

LEMMA OctetsAreTexts ==
  /\ Octets \subseteq Texts /\ Seq(Octets) \subseteq TokenLists
  /\ Seq(Plain) \subseteq Octets /\ Seq(Inside) \subseteq Octets /\ Seq(Plain) \subseteq Seq(Inside)
<1>1. Octet \subseteq Signs
  BY DEF Signs
<1>2. Octets \subseteq Texts
  BY <1>1, SequencesOver DEF Octets, Texts
<1>3. Seq(Octets) \subseteq TokenLists
  BY <1>2, SequencesOver DEF TokenLists
<1>4. Seq(Plain) \subseteq Octets /\ Seq(Inside) \subseteq Octets /\ Seq(Plain) \subseteq Seq(Inside)
  BY PlainOctets, SequencesOver DEF Octets
<1>5. QED
  BY <1>2, <1>3, <1>4

\* What becomes one more token, when none has begun.
IsPiece(p) ==
  /\ p \in Octets
  /\ \A t, q : IsAt(t, 0, q, <<>>) =>
       \E u, r, c : Scans(t, p, u) /\ IsAt(u, 0, r, c) /\ Ended(u) = Append(q, p)

(* A word is one token, and so is a list in parentheses.                   *)
LEMMA WordIsPiece ==
  ASSUME NEW w \in Seq(Plain), w # <<>>
  PROVE  IsPiece(w)
<1>1. w \in Octets
  BY OctetsAreTexts
<1>2. ASSUME NEW t, NEW q, IsAt(t, 0, q, <<>>)
      PROVE  \E u, r, c : Scans(t, w, u) /\ IsAt(u, 0, r, c) /\ Ended(u) = Append(q, w)
  <2>1. PICK u : Scans(t, w, u) /\ IsAt(u, 0, q, <<>> \o w)
    BY <1>1, <1>2, RunScans
  <2>2. <<>> \o w = w
    BY <1>1, JoinsNothing
  <2>3. Ended(u) = Append(q, w)
    BY <2>1, <2>2 DEF Ended, IsAt
  <2>4. QED
    BY <2>1, <2>3
<1>3. QED
  BY <1>1, <1>2 DEF IsPiece

\* s is x between parentheses.
IsNested(s, x) == s = <<Open>> \o x \o <<Close>>

LEMMA NestedIsPiece ==
  ASSUME NEW x \in Seq(Inside), NEW s, IsNested(s, x)
  PROVE  IsPiece(s)
<1> DEFINE o == <<Open>>
           e == <<Close>>
           y == o \o x
<1>1. x \in Octets /\ o \in Octets /\ e \in Octets /\ Open \in Octet /\ Close \in Octet
  BY OctetsAreTexts, OpenAndClose DEF Open, Close, Octet
<1>2. s = y \o e
  BY DEF IsNested
<1>3. y \in Octets /\ y \o e \in Octets
  <2> HIDE DEF o, e
  <2>1. o \o x \in Octets
    BY <1>1, Joins
  <2>2. (o \o x) \o e \in Octets
    BY <1>1, <2>1, Joins
  <2>3. QED
    BY <2>1, <2>2
<1>4. ASSUME NEW t, NEW q, IsAt(t, 0, q, <<>>)
      PROVE  \E u, r, c : Scans(t, s, u) /\ IsAt(u, 0, r, c) /\ Ended(u) = Append(q, s)
  <2> DEFINE a == Scan(t, Open)
  <2>1. IsAt(a, 1, q, o)
    <3>1. /\ a \in Scannings(Octet) /\ ~a.quoted /\ a.tokens = Ended(t) /\ a.current = o
          /\ a.depth = t.depth + 1
      BY <1>1, <1>4, ScanUnquoted DEF IsAt
    <3>2. Ended(t) = q /\ t.depth + 1 = 1
      BY <1>4 DEF IsAt, Ended
    <3>3. QED
      BY <3>1, <3>2 DEF IsAt
  <2>2. Scans(t, o, a)
    BY ScansOne
  <2> HIDE DEF a, o
  <2>3. PICK b : Scans(a, x, b) /\ IsAt(b, 1, q, y)
    BY <1>1, <2>1, RunScans
  <2>4. Scans(t, y, b)
    BY <1>1, <2>2, <2>3, ScansJoin
  <2> DEFINE u == Scan(b, Close)
  <2>5. Append(y, Close) = s
    <3> HIDE DEF y
    <3>1. QED
      BY <1>1, <1>2, <1>3, AppendIsJoin DEF IsJoin
  <2> HIDE DEF y
  <2>6. IsAt(u, 0, Append(q, s), <<>>)
    <3>1. /\ u \in Scannings(Octet) /\ ~u.quoted /\ u.depth = b.depth - 1
          /\ b.depth - 1 = 0 => u.tokens = Append(b.tokens, Append(b.current, Close)) /\ u.current = <<>>
      BY <1>1, <2>3, ScanUnquoted DEF IsAt
    <3>2. b.depth - 1 = 0 /\ b.tokens = q /\ b.current = y
      BY <2>3 DEF IsAt
    <3>3. QED
      BY <2>5, <3>1, <3>2 DEF IsAt
  <2>7. Scans(t, s, u)
    <3>1. Scans(b, e, u)
      BY ScansOne
    <3> HIDE DEF u, e
    <3>2. QED
      BY <1>1, <1>2, <1>3, <2>4, <3>1, ScansJoin
  <2>8. Ended(u) = Append(q, s)
    BY <2>6 DEF Ended, IsAt
  <2>9. QED
    BY <2>6, <2>7, <2>8
<1>5. QED
  BY <1>2, <1>3, <1>4 DEF IsPiece

\* A space and then p.
Spaced(p) == <<Space>> \o p

(* A piece and a space after it are one more token.                        *)
LEMMA SpacedScans ==
  ASSUME NEW p, IsPiece(p), NEW t, NEW q, NEW c, IsAt(t, 0, q, c)
  PROVE  /\ Spaced(p) \in Octets
         /\ \E u, r, e : Scans(t, Spaced(p), u) /\ IsAt(u, 0, r, e) /\ Ended(u) = Append(Ended(t), p)
<1> DEFINE a == Scan(t, Space)
           o == <<Space>>
<1>1. p \in Octets /\ o \in Octets /\ Space \in Octet /\ Space \in Separators
  BY PlainOctets, OneOctet DEF IsPiece
<1>2. Scans(t, o, a)
  BY ScansOne
<1>3. IsAt(a, 0, Ended(t), <<>>)
  <2>1. Has(a, Octet, Ended(t), <<>>, t)
    BY <1>1, ScanUnquoted DEF IsAt
  <2>2. QED
    BY <2>1 DEF Has, IsAt
<1> HIDE DEF a
<1>4. PICK u, r, e : Scans(a, p, u) /\ IsAt(u, 0, r, e) /\ Ended(u) = Append(Ended(t), p)
  BY <1>3 DEF IsPiece
<1>5. Scans(t, o \o p, u) /\ o \o p \in Octets
  <2> HIDE DEF o
  <2>1. QED
    BY <1>1, <1>2, <1>4, ScansJoin, Joins
<1>6. QED
  BY <1>4, <1>5 DEF Spaced

(* Something at the end of two sequences that are joined.                  *)
LEMMA AppendJoins ==
  ASSUME NEW x \in Seq(Octets), NEW y \in Seq(Octets), NEW e \in Octets
  PROVE  Append(x \o y, e) = x \o Append(y, e)
OBVIOUS

(* A word and pieces behind spaces are the tokens that they were.          *)
LEMMA ListTokenizes ==
  ASSUME NEW g \in Seq(Plain), g # <<>>, NEW a \in Seq(Octets), \A i \in 1..Len(a) : IsPiece(a[i]),
         NEW b \in Seq(Octets), Len(b) = Len(a), \A i \in 1..Len(a) : b[i] = Spaced(a[i]),
         NEW s, IsJoin(s, g, Concat(b))
  PROVE  s \in Octets /\ Tokenize(s) = <<g>> \o a
<1> DEFINE n == Len(a)
           J == Joined(b)
           one == <<g>>
           At(i) == \E u, r, c : /\ Scans(ScanStart, g \o J[i], u) /\ IsAt(u, 0, r, c)
                                 /\ Ended(u) = one \o SubSeq(a, 1, i)
           T == {i \in 0..n : At(i)}
<1>1. /\ n \in Nat /\ g \in Octets /\ one \in Seq(Octets)
      /\ \A i \in 1..n : a[i] \in Octets /\ b[i] \in Octets
  BY OctetsAreTexts
<1>2. /\ \A i \in 0..n : J[i] \in Octets
      /\ J[0] = <<>> /\ \A i \in 1..n : J[i] = J[i - 1] \o b[i]
  BY JoinedLoop
<1>3. /\ SubSeq(a, 1, 0) = <<>> /\ SubSeq(a, 1, n) = a
      /\ \A i \in 0..(n - 1) : Append(SubSeq(a, 1, i), a[i + 1]) = SubSeq(a, 1, i + 1)
  BY BeginningsGrow
<1>4. s = g \o J[n]
  BY DEF IsJoin, Concat
<1> HIDE DEF n, J
<1>5. 0 \in T
  <2>1. g \o J[0] = g /\ one \o SubSeq(a, 1, 0) = one
    <3>1. g \o <<>> = g
      BY <1>1, JoinsNothing
    <3>2. one \o <<>> = one
      BY <1>1
    <3>3. QED
      BY <1>2, <1>3, <3>1, <3>2
  <2>2. IsAt(ScanStart, 0, <<>>, <<>>)
    BY ScanStartIs DEF IsAt
  <2>3. PICK u, r, c : Scans(ScanStart, g, u) /\ IsAt(u, 0, r, c) /\ Ended(u) = Append(<<>>, g)
    BY <2>2, WordIsPiece DEF IsPiece
  <2>4. Append(<<>>, g) = one
    OBVIOUS
  <2> HIDE DEF one
  <2>5. At(0)
    BY <2>1, <2>3, <2>4
  <2> HIDE DEF At
  <2>6. QED
    BY <1>1, <2>5
<1>6. ASSUME NEW i \in 0..(n - 1), i \in T PROVE i + 1 \in T
  <2>1. i + 1 \in 1..n /\ i + 1 \in 0..n /\ (i + 1) - 1 = i /\ i \in 0..n /\ i \in Nat
    BY <1>1
  <2>2. PICK t, q, c : /\ Scans(ScanStart, g \o J[i], t) /\ IsAt(t, 0, q, c)
                       /\ Ended(t) = one \o SubSeq(a, 1, i)
    BY <1>6
  <2> DEFINE p == a[i + 1]
             v == Spaced(p)
             w == g \o J[i]
             y == SubSeq(a, 1, i)
  <2>3. IsPiece(p) /\ b[i + 1] = v
    BY <2>1 DEF n
  <2>4. PICK u, r, e : Scans(t, v, u) /\ IsAt(u, 0, r, e) /\ Ended(u) = Append(Ended(t), p)
    BY <2>2, <2>3, SpacedScans
  <2>5. v \in Octets /\ w \in Octets
    BY <1>1, <1>2, <2>1, <2>2, <2>3, SpacedScans, Joins
  <2>6. g \o J[i + 1] = w \o v
    <3>1. J[i + 1] = J[i] \o v /\ J[i] \in Octets
      BY <1>2, <2>1, <2>3
    <3> HIDE DEF v
    <3>2. g \o (J[i] \o v) = (g \o J[i]) \o v
      BY <1>1, <2>5, <3>1, JoinsAssociate
    <3>3. QED
      BY <3>1, <3>2
  <2>7. Scans(ScanStart, w \o v, u)
    <3>1. Scans(ScanStart, w, t)
      BY <2>2
    <3> HIDE DEF w, v
    <3>2. QED
      BY <2>4, <2>5, <3>1, ScansJoin
  <2>8. Append(Ended(t), p) = one \o SubSeq(a, 1, i + 1)
    <3>1. y \in Seq(Octets) /\ p \in Octets /\ Append(y, p) = SubSeq(a, 1, i + 1)
      BY <1>1, <1>3, <2>1 DEF n
    <3>2. Ended(t) = one \o y
      BY <2>2
    <3>4. one \in Seq(Octets)
      BY <1>1
    <3> HIDE DEF y, p, one
    <3>3. Append(one \o y, p) = one \o Append(y, p)
      BY <3>1, <3>4, AppendJoins
    <3>5. QED
      BY <3>1, <3>2, <3>3
  <2>9. At(i + 1)
    <3> HIDE DEF w, v, p, one
    <3>1. QED
      BY <2>4, <2>6, <2>7, <2>8
  <2> HIDE DEF At
  <2>10. QED
    BY <2>1, <2>9
<1>7. At(n)
  <2>1. \A i \in 0..n : i \in T
    <3> HIDE DEF T
    <3>1. QED
      BY <1>1, <1>5, <1>6, Steps
  <2>2. n \in 0..n
    BY <1>1
  <2> HIDE DEF At
  <2>3. QED
    BY <2>1, <2>2
<1>8. PICK u, r, c : Scans(ScanStart, s, u) /\ IsAt(u, 0, r, c) /\ Ended(u) = one \o a
  BY <1>3, <1>4, <1>7
<1>9. s \in Octets
  <2>1. n \in 0..n
    BY <1>1
  <2>2. QED
    BY <1>1, <1>2, <1>4, <2>1, Joins
<1>10. NonEmpty(u).tokens = Ended(u)
  BY <1>8, NonEmptyIs DEF IsAt, Has
<1>11. QED
  BY <1>8, <1>9, <1>10, TokenizeScans

(* A text is put before others that are joined.                            *)
LEMMA ConcatFirst ==
  ASSUME NEW x \in Octets, NEW p \in Seq(Octets)
  PROVE  Concat(<<x>> \o p) = x \o Concat(p)
<1> DEFINE n == Len(p)
           z == <<x>> \o p
           J == Joined(p)
           K == Joined(z)
           T == {i \in 0..n : K[i + 1] = x \o J[i]}
<1>1. /\ n \in Nat /\ z \in Seq(Octets) /\ Len(z) = n + 1 /\ z[1] = x
      /\ \A i \in 1..n : z[i + 1] = p[i] /\ p[i] \in Octets
  OBVIOUS
<1>2. /\ \A i \in 0..n : J[i] \in Octets
      /\ J[0] = <<>> /\ \A i \in 1..n : J[i] = J[i - 1] \o p[i]
  BY JoinedLoop
<1> HIDE DEF n, z, J
<1>3. K[0] = <<>> /\ \A i \in 1..(n + 1) : K[i] = K[i - 1] \o z[i]
  BY <1>1, JoinedLoop
<1> HIDE DEF K
<1>4. 0 \in T
  <2>1. 1 \in 1..(n + 1) /\ 1 - 1 = 0 /\ 0 + 1 = 1 /\ 0 \in 0..n
    BY <1>1
  <2>2. K[1] = <<>> \o x
    BY <1>1, <1>3, <2>1
  <2>3. <<>> \o x = x /\ x \o <<>> = x
    BY JoinsNothing
  <2>4. QED
    BY <1>2, <2>1, <2>2, <2>3
<1>5. ASSUME NEW i \in 0..(n - 1), i \in T PROVE i + 1 \in T
  <2>1. /\ i + 1 \in 1..n /\ i + 1 \in 0..n /\ (i + 1) - 1 = i /\ i \in 0..n
        /\ (i + 1) + 1 \in 1..(n + 1) /\ ((i + 1) + 1) - 1 = i + 1
    BY <1>1
  <2>2. K[(i + 1) + 1] = K[i + 1] \o p[i + 1] /\ K[i + 1] = x \o J[i]
    BY <1>1, <1>3, <1>5, <2>1
  <2>3. J[i + 1] = J[i] \o p[i + 1] /\ J[i] \in Octets /\ p[i + 1] \in Octets
    BY <1>1, <1>2, <2>1
  <2>4. (x \o J[i]) \o p[i + 1] = x \o (J[i] \o p[i + 1])
    BY <2>3, JoinsAssociate
  <2>5. QED
    BY <2>1, <2>2, <2>3, <2>4
<1>6. K[n + 1] = x \o J[n]
  <2>1. \A i \in 0..n : i \in T
    <3> HIDE DEF T
    <3>1. QED
      BY <1>1, <1>4, <1>5, Steps
  <2>2. n \in 0..n
    BY <1>1
  <2>3. QED
    BY <2>1, <2>2
<1>7. QED
  BY <1>1, <1>6 DEF Concat, K, J, n, z

\* What is in the canonical form of a token.
Canonical(token) == CanonicalBy(TokensToCanonical, token)

(* A word becomes an atom.                                                 *)
LEMMA WordConverts ==
  ASSUME NEW w \in Seq(Plain), w # <<>>
  PROVE  ~IsOpen(w) /\ Canonical(w) = LengthValue(w)
<1>1. Head(w) \in Plain
  OBVIOUS
<1>2. ~IsOpen(w)
  BY <1>1, PlainOctets DEF IsOpen
<1>3. QED
  BY <1>2 DEF Canonical, CanonicalBy

\* Pieces; with spaces before them; and what they are converted to.
ArePieces(a)       == \A i \in 1..Len(a) : IsPiece(a[i])
AreSpaced(b, a)    == Len(b) = Len(a) /\ \A i \in 1..Len(a) : b[i] = Spaced(a[i])
AreCanonical(c, a) == Len(c) = Len(a) /\ \A i \in 1..Len(a) : Canonical(a[i]) = c[i]

(* And such a text is converted to the list of what the pieces are.        *)
LEMMA ListConverts ==
  ASSUME NEW g \in Seq(Plain), g # <<>>, NEW a \in Seq(Octets), a # <<>>,
         ArePieces(a), NEW b \in Seq(Octets), AreSpaced(b, a), NEW s, IsJoin(s, g, Concat(b)),
         NEW c \in Seq(Octets), AreCanonical(c, a)
  PROVE  s \in Octets /\ TokensToCanonical[Tokenize(s)] = ListString(g, c)
<1> DEFINE q == <<g>> \o a
           x == LengthValue(g)
           z == <<x>> \o c
           y == [i \in DOMAIN q |-> Canonical(q[i])]
<1>0. /\ \A i \in 1..Len(a) : IsPiece(a[i])
      /\ Len(b) = Len(a) /\ \A i \in 1..Len(a) : b[i] = Spaced(a[i])
      /\ Len(c) = Len(a) /\ \A i \in 1..Len(a) : Canonical(a[i]) = c[i]
  BY DEF ArePieces, AreSpaced, AreCanonical
<1>1. s \in Octets /\ Tokenize(s) = q
  BY <1>0, ListTokenizes
<1>2. g \in Octets /\ x \in Octets /\ Canonical(g) = x
  BY OctetsAreTexts, WordConverts, LengthValueFrames
<1>3. /\ Len(a) \in Nat /\ Len(a) >= 1 /\ q \in Seq(Octets) /\ Len(q) = Len(a) + 1
      /\ DOMAIN q = 1..(Len(a) + 1) /\ q[1] = g /\ \A i \in 1..Len(a) : q[i + 1] = a[i]
  BY <1>2
<1> HIDE DEF x
<1>4. /\ z \in Seq(Octets) /\ Len(z) = Len(a) + 1 /\ DOMAIN z = 1..(Len(a) + 1)
      /\ z[1] = x /\ \A i \in 1..Len(a) : z[i + 1] = c[i]
  BY <1>0, <1>2, <1>3
<1> HIDE DEF q, z
<1>5. y = z
  <2>1. ASSUME NEW i \in 1..(Len(a) + 1) PROVE Canonical(q[i]) = z[i]
    <3>1. CASE i = 1
      BY <1>2, <1>3, <1>4, <3>1
    <3>2. CASE i # 1
      <4> DEFINE j == i - 1
      <4>1. j \in 1..Len(a) /\ i = j + 1
        BY <1>3, <3>2
      <4> HIDE DEF j
      <4>2. q[i] = a[j] /\ z[i] = c[j]
        BY <1>3, <1>4, <4>1
      <4>3. QED
        BY <1>0, <4>1, <4>2
    <3>3. QED
      BY <3>1, <3>2
  <2>2. z = [i \in 1..(Len(a) + 1) |-> z[i]]
    BY <1>4
  <2>3. QED
    BY <1>3, <2>1, <2>2
<1>6. PartsBy(TokensToCanonical, q) = Concat(y)
  BY DEF PartsBy, Canonical
<1>7. PartsBy(TokensToCanonical, q) = x \o Concat(c)
  BY <1>2, <1>5, <1>6, ConcatFirst DEF z
<1>8. TokensToCanonical[q] = <<Open>> \o PartsBy(TokensToCanonical, q) \o <<Close>>
  <2>1. q \in TokenLists
    BY <1>3, OctetsAreTexts
  <2>2. ~(Len(q) < 2)
    BY <1>3
  <2>3. QED
    BY <2>1, <2>2, TokensToCanonicalDef DEF TokensBy
<1>9. <<Open>> \o (x \o Concat(c)) = (<<Open>> \o x) \o Concat(c)
  <2>1. Concat(c) \in Octets /\ <<Open>> \in Octets
    BY <1>2, ListStringIsOctets
  <2>2. QED
    BY <1>2, <2>1, JoinsAssociate
<1>10. QED
  BY <1>1, <1>7, <1>8, <1>9 DEF ListString, x

-----------------------------------------------------------------------------
(***************************************************************************)
(* Advanced forms.                                                         *)
(***************************************************************************)
SpacedAll(parts) == [i \in DOMAIN parts |-> Spaced(parts[i])]

(* The parts of a list with a space after each.                            *)
LEMMA SpacedAllIs ==
  ASSUME NEW parts \in Seq(Octets)
  PROVE  /\ SpacedAll(parts) \in Seq(Octets) /\ Len(SpacedAll(parts)) = Len(parts)
         /\ \A i \in 1..Len(parts) : SpacedAll(parts)[i] = Spaced(parts[i])
         /\ Concat(SpacedAll(parts)) \in Octets
<1> DEFINE b == SpacedAll(parts)
           n == Len(parts)
<1>1. n \in Nat /\ DOMAIN parts = 1..n /\ b = [i \in 1..n |-> Spaced(parts[i])]
  BY DEF SpacedAll
<1>2. ASSUME NEW i \in 1..n PROVE Spaced(parts[i]) \in Octets
  <2>1. parts[i] \in Octets /\ <<Space>> \in Octets
    BY PlainOctets, OneOctet
  <2>2. QED
    BY <2>1, Joins DEF Spaced
<1> HIDE DEF n
<1>3. b \in [1..n -> Octets]
  BY <1>1, <1>2
<1>4. \A i \in 1..n : b[i] = Spaced(parts[i])
  BY <1>1
<1> HIDE DEF b
<1>5. b \in Seq(Octets) /\ Len(b) = n
  BY <1>1, <1>3
<1>6. Concat(b) \in Octets
  BY <1>5, ListStringIsOctets, NoOctets
<1>7. QED
  BY <1>4, <1>5, <1>6 DEF b, n

\* What a list's advanced form has between its parentheses.
Content(g, parts) == g \o Concat(SpacedAll(parts))

(* A text in parentheses, and what is left when they are taken away.       *)
LEMMA NestedIs ==
  ASSUME NEW x \in Octets, NEW s, IsNested(s, x)
  PROVE  /\ s \in Octets /\ Len(s) = Len(x) + 2 /\ Inner(s) = x
         /\ s # <<>> /\ Head(s) = Open /\ s[1] = Open /\ s[Len(s)] = Close
         /\ \A i \in 2..(Len(s) - 1) : s[i] = x[i - 1]
<1> DEFINE o == <<Open>>
           c == <<Close>>
           y == o \o x
<1>1. o \in Octets /\ c \in Octets /\ Len(o) = 1 /\ Len(c) = 1 /\ o[1] = Open /\ c[1] = Close
  BY OneOctet, OpenAndClose DEF Open, Close, Octet
<1> HIDE DEF o, c
<1>2. y \in Octets /\ Len(y) = Len(x) + 1 /\ y[1] = Open /\ \A i \in 2..Len(y) : y[i] = x[i - 1]
  <2>1. /\ y \in Octets /\ Len(y) = 1 + Len(x) /\ y[1] = Open
        /\ \A i \in 1..Len(x) : y[1 + i] = x[i]
    <3>1. /\ y \in Octets /\ Len(y) = Len(o) + Len(x) /\ \A i \in 1..Len(o) : y[i] = o[i]
          /\ \A i \in 1..Len(x) : y[Len(o) + i] = x[i]
      BY <1>1, Joins
    <3>2. 1 \in 1..Len(o)
      BY <1>1
    <3> HIDE DEF y
    <3>3. QED
      BY <1>1, <3>1, <3>2
  <2>2. Len(x) \in Nat
    BY OctetsAre
  <2> HIDE DEF y
  <2>3. ASSUME NEW i \in 2..Len(y) PROVE y[i] = x[i - 1]
    <3>1. i - 1 \in 1..Len(x) /\ 1 + (i - 1) = i
      BY <2>1, <2>2
    <3>2. QED
      BY <2>1, <3>1
  <2>4. QED
    BY <2>1, <2>2, <2>3
<1>3. s = y \o c
  BY DEF IsNested, o, c
<1> HIDE DEF y
<1>4. /\ s \in Octets /\ Len(s) = Len(x) + 2 /\ s[1] = Open /\ s[Len(s)] = Close
      /\ \A i \in 2..(Len(s) - 1) : s[i] = x[i - 1]
  <2>1. /\ s \in Octets /\ Len(s) = Len(y) + 1 /\ s[Len(y) + 1] = Close
        /\ \A i \in 1..Len(y) : s[i] = y[i]
    <3>1. /\ y \o c \in Octets /\ Len(y \o c) = Len(y) + Len(c)
          /\ \A i \in 1..Len(y) : (y \o c)[i] = y[i]
          /\ \A i \in 1..Len(c) : (y \o c)[Len(y) + i] = c[i]
      BY <1>1, <1>2, Joins
    <3>2. 1 \in 1..Len(c)
      BY <1>1
    <3>3. QED
      BY <1>1, <1>3, <3>1, <3>2
  <2>2. Len(x) \in Nat /\ Len(y) \in Nat
    BY <1>2, OctetsAre
  <2>3. QED
    BY <1>2, <2>1, <2>2
<1>5. Len(x) \in Nat
  BY DEF Octets
<1>6. s # <<>> /\ Head(s) = Open
  BY <1>4, <1>5 DEF Octets
<1>7. Inner(s) = x
  <2>1. Inner(s) = SubSeq(s, 2, Len(s) - 1)
    BY <1>4, <1>5 DEF Inner
  <2>2. SubSeq(s, 2, Len(s) - 1) \in Octets /\ Len(SubSeq(s, 2, Len(s) - 1)) = Len(x)
        /\ \A i \in 1..Len(x) : SubSeq(s, 2, Len(s) - 1)[i] = s[i + 1]
    BY <1>4, <1>5 DEF Octets
  <2>3. \A i \in 1..Len(x) : s[i + 1] = x[i]
    BY <1>4, <1>5
  <2> DEFINE z == SubSeq(s, 2, Len(s) - 1)
  <2>4. z \in Octets /\ Len(z) = Len(x) /\ \A i \in 1..Len(x) : z[i] = x[i]
    BY <2>2, <2>3
  <2> HIDE DEF z
  <2>5. z = x
    BY <2>4 DEF Octets
  <2>6. QED
    BY <2>1, <2>5 DEF z
<1>8. QED
  BY <1>4, <1>6, <1>7

(* What is printed for a list is in parentheses.                           *)
LEMMA ContentIs ==
  ASSUME NEW g \in Octets, NEW parts \in Seq(Octets),
         NEW s, s = <<Open>> \o g \o Concat(SpacedAll(parts)) \o <<Close>>
  PROVE  Content(g, parts) \in Octets /\ IsNested(s, Content(g, parts)) /\ s \in Octets
<1> DEFINE o == <<Open>>
           c == <<Close>>
           w == Concat(SpacedAll(parts))
           x == g \o w
<1>1. o \in Octets /\ w \in Octets
  BY SpacedAllIs, OneOctet, OpenAndClose DEF Open, Octet
<1>2. s = ((o \o g) \o w) \o c
  OBVIOUS
<1> HIDE DEF o, c, w
<1>3. (o \o g) \o w = o \o x /\ x \in Octets
  <2>1. x \in Octets
    BY <1>1, Joins
  <2>2. (o \o g) \o w = o \o (g \o w)
    BY <1>1, JoinsAssociate
  <2>3. QED
    BY <2>1, <2>2
<1>4. Content(g, parts) = x
  BY DEF Content, w
<1> HIDE DEF x
<1>5. s = (o \o x) \o c
  BY <1>2, <1>3
<1>6. IsNested(s, x)
  BY <1>5 DEF IsNested, o, c
<1>7. QED
  BY <1>3, <1>4, <1>6, NestedIs

(* The advanced form of an element is octets, if its parts' are.           *)
LEMMA AdvancedIsOctets ==
  ASSUME NEW e \in Elements, NEW parts \in Seq(Octets)
  PROVE  Advanced(e, parts) \in Octets
<1>1. CASE e.kind = "atom"
  BY <1>1, KindsOfElements DEF Advanced
<1>2. CASE e.kind = "list"
  <2>1. e.tag \in Octets
    BY <1>2, KindsOfElements
  <2>2. Advanced(e, parts) = <<Open>> \o e.tag \o Concat(SpacedAll(parts)) \o <<Close>>
    BY <1>2 DEF Advanced, SpacedAll, Spaced
  <2>3. QED
    BY <2>1, <2>2, ContentIs
<1>3. CASE e.kind \notin {"atom", "list"}
  BY <1>3, NoOctets DEF Advanced
<1>4. QED
  BY <1>1, <1>2, <1>3

(* AdvancedForm is what its definition says, and octets.                   *)
LEMMA AdvancedFormDef ==
  ASSUME NEW e \in Elements
  PROVE  /\ AdvancedForm[e] = Advanced(e, PartStrings(AdvancedForm, e)) /\ AdvancedForm[e] \in Octets
         /\ PartStrings(AdvancedForm, e) \in Seq(Octets)
<1> DEFINE P == [p \in Elements \X Seq(Octets) |-> Advanced(p[1], p[2])]
           D(f) == [x \in Elements |-> Advanced(x, PartStrings(f, x))]
<1>1. P \in [Elements \X Seq(Octets) -> Octets]
  BY AdvancedIsOctets
<1>2. PICK F \in [Elements -> Octets] : \A x \in Elements : F[x] = P[<<x, PartStrings(F, x)>>]
  <2> HIDE DEF P
  <2>1. QED
    BY <1>1, FormsExist
<1>3. F = D(F)
  <2>1. ASSUME NEW x \in Elements PROVE F[x] = Advanced(x, PartStrings(F, x))
    <3>1. PartStrings(F, x) \in Seq(Octets)
      BY PartsAreElements, PartStringsAreOctets
    <3>2. QED
      BY <1>2, <3>1
  <2>2. F = [x \in Elements |-> F[x]]
    OBVIOUS
  <2>3. QED
    BY <2>1, <2>2
<1>4. AdvancedForm = D(AdvancedForm)
  <2>1. AdvancedForm = CHOOSE f : f = D(f)
    BY DEF AdvancedForm, PartStrings
  <2> HIDE DEF D
  <2>2. QED
    BY <1>3, <2>1
<1>5. ASSUME NEW x \in Elements PROVE AdvancedForm[x] = Advanced(x, PartStrings(AdvancedForm, x))
  <2> DEFINE E == D(AdvancedForm)
  <2>1. E[x] = Advanced(x, PartStrings(AdvancedForm, x))
    OBVIOUS
  <2>2. AdvancedForm = E
    BY <1>4
  <2> HIDE DEF E
  <2>3. QED
    BY <2>1, <2>2
<1>6. \A x \in Elements : PartStrings(AdvancedForm, x) \in Seq(Octets) => AdvancedForm[x] \in Octets
  BY <1>5, AdvancedIsOctets
<1>7. QED
  BY <1>5, <1>6, FormsAreOctets

(* A word is octets that only make a token longer.                         *)
LEMMA WordIsPlain ==
  ASSUME NEW s \in Octets, Word(s)
  PROVE  s \in Seq(Plain) /\ s # <<>> /\ ~IsComment(s)
<1>1. s # <<>> /\ ~IsComment(s) /\ OctetsOf(s) \intersect ({Open, Close, Quote} \union Whitespace) = {}
  BY DEF Word
<1>2. Len(s) \in Nat /\ DOMAIN s = 1..Len(s) /\ \A i \in 1..Len(s) : s[i] \in Octet
  BY OctetsAre
<1>3. ASSUME NEW i \in 1..Len(s) PROVE s[i] \in Plain
  <2>1. s[i] \in OctetsOf(s)
    BY <1>2 DEF OctetsOf
  <2>2. QED
    BY <1>1, <1>2, <2>1 DEF Plain
<1>4. s \in [1..Len(s) -> Plain]
  BY <1>2, <1>3 DEF Octets
<1>5. s \in Seq(Plain)
  BY <1>2, <1>4
<1>6. QED
  BY <1>1, <1>5

\* Octets that do not end a line.
Unbroken == Octet \ {Newline}

(* What may be in a line.                                                  *)
LEMMA UnbrokenIs ==
  /\ Unbroken \subseteq Octet /\ Plain \subseteq Unbroken /\ Inside \subseteq Unbroken
  /\ Seq(Plain) \subseteq Seq(Unbroken) /\ Seq(Inside) \subseteq Seq(Unbroken)
  /\ Open \in Unbroken /\ Close \in Unbroken /\ Space \in Unbroken
<1>1. /\ Unbroken \subseteq Octet /\ Plain \subseteq Unbroken /\ Inside \subseteq Unbroken
      /\ Open \in Unbroken /\ Close \in Unbroken /\ Space \in Unbroken
  BY DEF Unbroken, Plain, Inside, Octet, Newline, Whitespace, Open, Close, Space
<1>2. QED
  BY <1>1, SequencesOver

\* The advanced form of e is one token of one line that is converted to its
\* canonical form.
Converts(e) ==
  /\ IsPiece(AdvancedForm[e]) /\ AdvancedForm[e] \in Seq(Unbroken)
  /\ Canonical(AdvancedForm[e]) = String[e] /\ ~HasStarForm[e]

(* What is printed for an atom.                                            *)
LEMMA AtomForms ==
  ASSUME NEW e \in Elements, e.kind = "atom"
  PROVE  /\ AdvancedForm[e] = e.value /\ String[e] = LengthValue(e.value) /\ e.value \in Octets
         /\ ~HasStarForm[e]
<1>1. e.value \in Octets
  BY KindsOfElements
<1>2. AdvancedForm[e] = e.value
  BY AdvancedFormDef DEF Advanced
<1>3. String[e] = LengthValue(e.value)
  BY StringDef DEF Printed
<1>4. ~StarIn(HasStarForm, e)
  BY DEF StarIn
<1>5. ~HasStarForm[e]
  BY <1>4, HasStarFormDef, Zenon
<1>6. QED
  BY <1>1, <1>2, <1>3, <1>5

LEMMA AtomConverts ==
  ASSUME NEW e \in Elements, e.kind = "atom", Word(e.value)
  PROVE  Converts(e) /\ AdvancedForm[e] \in Seq(Plain) /\ AdvancedForm[e] # <<>>
<1> DEFINE v == e.value
<1>1. AdvancedForm[e] = v /\ String[e] = LengthValue(v) /\ v \in Octets /\ ~HasStarForm[e] /\ Word(v)
  BY AtomForms
<1> HIDE DEF v
<1>2. v \in Seq(Plain) /\ v # <<>>
  BY <1>1, WordIsPlain
<1>3. IsPiece(v) /\ Canonical(v) = LengthValue(v)
  BY <1>2, WordIsPiece, WordConverts
<1>4. v \in Seq(Unbroken)
  BY <1>2, UnbrokenIs
<1>5. QED
  BY <1>1, <1>2, <1>3, <1>4 DEF Converts

\* The advanced forms of the parts of e between parentheses.
Bare(e) == Content(e.tag, PartStrings(AdvancedForm, e))

(* Texts behind spaces have no octets that they did not have.              *)
LEMMA ContentOver ==
  ASSUME NEW A, A \subseteq Octet, Space \in A,
         NEW g \in Seq(A), NEW a \in Seq(Octets), \A i \in 1..Len(a) : a[i] \in Seq(A)
  PROVE  Content(g, a) \in Seq(A)
<1> DEFINE S == Seq(A)
           b == SpacedAll(a)
           n == Len(a)
<1>1. g \in S /\ \A i \in 1..n : a[i] \in S
  OBVIOUS
<1>2. <<Space>> \in S
  OBVIOUS
<1>3. n \in Nat /\ b \in Seq(Octets) /\ Len(b) = n /\ \A i \in 1..n : b[i] = <<Space>> \o a[i]
  BY SpacedAllIs DEF Spaced
<1> HIDE DEF b, n
<1>4. \A x, y \in S : x \o y \in S
  BY JoinsOver
<1> HIDE DEF S
<1>5. \A i \in 1..n : b[i] \in S
  BY <1>1, <1>2, <1>3, <1>4
<1>6. b \in Seq(S)
  <2>1. b \in [1..n -> S]
    BY <1>3, <1>5
  <2>2. QED
    BY <1>3, <2>1
<1>7. Concat(b) \in S
  BY <1>6, ConcatOver DEF S
<1>8. g \o Concat(b) \in S
  BY <1>1, <1>4, <1>7
<1>9. QED
  BY <1>8 DEF Content, S, b

(* A list of one line is converted to its canonical form, if its parts are. *)
LEMMA ListForms ==
  ASSUME NEW e \in Elements, e.kind = "list", Word(e.tag), e.elems # <<>>,
         \A i \in 1..Len(e.elems) : e.elems[i] \in Elements => Converts(e.elems[i])
  PROVE  /\ Bare(e) \in Octets /\ IsNested(AdvancedForm[e], Bare(e)) /\ AdvancedForm[e] \in Octets
         /\ TokensToCanonical[Tokenize(Bare(e))] = String[e]
         /\ AdvancedForm[e] \in Seq(Unbroken) /\ ~HasStarForm[e]
<1> DEFINE g == e.tag
           a == PartStrings(AdvancedForm, e)
           c == PartStrings(String, e)
           b == SpacedAll(a)
           n == Len(e.elems)
           s == Bare(e)
<1>1. /\ g \in Octets /\ Parts(e) = e.elems /\ n \in Nat /\ DOMAIN e.elems = 1..n
      /\ \A i \in 1..n : e.elems[i] \in Elements
  <2>1. g \in Octets /\ Parts(e) = e.elems
    BY KindsOfElements DEF Parts, HasParts
  <2>2. QED
    BY <2>1, PartsAreElements
<1>2. g \in Seq(Plain) /\ g # <<>>
  BY <1>1, WordIsPlain
<1>3. \A i \in 1..n : Converts(e.elems[i])
  BY <1>1
<1>4. /\ AdvancedForm[e] = Advanced(e, a) /\ a \in Seq(Octets)
      /\ String[e] = Printed(e, c) /\ c \in Seq(Octets)
  BY AdvancedFormDef, StringDef
<1>5. a = [i \in 1..n |-> AdvancedForm[e.elems[i]]] /\ c = [i \in 1..n |-> String[e.elems[i]]]
  BY <1>1 DEF PartStrings
<1>6. /\ Len(a) = n /\ Len(c) = n
      /\ \A i \in 1..n : a[i] = AdvancedForm[e.elems[i]] /\ c[i] = String[e.elems[i]]
  <2> HIDE DEF n
  <2>1. DOMAIN a = 1..n /\ DOMAIN c = 1..n
    BY <1>5
  <2>2. \A i \in 1..n : a[i] = AdvancedForm[e.elems[i]] /\ c[i] = String[e.elems[i]]
    BY <1>5
  <2> HIDE DEF a, c
  <2>3. Len(a) = n /\ Len(c) = n
    BY <1>1, <1>4, <2>1
  <2>4. QED
    BY <2>2, <2>3
<1>7. a # <<>>
  <2>1. e.elems # <<>> /\ e.elems \in Seq(Elements)
    BY KindsOfElements
  <2>2. n # 0
    BY <2>1
  <2> HIDE DEF a, n
  <2>3. QED
    BY <1>6, <2>2
<1>8. AdvancedForm[e] = <<Open>> \o g \o Concat(b) \o <<Close>>
  BY <1>4 DEF Advanced, SpacedAll, Spaced
<1>9. String[e] = ListString(g, c)
  BY <1>4 DEF Printed
<1>10. b \in Seq(Octets) /\ Len(b) = Len(a) /\ \A i \in 1..Len(a) : b[i] = Spaced(a[i])
  BY <1>4, SpacedAllIs
<1>11. IsJoin(s, g, Concat(b))
  BY DEF Bare, Content, IsJoin
<1>12. s \in Octets /\ IsNested(AdvancedForm[e], s) /\ AdvancedForm[e] \in Octets
  <2> HIDE DEF a, g
  <2>1. QED
    BY <1>1, <1>4, <1>8, ContentIs DEF Bare, a, g
<1> HIDE DEF a, b, c, g, n, s
<1>13. \A i \in 1..Len(a) : IsPiece(a[i]) /\ Canonical(a[i]) = c[i]
  BY <1>3, <1>6 DEF Converts
<1>14. TokensToCanonical[Tokenize(s)] = ListString(g, c)
  <2>1. ArePieces(a) /\ AreSpaced(b, a) /\ AreCanonical(c, a)
    BY <1>6, <1>10, <1>13 DEF ArePieces, AreSpaced, AreCanonical
  <2>2. QED
    BY <1>2, <1>4, <1>7, <1>10, <1>11, <2>1, ListConverts
<1>15. ~StarIn(HasStarForm, e)
  BY <1>1, <1>3, Zenon DEF StarIn, Converts
<1>16. ~HasStarForm[e]
  BY <1>15, HasStarFormDef, Zenon
<1>17. s \in Seq(Unbroken)
  <2>1. \A i \in 1..Len(a) : a[i] \in Seq(Unbroken)
    BY <1>3, <1>6 DEF Converts
  <2>2. g \in Seq(Unbroken)
    BY <1>2, UnbrokenIs
  <2>3. Content(g, a) \in Seq(Unbroken)
    BY <1>4, <2>1, <2>2, UnbrokenIs, ContentOver
  <2>4. QED
    BY <2>3 DEF s, Bare, g, a
<1>18. AdvancedForm[e] \in Seq(Unbroken)
  <2> DEFINE o == <<Open>>
             d == <<Close>>
  <2>1. AdvancedForm[e] = o \o s \o d /\ o \in Seq(Unbroken) /\ d \in Seq(Unbroken)
    BY <1>12, UnbrokenIs DEF IsNested
  <2> HIDE DEF o, d
  <2>2. o \o s \in Seq(Unbroken)
    BY <1>17, <2>1, JoinsOver
  <2>3. (o \o s) \o d \in Seq(Unbroken)
    BY <2>1, <2>2, JoinsOver
  <2>4. QED
    BY <2>1, <2>3
<1>19. QED
  BY <1>9, <1>12, <1>14, <1>16, <1>18 DEF s

(* A token in parentheses is converted to what is in it.                   *)
LEMMA NestedConverts ==
  ASSUME NEW x \in Octets, NEW s, IsNested(s, x)
  PROVE  Canonical(s) = TokensToCanonical[Tokenize(x)]
<1>1. s # <<>> /\ Head(s) = Open /\ Inner(s) = x
  BY NestedIs
<1>2. QED
  BY <1>1 DEF Canonical, CanonicalBy, IsOpen

(* A list of words is one token, and converted to its canonical form.      *)
LEMMA WordsConvert ==
  ASSUME NEW e \in Elements, e.kind = "list", Words(e)
  PROVE  Converts(e)
<1> DEFINE a == PartStrings(AdvancedForm, e)
           n == Len(e.elems)
<1>1. /\ e.tag \in Octets /\ Parts(e) = e.elems /\ n \in Nat /\ DOMAIN e.elems = 1..n
      /\ \A i \in 1..n : e.elems[i] \in Elements
  <2>1. e.tag \in Octets /\ Parts(e) = e.elems
    BY KindsOfElements DEF Parts, HasParts
  <2>2. QED
    BY <2>1, PartsAreElements
<1>2. /\ Word(e.tag) /\ e.elems # <<>>
      /\ \A i \in 1..n : e.elems[i].kind = "atom" /\ Word(e.elems[i].value)
  BY <1>1 DEF Words
<1>3. ASSUME NEW i \in 1..n
      PROVE  Converts(e.elems[i]) /\ AdvancedForm[e.elems[i]] \in Seq(Plain)
  BY <1>1, <1>2, AtomConverts
<1>4. /\ Bare(e) \in Octets /\ IsNested(AdvancedForm[e], Bare(e))
      /\ TokensToCanonical[Tokenize(Bare(e))] = String[e]
      /\ AdvancedForm[e] \in Seq(Unbroken) /\ ~HasStarForm[e]
  BY <1>2, <1>3, ListForms
<1>5. a \in Seq(Octets) /\ a = [i \in 1..n |-> AdvancedForm[e.elems[i]]]
  BY <1>1, AdvancedFormDef DEF PartStrings
<1>6. Len(a) = n /\ \A i \in 1..n : a[i] \in Seq(Plain)
  <2> HIDE DEF n
  <2>1. DOMAIN a = 1..n /\ \A i \in 1..n : a[i] = AdvancedForm[e.elems[i]]
    BY <1>5
  <2> HIDE DEF a
  <2>2. Len(a) = n
    BY <1>1, <1>5, <2>1
  <2>3. QED
    BY <1>3, <2>1, <2>2
<1> HIDE DEF a, n
<1>7. Bare(e) \in Seq(Inside)
  <2>1. e.tag \in Seq(Plain)
    BY <1>1, <1>2, WordIsPlain
  <2>2. \A i \in 1..Len(a) : a[i] \in Seq(Plain)
    BY <1>6
  <2>3. Content(e.tag, a) \in Seq(Inside)
    <3>1. Inside \subseteq Octet /\ Space \in Inside /\ Seq(Plain) \subseteq Seq(Inside)
      BY PlainOctets, OctetsAreTexts
    <3>2. e.tag \in Seq(Inside) /\ \A i \in 1..Len(a) : a[i] \in Seq(Inside)
      BY <2>1, <2>2, <3>1
    <3>3. QED
      BY <1>5, <3>1, <3>2, ContentOver
  <2>4. QED
    BY <2>3 DEF Bare, a
<1>8. IsPiece(AdvancedForm[e])
  BY <1>4, <1>7, NestedIsPiece
<1>9. Canonical(AdvancedForm[e]) = String[e]
  BY <1>4, NestedConverts
<1>10. QED
  BY <1>4, <1>8, <1>9 DEF Converts

(* Nothing is trimmed of what is blank neither at its beginning nor at its *)
(* end.                                                                    *)
LEMMA SolidIsTrimmed ==
  ASSUME NEW s \in Octets, s # <<>>, s[1] \notin Whitespace, s[Len(s)] \notin Whitespace
  PROVE  TrimSpace(s) = s
<1> DEFINE n == Len(s)
           solid == {i \in DOMAIN s : s[i] \notin Whitespace}
           first == CHOOSE i \in solid : \A j \in solid : i <= j
           last == CHOOSE i \in solid : \A j \in solid : j <= i
<1>1. n \in Nat /\ n >= 1 /\ DOMAIN s = 1..n
  BY OctetsAre, HeadAndTail
<1>2. 1 \in solid /\ n \in solid /\ \A i \in solid : 1 <= i /\ i <= n /\ i \in Nat
  BY <1>1
<1>3. TrimSpace(s) = SubSeq(s, first, last)
  BY <1>2 DEF TrimSpace
<1> HIDE DEF solid, n
<1>4. first = 1
  <2>1. \E i \in solid : \A j \in solid : i <= j
    BY <1>2
  <2>2. first \in solid /\ \A j \in solid : first <= j
    BY <2>1
  <2> HIDE DEF first
  <2>3. QED
    BY <1>2, <2>2
<1>5. last = n
  <2>1. \E i \in solid : \A j \in solid : j <= i
    BY <1>2
  <2>2. last \in solid /\ \A j \in solid : j <= last
    BY <2>1
  <2> HIDE DEF last
  <2>3. QED
    BY <1>1, <1>2, <2>2
<1>6. SubSeq(s, 1, n) = s
  BY DEF n, Octets
<1>7. QED
  BY <1>3, <1>4, <1>5, <1>6

(* A word that is the whole line is the one token of it.                   *)
LEMMA WordTokenizes ==
  ASSUME NEW w \in Seq(Plain), w # <<>>
  PROVE  TokensToCanonical[Tokenize(w)] = LengthValue(w)
<1> DEFINE q == <<w>>
           v == LengthValue(w)
<1>1. w \in Octets /\ <<>> \in Seq(Octets) /\ Len(<<>>) = 0 /\ v \in Octets
  BY OctetsAreTexts, LengthValueFrames
<1>2. Tokenize(w) = q
  <2>1. IsAt(ScanStart, 0, <<>>, <<>>)
    BY ScanStartIs DEF IsAt
  <2>2. PICK u, r, c : Scans(ScanStart, w, u) /\ IsAt(u, 0, r, c) /\ Ended(u) = Append(<<>>, w)
    BY <2>1, WordIsPiece DEF IsPiece
  <2>3. NonEmpty(u).tokens = Ended(u)
    BY <2>2, NonEmptyIs DEF IsAt, Has
  <2>4. Append(<<>>, w) = q
    OBVIOUS
  <2> HIDE DEF q
  <2>5. QED
    BY <1>1, <2>2, <2>3, <2>4, TokenizeScans
<1>3. q \in TokenLists /\ Len(q) = 1 /\ DOMAIN q = 1..1 /\ q[1] = w
  <2>1. q \in Seq(Octets)
    BY <1>1
  <2>2. q \in TokenLists
    BY <2>1, OctetsAreTexts
  <2>3. QED
    BY <2>2
<1>4. Canonical(w) = v
  BY WordConverts
<1> HIDE DEF v, q
<1>5. [i \in DOMAIN q |-> Canonical(q[i])] = <<v>>
  BY <1>3, <1>4
<1>6. Concat(<<v>>) = v
  <2>1. Concat(<<v>> \o <<>>) = v \o Concat(<<>>)
    BY <1>1, ConcatFirst
  <2>2. <<v>> \o <<>> = <<v>>
    OBVIOUS
  <2>3. Concat(<<>>) = <<>>
    BY <1>1, JoinedLoop DEF Concat
  <2>4. v \o <<>> = v
    BY <1>1, JoinsNothing
  <2>5. QED
    BY <2>1, <2>2, <2>3, <2>4
<1>7. TokensToCanonical[q] = PartsBy(TokensToCanonical, q)
  <2>1. Len(q) < 2
    BY <1>3
  <2>2. TokensToCanonical[q] = TokensBy(TokensToCanonical, q)
    BY <1>3, TokensToCanonicalDef
  <2>3. QED
    BY <2>1, <2>2 DEF TokensBy
<1>8. PartsBy(TokensToCanonical, q) = v
  BY <1>5, <1>6 DEF PartsBy, Canonical
<1>9. QED
  BY <1>2, <1>7, <1>8 DEF v

\* A text of one line that is converted to the canonical form of e.
IsAdvancedLine(t, e) ==
  /\ t \in Octets /\ t # <<>> /\ t \in Seq(Unbroken) /\ TrimSpace(t) = t /\ ~IsComment(t)
  /\ AdvancedToCanonical(t) = String[e]

(* The line of a rule that is an atom, and that of one that is a list.     *)
LEMMA AtomLine ==
  ASSUME NEW e \in Elements, e.kind = "atom", Word(e.value)
  PROVE  IsAdvancedLine(AdvancedForm[e], e) /\ ~HasStarForm[e]
<1> DEFINE t == AdvancedForm[e]
<1>1. t = e.value /\ String[e] = LengthValue(t) /\ t \in Octets /\ ~HasStarForm[e] /\ Word(t)
  BY AtomForms
<1> HIDE DEF t
<1>2. t \in Seq(Plain) /\ t # <<>> /\ ~IsComment(t) /\ t \in Seq(Unbroken)
  BY <1>1, WordIsPlain, UnbrokenIs
<1>3. Len(t) \in Nat /\ Len(t) >= 1 /\ \A i \in 1..Len(t) : t[i] \in Plain
  BY <1>2
<1>4. \A c \in Plain : c \notin Whitespace
  BY DEF Plain
<1>5. TrimSpace(t) = t
  <2>1. t[1] \in Plain /\ t[Len(t)] \in Plain
    BY <1>3
  <2>2. QED
    BY <1>1, <1>2, <1>4, <2>1, SolidIsTrimmed
<1>6. Head(t) # Open
  <2>1. Head(t) \in Plain
    BY <1>2
  <2>2. QED
    BY <2>1 DEF Plain
<1>7. AdvancedToCanonical(t) = TokensToCanonical[Tokenize(t)]
  BY <1>6 DEF AdvancedToCanonical
<1>8. QED
  BY <1>1, <1>2, <1>5, <1>7, WordTokenizes DEF IsAdvancedLine, t

LEMMA ListLine ==
  ASSUME NEW e \in Elements, e.kind = "list", Word(e.tag), e.elems # <<>>,
         \A i \in 1..Len(e.elems) : e.elems[i] \in Elements => Converts(e.elems[i])
  PROVE  IsAdvancedLine(AdvancedForm[e], e) /\ ~HasStarForm[e]
<1> DEFINE t == AdvancedForm[e]
           x == Bare(e)
<1>1. /\ x \in Octets /\ IsNested(t, x) /\ t \in Octets /\ t \in Seq(Unbroken)
      /\ TokensToCanonical[Tokenize(x)] = String[e] /\ ~HasStarForm[e]
  BY ListForms
<1> HIDE DEF t, x
<1>2. t # <<>> /\ Head(t) = Open /\ t[1] = Open /\ t[Len(t)] = Close /\ Inner(t) = x
  BY <1>1, NestedIs
<1>3. Open \notin Whitespace /\ Close \notin Whitespace /\ Open \notin {35, 47, 59}
  BY DEF Open, Close, Whitespace, Space
<1>4. TrimSpace(t) = t
  BY <1>1, <1>2, <1>3, SolidIsTrimmed
<1>5. ~IsComment(t)
  BY <1>1, <1>2, <1>3, NoComment
<1>6. AdvancedToCanonical(t) = TokensToCanonical[Tokenize(x)]
  BY <1>2 DEF AdvancedToCanonical
<1>7. QED
  BY <1>1, <1>2, <1>4, <1>5, <1>6 DEF IsAdvancedLine, t

(* The line of a rule that the advanced format can hold is converted to    *)
(* the rule's canonical form.                                              *)
THEOREM AdvancedLinesConvert ==
  ASSUME NEW e \in Elements, Survives(e, "advanced")
  PROVE  IsAdvancedLine(AdvancedForm[e], e) /\ ~HasStarForm[e]
<1>1. \/ e.kind = "atom" /\ Word(e.value)
      \/ /\ e.kind = "list" /\ Word(e.tag) /\ e.elems # <<>>
         /\ \A i \in DOMAIN e.elems :
              \/ e.elems[i].kind = "atom" /\ Word(e.elems[i].value)
              \/ e.elems[i].kind = "list" /\ Words(e.elems[i])
  BY DEF Survives
<1>2. CASE e.kind = "atom" /\ Word(e.value)
  BY <1>2, AtomLine
<1>3. CASE /\ e.kind = "list" /\ Word(e.tag) /\ e.elems # <<>>
           /\ \A i \in DOMAIN e.elems :
                \/ e.elems[i].kind = "atom" /\ Word(e.elems[i].value)
                \/ e.elems[i].kind = "list" /\ Words(e.elems[i])
  <2>1. ASSUME NEW i \in 1..Len(e.elems), e.elems[i] \in Elements PROVE Converts(e.elems[i])
    <3> DEFINE y == e.elems[i]
    <3>1. DOMAIN e.elems = 1..Len(e.elems)
      BY <1>3, KindsOfElements
    <3>2. \/ y.kind = "atom" /\ Word(y.value)
          \/ y.kind = "list" /\ Words(y)
      BY <1>3, <3>1
    <3>3. y \in Elements
      BY <2>1
    <3> HIDE DEF y
    <3>4. Converts(y)
      BY <3>2, <3>3, AtomConverts, WordsConvert
    <3>5. QED
      BY <3>4 DEF y
  <2>2. QED
    BY <1>3, <2>1, ListLine
<1>4. QED
  BY <1>1, <1>2, <1>3

-----------------------------------------------------------------------------
(***************************************************************************)
(* The rules of lines.                                                     *)
(***************************************************************************)
\* A rule that is one line.
IsLine(e) == IsRead(e) /\ IsText(String[e]) /\ TrimSpace(String[e]) = String[e]

LoadStates == [ok : BOOLEAN, rules : Seq(Readable)]

LEMMA OptionsAre ==
  \A f, s, m : /\ Options(f, s, m).format = f /\ Options(f, s, m).skipInvalid = s
               /\ Options(f, s, m).maxRules = m
BY DEF Options

LEMMA LoadStatesAre ==
  /\ \A p : Loaded(p).ok = TRUE /\ Loaded(p).rules = p
  /\ LoadFailed.ok = FALSE /\ LoadFailed.rules = <<>>
BY DEF Loaded, LoadFailed

(* What is parsed of a text without a panicking slice can be read.         *)
LEMMA LoadRuleType ==
  ASSUME NEW opts, NEW x \in LoadStates, NEW text \in Texts
  PROVE  LoadRule(opts, x, text) \in LoadStates
<1> DEFINE rule == Parse[text]
           taken == TakeRule(opts, x, text, rule)
<1>1. x.ok \in BOOLEAN /\ x.rules \in Seq(Readable) /\ x = [ok |-> x.ok, rules |-> x.rules]
  BY DEF LoadStates
<1>2. LoadFailed \in LoadStates
  BY DEF LoadFailed, LoadStates
<1>3. CASE Panicking \in {text[i] : i \in DOMAIN text}
  <2>1. taken = LoadFailed
    BY <1>3 DEF TakeRule
  <2>2. QED
    BY <1>2, <2>1 DEF LoadRule
<1>4. CASE Panicking \notin {text[i] : i \in DOMAIN text}
  <2>1. text \in Octets
    <3>1. Len(text) \in Nat /\ DOMAIN text = 1..Len(text) /\ \A i \in 1..Len(text) : text[i] \in Signs
      BY DEF Texts
    <3>2. \A i \in 1..Len(text) : text[i] \in Octet
      BY <1>4, <3>1 DEF Signs
    <3>3. text \in [1..Len(text) -> Octet]
      BY <3>1, <3>2 DEF Texts
    <3>4. QED
      BY <3>1, <3>3 DEF Octets
  <2>2. rule.elem \in Readable
    BY <2>1 DEF Readable
  <2> HIDE DEF rule
  <2>3. [x EXCEPT !.rules = Append(@, rule.elem)] \in LoadStates
    <3>1. Append(x.rules, rule.elem) \in Seq(Readable)
      BY <1>1, <2>2
    <3>2. [x EXCEPT !.rules = Append(@, rule.elem)] = [ok |-> x.ok, rules |-> Append(x.rules, rule.elem)]
      BY <1>1
    <3>3. QED
      BY <1>1, <3>1, <3>2 DEF LoadStates
  <2>4. taken \in {x, LoadFailed, [x EXCEPT !.rules = Append(@, rule.elem)]}
    BY DEF TakeRule
  <2> HIDE DEF taken
  <2>5. taken \in LoadStates
    BY <1>2, <2>3, <2>4
  <2>6. QED
    BY <2>5 DEF LoadRule, taken, rule
<1>5. QED
  BY <1>3, <1>4

\* Formats of which a line is a rule.
LineFormats == {"canonical", "advanced"}

(* What an advanced line is converted to may have a panicking slice in it. *)
LEMMA ConvertedIs ==
  ASSUME NEW t \in Octets
  PROVE  AdvancedToCanonical(t) \in Texts
<1>1. ASSUME NEW b \in Texts PROVE TokensToCanonical[Tokenize(b)] \in Texts
  <2>1. Tokenize(b) \in TokenLists
    BY TokensAreBounded DEF Texts, TokenLists
  <2>2. QED
    BY <2>1, TokensToCanonicalDef
<1>2. t \in Texts
  BY OctetsAreTexts
<1>3. t # <<>> => Inner(t) \in Texts
  BY <1>2, InnerIsShorter
<1>4. QED
  BY <1>1, <1>2, <1>3 DEF AdvancedToCanonical

LEMMA LoadLineType ==
  ASSUME NEW opts, opts.format \in LineFormats, NEW x \in LoadStates, NEW line \in Octets
  PROVE  LoadLine(opts, x, line) \in LoadStates
<1> DEFINE text == TrimSpace(line)
           y == IF opts.format = "advanced" THEN AdvancedToCanonical(text) ELSE text
<1>1. text \in Octets
  BY TrimSpaceIs
<1> HIDE DEF text
<1>2. y \in Texts
  BY <1>1, ConvertedIs, OctetsAreTexts
<1> HIDE DEF y
<1>3. LoadTrimmed(opts, x, text) \in {x, LoadRule(opts, x, y)}
  BY DEF LoadTrimmed, y
<1>4. LoadTrimmed(opts, x, text) \in LoadStates
  BY <1>2, <1>3, LoadRuleType
<1>5. QED
  BY <1>4 DEF LoadLine, text

(* The loop of loadText is what its definition says.                       *)
LEMMA LoadLoop ==
  ASSUME NEW opts, opts.format \in LineFormats, NEW lines \in Seq(Octets)
  PROVE  /\ LoadLines(opts, lines)[0] = Loaded(<<>>)
         /\ \A i \in 1..Len(lines) :
              LoadLines(opts, lines)[i] = LoadLine(opts, LoadLines(opts, lines)[i - 1], lines[i])
<1> DEFINE n == Len(lines)
           start == Loaded(<<>>)
           Body(f) == [i \in 0..n |-> IF i = 0 THEN start ELSE LoadLine(opts, f[i - 1], lines[i])]
           Round == [p \in (1..n) \X LoadStates |-> LoadLine(opts, p[2], lines[p[1]])]
           L == LoadLines(opts, lines)
<1>0. n \in Nat /\ \A i \in 1..n : lines[i] \in Octets
  OBVIOUS
<1>1. start \in LoadStates
  BY DEF LoadStates, Loaded
<1>2. Round \in [(1..n) \X LoadStates -> LoadStates]
  <2>1. ASSUME NEW p \in (1..n) \X LoadStates PROVE LoadLine(opts, p[2], lines[p[1]]) \in LoadStates
    <3>1. lines[p[1]] \in Octets /\ p[2] \in LoadStates
      BY <1>0
    <3>2. QED
      BY <3>1, LoadLineType
  <2>2. QED
    BY <2>1
<1>3. PICK f \in [0..n -> LoadStates] : IsLoop(f, n, start, Round)
  <2> HIDE DEF start, Round, n
  <2>1. QED
    BY <1>0, <1>1, <1>2, LoopStays
<1>4. f = Body(f)
  <2>1. ASSUME NEW i \in 0..n, i # 0
        PROVE  Round[<<i, f[i - 1]>>] = LoadLine(opts, f[i - 1], lines[i])
    <3>1. i \in 1..n /\ i - 1 \in 0..n
      BY <1>0, <2>1
    <3>2. <<i, f[i - 1]>> \in (1..n) \X LoadStates
      BY <1>3, <3>1
    <3>3. QED
      BY <3>2
  <2>2. f = [i \in 0..n |-> IF i = 0 THEN start ELSE Round[<<i, f[i - 1]>>]]
    BY <1>3 DEF IsLoop
  <2> HIDE DEF Round, start, n
  <2>3. QED
    BY <2>1, <2>2
<1>5. L = Body(L)
  <2>1. L = CHOOSE g : g = Body(g)
    BY DEF LoadLines
  <2> HIDE DEF Body, L
  <2>2. QED
    BY <1>4, <2>1
<1> HIDE DEF L
<1>6. L[0] = start
  <2>1. 0 \in 0..n
    BY <1>0
  <2>2. QED
    BY <1>5, <2>1
<1>7. ASSUME NEW i \in 1..n PROVE L[i] = LoadLine(opts, L[i - 1], lines[i])
  <2>1. i \in 0..n /\ i # 0
    BY <1>0
  <2>2. QED
    BY <1>5, <2>1
<1>8. QED
  BY SMTT(30), <1>6, <1>7 DEF L, n, start

\* What is loaded after a line that is the rule e without v, with p before it.
Taken(e, v, skip, limit, p) ==
  IF limit > 0 /\ Len(p) >= limit THEN Loaded(p)
  ELSE IF v = <<>> THEN Loaded(Append(p, e))
  ELSE IF skip THEN Loaded(p) ELSE LoadFailed

LEMMA LoadedThen ==
  ASSUME NEW p, NEW e
  PROVE  /\ Loaded(p).ok = TRUE /\ Loaded(p).rules = p
         /\ [Loaded(p) EXCEPT !.rules = Append(@, e)] = Loaded(Append(p, e))
<1> DEFINE x == Loaded(p)
<1>1. x.ok = TRUE /\ x.rules = p
  BY DEF Loaded
<1>2. x.ok \in BOOLEAN /\ x = [ok |-> x.ok, rules |-> x.rules]
  BY DEF Loaded
<1> HIDE DEF x
<1>3. [x EXCEPT !.rules = Append(@, e)] = [ok |-> x.ok, rules |-> Append(x.rules, e)]
  BY <1>2
<1>4. QED
  BY <1>1, <1>3 DEF x, Loaded

(* A line that begins as a rule does is that rule, or none if it is not    *)
(* all of it.                                                              *)
LEMMA BeginningIsTaken ==
  ASSUME NEW e, IsLine(e), NEW s \in Octets, s # <<>>, NEW v \in Octets, IsJoin(String[e], s, v),
         NEW skip, NEW limit, NEW p
  PROVE  LoadTrimmed(Options("canonical", skip, limit), Loaded(p), s) = Taken(e, v, skip, limit, p)
<1> DEFINE opts == Options("canonical", skip, limit)
           x == Loaded(p)
           t == String[e]
<1>1. /\ t \in Octets /\ t # <<>> /\ t[1] \in Digits \union {Open}
      /\ \A b, z \in Octets : IsJoin(b, t, z) => Parse[b] = Parsed(e, z)
      /\ \A b, z \in Octets : z # <<>> /\ IsJoin(t, b, z) => Parse[b] = Failure
  BY DEF IsLine, IsRead
<1>2. opts.format = "canonical" /\ opts.skipInvalid = skip /\ opts.maxRules = limit
  BY OptionsAre
<1> HIDE DEF t
<1>3. x.ok = TRUE /\ x.rules = p /\ [x EXCEPT !.rules = Append(@, e)] = Loaded(Append(p, e))
  BY LoadedThen
<1>4. s[1] \in Digits \union {Open}
  <2>1. Head(t) = Head(s)
    BY JoinWithoutHead DEF t
  <2>2. Head(t) = t[1] /\ Head(s) = s[1]
    BY <1>1, HeadAndTail
  <2>3. QED
    BY <1>1, <2>1, <2>2
<1>5. ~IsComment(s)
  <2>1. s[1] \notin {35, 47, 59}
    BY <1>4 DEF Digits, Open
  <2>2. QED
    BY <2>1, NoComment
<1>6. Panicking \notin {s[i] : i \in DOMAIN s}
  <2>1. \A i \in DOMAIN s : s[i] \in Octet
    BY OctetsAre
  <2>2. Panicking \notin Octet
    BY DEF Panicking, Octet
  <2>3. QED
    BY <2>1, <2>2
<1> HIDE DEF opts, x
<1>7. LoadTrimmed(opts, x, s) =
        IF limit > 0 /\ Len(p) >= limit THEN x ELSE TakeRule(opts, x, s, Parse[s])
  BY <1>2, <1>3, <1>5 DEF LoadTrimmed, LimitReached, LoadRule
<1>8. CASE v = <<>>
  <2>1. s = t
    <3>1. t = s \o <<>>
      BY <1>8 DEF IsJoin, t
    <3>2. s \o <<>> = s
      BY JoinsNothing
    <3>3. QED
      BY <3>1, <3>2
  <2>2. IsJoin(t, t, <<>>) /\ <<>> \in Octets
    BY <1>1, JoinsNothing, NoOctets DEF IsJoin
  <2>3. Parse[s] = Parsed(e, <<>>)
    BY <1>1, <2>1, <2>2
  <2>4. TakeRule(opts, x, s, Parsed(e, <<>>)) = Loaded(Append(p, e))
    <3> DEFINE rule == Parsed(e, <<>>)
    <3>1. rule.kind = "parsed" /\ rule.elem = e
      BY KindsOfResults
    <3> HIDE DEF rule
    <3>2. TakeRule(opts, x, s, rule) = [x EXCEPT !.rules = Append(@, rule.elem)]
      BY <1>6, <3>1 DEF TakeRule
    <3>3. QED
      BY <1>3, <3>1, <3>2 DEF rule
  <2>5. QED
    BY <1>7, <1>8, <2>3, <2>4 DEF opts, x, Taken
<1>9. CASE v # <<>>
  <2>1. Parse[s] = Failure
    BY <1>1, <1>9 DEF t
  <2>2. TakeRule(opts, x, s, Failure) = IF skip THEN x ELSE LoadFailed
    BY <1>2, <1>6, KindsOfResults DEF TakeRule
  <2>3. QED
    BY <1>7, <1>9, <2>1, <2>2 DEF opts, x, Taken
<1>10. QED
  BY <1>8, <1>9

\* t is a line of a format that is loaded as the rule e, if the limit lets it in.
LoadsAs(m, t, e) ==
  /\ IsText(t)
  /\ \A skip, limit, p :
       LoadLine(Options(m, skip, limit), Loaded(p), t) =
         IF limit > 0 /\ Len(p) >= limit THEN Loaded(p) ELSE Loaded(Append(p, e))

\* The lines of the rules, of which f is the form, are loaded as the rules.
LoadAs(m, f, q) == \A i \in 1..Len(q) : LoadsAs(m, f[q[i]], q[i])

(* A whole line is its rule; the beginning of one, which may be blank at   *)
(* its end, is its rule, or none, or the load fails.                       *)
LEMMA LineIsTaken ==
  ASSUME NEW e, IsLine(e)
  PROVE  LoadsAs("canonical", String[e], e)
<1> DEFINE t == String[e]
<1>1. t \in Octets /\ t # <<>> /\ TrimSpace(t) = t /\ IsText(t)
  BY DEF IsLine, IsRead
<1>2. IsJoin(t, t, <<>>) /\ <<>> \in Octets
  BY <1>1, JoinsNothing, NoOctets DEF IsJoin
<1>3. ASSUME NEW skip, NEW limit, NEW p
      PROVE  LoadLine(Options("canonical", skip, limit), Loaded(p), t) =
               IF limit > 0 /\ Len(p) >= limit THEN Loaded(p) ELSE Loaded(Append(p, e))
  <2>1. LoadTrimmed(Options("canonical", skip, limit), Loaded(p), t) = Taken(e, <<>>, skip, limit, p)
    BY <1>1, <1>2, BeginningIsTaken
  <2>2. QED
    BY <1>1, <2>1 DEF LoadLine, Taken
<1>4. QED
  BY <1>1, <1>3 DEF LoadsAs

LEMMA CutLineIsTaken ==
  ASSUME NEW e, IsLine(e), NEW s \in Octets, s # <<>>, NEW y \in Octets, IsJoin(String[e], s, y),
         NEW skip, NEW limit, NEW p
  PROVE  /\ LoadLine(Options("canonical", skip, limit), Loaded(p), s)
              \in {Loaded(p), LoadFailed, Loaded(Append(p, e))}
         /\ limit > 0 /\ Len(p) >= limit =>
              LoadLine(Options("canonical", skip, limit), Loaded(p), s) = Loaded(p)
<1> DEFINE t == String[e]
           b == TrimSpace(s)
<1>1. t \in Octets /\ t # <<>> /\ t[1] \in Digits \union {Open}
  BY DEF IsLine, IsRead
<1>2. s[1] \notin Whitespace
  <2>1. Head(t) = Head(s)
    BY JoinWithoutHead
  <2>2. Head(t) = t[1] /\ Head(s) = s[1]
    BY <1>1, HeadAndTail
  <2>3. s[1] \in Digits \union {Open}
    BY <1>1, <2>1, <2>2
  <2>4. QED
    BY <2>3 DEF Digits, Open, Whitespace, Space
<1>3. b \in Octets /\ \E m \in 1..Len(s) : b = SubSeq(s, 1, m)
  BY <1>2, TrimSpaceIs
<1>4. PICK m \in 1..Len(s) : b = SubSeq(s, 1, m)
  BY <1>3
<1>5. Len(s) \in Nat /\ m \in Nat /\ m >= 1
  BY OctetsAre
<1>6. Len(b) = m
  <2>1. 1 \in 1..(Len(s) + 1) /\ m \in (1 - 1)..Len(s) /\ (m - 1) + 1 = m
    BY <1>5
  <2>2. Len(SubSeq(s, 1, m)) = (m - 1) + 1
    BY <2>1, Pieces
  <2>3. QED
    BY <1>4, <2>1, <2>2
<1> HIDE DEF b, t
<1>7. b # <<>>
  BY <1>5, <1>6, NoOctets
<1>8. \E v \in Octets : IsJoin(t, b, v)
  <2>1. CASE m = Len(s)
    <3>1. b = s
      BY <1>4, <2>1 DEF Octets
    <3>2. QED
      BY <3>1 DEF t
  <2>2. CASE m # Len(s)
    <3>1. m \in 0..(Len(s) - 1)
      BY <1>5, <2>2
    <3>2. PICK f \in Octets : IsJoin(s, b, f)
      BY <1>4, <3>1, CutIsJoin
    <3>3. IsJoin(t, s, y)
      BY DEF t
    <3>4. \E d \in Octets : IsJoin(d, f, y) /\ IsJoin(t, b, d)
      BY <1>3, <3>2, <3>3, JoinsRegroup
    <3>5. QED
      BY <3>4
  <2>3. QED
    BY <2>1, <2>2
<1>9. PICK v \in Octets : IsJoin(t, b, v)
  BY <1>8
<1>10. /\ LoadTrimmed(Options("canonical", skip, limit), Loaded(p), b)
            \in {Loaded(p), LoadFailed, Loaded(Append(p, e))}
       /\ limit > 0 /\ Len(p) >= limit =>
            LoadTrimmed(Options("canonical", skip, limit), Loaded(p), b) = Loaded(p)
  <2>1. IsJoin(String[e], b, v)
    BY <1>9 DEF t
  <2>2. LoadTrimmed(Options("canonical", skip, limit), Loaded(p), b) = Taken(e, v, skip, limit, p)
    <3>1. b \in Octets
      BY <1>3
    <3>2. v \in Octets
      BY <1>9
    <3>3. QED
      BY <1>7, <2>1, <3>1, <3>2, BeginningIsTaken
  <2>3. QED
    BY <2>2 DEF Taken
<1>11. QED
  BY <1>10 DEF LoadLine, b

(* Lines that are rules are loaded in order, up to the limit.              *)
\* As many of the first i rules as the limit lets in.
Within(q, i, limit) == SubSeq(q, 1, IF limit > 0 /\ i > limit THEN limit ELSE i)

(* Whole lines are loaded as the rules they are of.                        *)
LEMMA WholeLinesLoad ==
  ASSUME NEW S, NEW q \in Seq(S), NEW m \in LineFormats, NEW f, LoadAs(m, f, q),
         NEW skip, NEW limit \in Nat,
         NEW lines \in Seq(Octets), NEW k \in 0..Len(q), k <= Len(lines),
         \A i \in 1..k : lines[i] = f[q[i]]
  PROVE  \A i \in 0..k : LoadLines(Options(m, skip, limit), lines)[i] =
                           Loaded(Within(q, i, limit))
<1> DEFINE opts == Options(m, skip, limit)
           L == LoadLines(opts, lines)
           T == {i \in 0..k : L[i] = Loaded(Within(q, i, limit))}
<1>1. Len(q) \in Nat /\ Len(lines) \in Nat /\ k \in Nat /\ k <= Len(q)
  OBVIOUS
<1>2. /\ L[0] = Loaded(<<>>)
      /\ \A i \in 1..Len(lines) : L[i] = LoadLine(opts, L[i - 1], lines[i])
  <2>1. opts.format \in LineFormats
    BY OptionsAre
  <2> HIDE DEF opts
  <2>2. QED
    BY <2>1, LoadLoop
<1> HIDE DEF L
<1>3. /\ SubSeq(q, 1, 0) = <<>>
      /\ \A i \in 0..(Len(q) - 1) : Append(SubSeq(q, 1, i), q[i + 1]) = SubSeq(q, 1, i + 1)
  BY BeginningsGrow
<1>4. 0 \in T
  <2>1. Within(q, 0, limit) = <<>>
    BY <1>3 DEF Within
  <2>2. QED
    BY <1>1, <1>2, <2>1
<1>5. ASSUME NEW i \in 0..(k - 1), i \in T PROVE i + 1 \in T
  <2> DEFINE p == Within(q, i, limit)
             e == q[i + 1]
  <2>1. /\ i + 1 \in 1..Len(lines) /\ i + 1 \in 1..k /\ i + 1 \in 0..k /\ (i + 1) - 1 = i
        /\ i \in 0..(Len(q) - 1) /\ i + 1 \in 1..Len(q) /\ i \in Nat
    <3> DEFINE l == Len(lines)
               n == Len(q)
    <3>1. l \in Nat /\ n \in Nat /\ k \in Nat /\ k <= l /\ k <= n
      BY <1>1
    <3> HIDE DEF l, n
    <3>2. /\ i + 1 \in 1..l /\ i + 1 \in 1..k /\ i + 1 \in 0..k /\ (i + 1) - 1 = i
          /\ i \in 0..(n - 1) /\ i + 1 \in 1..n /\ i \in Nat
      BY <3>1
    <3>3. QED
      BY <3>2 DEF l, n
  <2>2. L[i] = Loaded(p)
    BY <1>5
  <2>3. L[i + 1] = LoadLine(opts, L[i], lines[i + 1])
    BY <1>2, <2>1
  <2>4. lines[i + 1] = f[e] /\ LoadsAs(m, f[e], e)
    BY <2>1 DEF LoadAs
  <2>5. LoadLine(opts, Loaded(p), f[e]) =
          IF limit > 0 /\ Len(p) >= limit THEN Loaded(p) ELSE Loaded(Append(p, e))
    BY <2>4 DEF LoadsAs
  <2>6. CASE limit > 0 /\ i >= limit
    <3>1. p = SubSeq(q, 1, limit) /\ Within(q, i + 1, limit) = SubSeq(q, 1, limit)
      <4>1. (IF limit > 0 /\ i > limit THEN limit ELSE i) = limit
        BY <2>1, <2>6
      <4>2. (IF limit > 0 /\ i + 1 > limit THEN limit ELSE i + 1) = limit
        BY <2>1, <2>6
      <4>3. QED
        BY <4>1, <4>2 DEF Within
    <3>2. Len(SubSeq(q, 1, limit)) = limit
      BY <1>1, <2>1, <2>6
    <3>3. L[i + 1] = Loaded(p)
      BY <2>2, <2>3, <2>4, <2>5, <2>6, <3>1, <3>2
    <3>4. QED
      BY <2>1, <3>1, <3>3
  <2>7. CASE ~(limit > 0 /\ i >= limit)
    <3>1. p = SubSeq(q, 1, i) /\ Within(q, i + 1, limit) = SubSeq(q, 1, i + 1)
      <4>1. (IF limit > 0 /\ i > limit THEN limit ELSE i) = i
        BY <2>1, <2>7
      <4>2. (IF limit > 0 /\ i + 1 > limit THEN limit ELSE i + 1) = i + 1
        BY <2>1, <2>7
      <4>3. QED
        BY <4>1, <4>2 DEF Within
    <3>2. Len(SubSeq(q, 1, i)) = i
      BY <1>1, <2>1
    <3>3. ~(limit > 0 /\ Len(p) >= limit)
      BY <2>7, <3>1, <3>2
    <3>4. L[i + 1] = Loaded(Append(p, e))
      BY <2>2, <2>3, <2>4, <2>5, <3>3
    <3>5. Append(p, e) = SubSeq(q, 1, i + 1)
      BY <1>3, <2>1, <3>1
    <3>6. QED
      BY <2>1, <3>1, <3>4, <3>5
  <2>8. QED
    BY <2>6, <2>7
<1>6. \A i \in 0..k : i \in T
  <2> HIDE DEF T
  <2>1. QED
    BY <1>1, <1>4, <1>5, Steps
<1>7. QED
  BY <1>6 DEF L

(* The lines that a file is written in: f is the form of a rule in it.     *)
LEMMA WrittenLines ==
  ASSUME NEW S, NEW q \in Seq(S), NEW f, \A i \in 1..Len(q) : IsText(f[q[i]])
  PROVE  \E p, a, r : /\ AreLines(p, a, r) /\ Concat([i \in DOMAIN q |-> Line(f[q[i]])]) = r[0]
                      /\ Len(p) = Len(q) /\ \A i \in 1..Len(q) : p[i] = f[q[i]] /\ p[i] \in Octets
<1> DEFINE n == Len(q)
           p == [i \in 1..n |-> f[q[i]]]
           a == [i \in DOMAIN q |-> Line(f[q[i]])]
<1>1. n \in Nat /\ DOMAIN q = 1..n
  OBVIOUS
<1>2. \A i \in 1..n : IsText(p[i]) /\ p[i] = f[q[i]]
  OBVIOUS
<1> HIDE DEF n
<1>3. a = [i \in 1..n |-> Line(f[q[i]])]
  BY <1>1
<1>4. Len(p) = n
  <2>1. p \in Seq(Octets)
    <3>1. p \in [1..n -> Octets]
      BY <1>2 DEF IsText
    <3>2. QED
      BY <1>1, <3>1
  <2>2. DOMAIN p = 1..n
    OBVIOUS
  <2> HIDE DEF p
  <2>3. QED
    BY <1>1, <2>1, <2>2
<1>5. \A i \in 1..n : a[i] = Line(p[i])
  BY <1>2, <1>3
<1> HIDE DEF p
<1>6. \A i \in 1..n : Line(p[i]) \in Octets
  BY <1>2, NewlineIsOctet, AppendIsJoin DEF IsText, Line
<1>7. a \in Seq(Octets) /\ Len(a) = n
  <2>1. a \in [1..n -> Octets] /\ DOMAIN a = 1..n
    BY <1>3, <1>5, <1>6
  <2> HIDE DEF a
  <2>2. QED
    BY <1>1, <2>1
<1> DEFINE whole == Concat(a)
<1>8. PICK r : AreRemainders(r, a) /\ r[0] = whole
  <2> HIDE DEF a
  <2>1. QED
    BY <1>7, RemaindersExist
<1>9. AreLines(p, a, r)
  <2> HIDE DEF a
  <2>1. QED
    BY <1>1, <1>2, <1>4, <1>5, <1>7, <1>8 DEF AreLines
<1>10. \A i \in 1..n : p[i] = f[q[i]] /\ p[i] \in Octets
  BY <1>2 DEF IsText
<1>11. QED
  BY <1>4, <1>8, <1>9, <1>10 DEF n

(* The lines that a canonical file is written in.                          *)
LEMMA CanonicalFile ==
  ASSUME NEW S, NEW q \in Seq(S), \A i \in 1..Len(q) : IsLine(q[i])
  PROVE  \E p, a, r : /\ AreLines(p, a, r) /\ SaveCanonical(q) = r[0] /\ Len(p) = Len(q)
                      /\ \A i \in 1..Len(q) : p[i] = String[q[i]] /\ p[i] \in Octets
<1>1. \A i \in 1..Len(q) : IsText(String[q[i]])
  BY DEF IsLine
<1>2. PICK p, a, r :
         /\ AreLines(p, a, r) /\ Concat([i \in DOMAIN q |-> Line(String[q[i]])]) = r[0]
         /\ Len(p) = Len(q) /\ \A i \in 1..Len(q) : p[i] = String[q[i]] /\ p[i] \in Octets
  BY <1>1, WrittenLines
<1>3. SaveCanonical(q) = r[0]
  BY <1>2 DEF SaveCanonical
<1>4. QED
  BY <1>2, <1>3

(* The lines that an advanced file is written in.                          *)
LEMMA AdvancedFile ==
  ASSUME NEW S, NEW q \in Seq(S), \A i \in 1..Len(q) : IsText(AdvancedForm[q[i]])
  PROVE  \E p, a, r : /\ AreLines(p, a, r) /\ SaveAdvanced(q) = r[0] /\ Len(p) = Len(q)
                      /\ \A i \in 1..Len(q) : p[i] = AdvancedForm[q[i]] /\ p[i] \in Octets
<1>1. PICK p, a, r :
         /\ AreLines(p, a, r) /\ Concat([i \in DOMAIN q |-> Line(AdvancedForm[q[i]])]) = r[0]
         /\ Len(p) = Len(q) /\ \A i \in 1..Len(q) : p[i] = AdvancedForm[q[i]] /\ p[i] \in Octets
  BY WrittenLines
<1>2. SaveAdvanced(q) = r[0]
  BY <1>1 DEF SaveAdvanced
<1>3. QED
  BY <1>1, <1>2

(* A canonical file, whole or cut off, read as one: a beginning of its     *)
(* rules, or nothing and an error; and if it is whole, as many of its      *)
(* rules as the limit lets in.                                             *)
THEOREM CanonicalFilesBegin ==
  ASSUME NEW S, NEW q \in Seq(S), \A i \in 1..Len(q) : IsLine(q[i]),
         NEW c \in Octets, NEW u \in Octets, IsJoin(SaveCanonical(q), c, u),
         NEW skip, NEW limit \in Nat, NEW x,
         x = LoadText(c, Options("canonical", skip, limit))
  PROVE  /\ x = LoadFailed \/ \E k \in 0..Len(q) : x = Loaded(SubSeq(q, 1, k))
         /\ u = <<>> => x = Loaded(Within(q, Len(q), limit))
<1> DEFINE opts == Options("canonical", skip, limit)
           lines == Lines(c)
           n == Len(lines)
           L == LoadLines(opts, lines)
<1>1. PICK texts, a, r : /\ AreLines(texts, a, r) /\ SaveCanonical(q) = r[0]
                     /\ Len(texts) = Len(q)
                     /\ \A i \in 1..Len(q) : texts[i] = String[q[i]] /\ texts[i] \in Octets
  BY CanonicalFile
<1>2. AreLinesOf(lines, texts, u) /\ lines \in Seq(Octets)
  BY <1>1, FileLines
<1>3. x = L[n]
  BY DEF LoadText
<1>4. Len(q) \in Nat /\ \A i \in 1..Len(q) : String[q[i]] \in Octets
  BY DEF IsLine, IsRead
<1>5. opts.format = "canonical"
  BY OptionsAre
<1> HIDE DEF lines, L
<1>6. ASSUME NEW i \in 0..Len(q) PROVE \E k \in 0..Len(q) : Within(q, i, limit) = SubSeq(q, 1, k)
  <2>1. CASE limit > 0 /\ i > limit
    <3>1. limit \in 0..Len(q)
      BY <1>4, <2>1
    <3>2. QED
      BY <2>1, <3>1 DEF Within
  <2>2. CASE ~(limit > 0 /\ i > limit)
    BY <2>2 DEF Within
  <2>3. QED
    BY <2>1, <2>2
<1>7. PICK k \in 0..Len(q) :
        \/ lines = Upto(texts, k) /\ (u = <<>> => k = Len(q))
        \/ /\ k < Len(q) /\ u # <<>>
           /\ \E f, y \in Octets : /\ f # <<>> /\ IsJoin(texts[k + 1], f, y)
                                   /\ lines = Append(Upto(texts, k), f)
  BY <1>1, <1>2 DEF AreLinesOf
<1>8. k \in Nat /\ k <= Len(q) /\ \A i \in 1..k : texts[i] = String[q[i]] /\ texts[i] \in Octets
  BY <1>1, <1>4
<1>9. /\ Upto(texts, k) \in Seq(Octets) /\ Len(Upto(texts, k)) = k
      /\ \A i \in 1..k : Upto(texts, k)[i] = String[q[i]]
  BY <1>8, TextsGrow
<1>10. ASSUME k <= n, \A i \in 1..k : lines[i] = String[q[i]]
       PROVE  L[k] = Loaded(Within(q, k, limit))
  <2>1. \A i \in 0..k : LoadLines(opts, lines)[i] = Loaded(Within(q, i, limit))
    <3>1. k <= Len(lines) /\ lines \in Seq(Octets)
      BY <1>2, <1>10
    <3>2. \A i \in 1..k : lines[i] = String[q[i]]
      BY <1>10
    <3>4. LoadAs("canonical", String, q) /\ "canonical" \in LineFormats
      BY LineIsTaken DEF LoadAs, LineFormats
    <3> HIDE DEF n
    <3>3. QED
      BY SMTT(30), <3>1, <3>2, <3>4, WholeLinesLoad
  <2>2. k \in 0..k
    BY <1>8
  <2>3. QED
    BY <2>1, <2>2 DEF L
<1>11. CASE lines = Upto(texts, k) /\ (u = <<>> => k = Len(q))
  <2>1. n = k /\ \A i \in 1..k : lines[i] = String[q[i]]
    BY <1>9, <1>11
  <2>2. x = Loaded(Within(q, k, limit))
    BY <1>3, <1>8, <1>10, <2>1
  <2>3. QED
    BY <1>6, <1>11, <2>2
<1>12. CASE /\ k < Len(q) /\ u # <<>>
            /\ \E f, y \in Octets : /\ f # <<>> /\ IsJoin(texts[k + 1], f, y)
                                    /\ lines = Append(Upto(texts, k), f)
  <2>1. PICK f \in Octets, y \in Octets : /\ f # <<>> /\ IsJoin(String[q[k + 1]], f, y)
                                          /\ lines = Append(Upto(texts, k), f)
    <3>1. k + 1 \in 1..Len(q)
      BY <1>8, <1>12
    <3>2. QED
      BY <1>1, <1>12, <3>1
  <2> DEFINE s == Upto(texts, k)
             e == q[k + 1]
             p == Within(q, k, limit)
  <2>2. n = k + 1 /\ lines[k + 1] = f /\ \A i \in 1..k : lines[i] = String[q[i]]
    <3>1. s \in Seq(Octets) /\ Len(s) = k /\ \A i \in 1..k : s[i] = String[q[i]]
      BY <1>9
    <3>2. lines = Append(s, f)
      BY <2>1
    <3> HIDE DEF s
    <3>3. /\ Len(Append(s, f)) = k + 1 /\ Append(s, f)[k + 1] = f
          /\ \A i \in 1..k : Append(s, f)[i] = s[i]
      BY <1>8, <3>1
    <3>4. QED
      BY <3>1, <3>2, <3>3
  <2>3. L[k] = Loaded(p)
    BY <1>8, <1>10, <2>2
  <2>4. k + 1 \in 1..Len(lines) /\ (k + 1) - 1 = k /\ k + 1 \in 1..Len(q)
    BY <1>8, <1>12, <2>2
  <2>5. L[k + 1] = LoadLine(opts, L[k], f)
    <3>1. \A i \in 1..Len(lines) :
             LoadLines(opts, lines)[i] = LoadLine(opts, LoadLines(opts, lines)[i - 1], lines[i])
      <4> HIDE DEF opts
      <4>1. QED
        BY <1>2, <1>5, LoadLoop DEF LineFormats
    <3>2. L[k + 1] = LoadLine(opts, L[(k + 1) - 1], lines[k + 1])
      BY <2>4, <3>1 DEF L
    <3>3. QED
      BY <2>2, <2>4, <3>2
  <2>6. IsLine(e)
    BY <2>4
  <2>7. LoadLine(opts, Loaded(p), f) \in {Loaded(p), LoadFailed, Loaded(Append(p, e))}
    BY <2>1, <2>6, CutLineIsTaken
  <2>8. x \in {Loaded(p), LoadFailed, Loaded(Append(p, e))}
    BY <1>3, <2>2, <2>3, <2>5, <2>7
  <2>9. ASSUME x = Loaded(Append(p, e)), x # Loaded(p)
        PROVE  \E m \in 0..Len(q) : x = Loaded(SubSeq(q, 1, m))
    <3>1. ~(limit > 0 /\ Len(p) >= limit)
      <4>1. limit > 0 /\ Len(p) >= limit => LoadLine(opts, Loaded(p), f) = Loaded(p)
        BY <2>1, <2>6, CutLineIsTaken
      <4>2. x = LoadLine(opts, Loaded(p), f)
        BY <1>3, <2>2, <2>3, <2>5
      <4>3. QED
        BY <2>9, <4>1, <4>2
    <3>2. ~(limit > 0 /\ k > limit)
      <4>1. ASSUME limit > 0, k > limit PROVE FALSE
        <5>1. p = SubSeq(q, 1, limit)
          BY <4>1 DEF Within
        <5>2. Len(SubSeq(q, 1, limit)) = limit
          BY <1>8, <4>1
        <5>3. QED
          BY <3>1, <4>1, <5>1, <5>2
      <4>2. QED
        BY <4>1
    <3>3. p = SubSeq(q, 1, k)
      BY <3>2 DEF Within
    <3>4. k \in 0..(Len(q) - 1)
      BY <1>8, <1>12
    <3>5. Append(SubSeq(q, 1, k), q[k + 1]) = SubSeq(q, 1, k + 1)
      BY <3>4, BeginningsGrow
    <3>6. Append(p, e) = SubSeq(q, 1, k + 1) /\ k + 1 \in 0..Len(q)
      BY <1>8, <1>12, <3>3, <3>5
    <3>7. QED
      BY <2>9, <3>6
  <2>10. QED
    <3>1. \E m \in 0..Len(q) : p = SubSeq(q, 1, m)
      BY <1>6
    <3>2. x = LoadFailed \/ \E m \in 0..Len(q) : x = Loaded(SubSeq(q, 1, m))
      BY <2>8, <2>9, <3>1
    <3>3. QED
      BY <1>12, <3>2
<1>13. QED
  BY <1>7, <1>11, <1>12

(***************************************************************************)
(* Advanced files.                                                         *)
(***************************************************************************)
(* The line of a rule that the advanced format can hold is loaded as it.   *)
LEMMA AdvancedLineLoads ==
  ASSUME NEW e \in Elements, Survives(e, "advanced")
  PROVE  LoadsAs("advanced", AdvancedForm[e], e)
<1> DEFINE t == AdvancedForm[e]
           c == String[e]
<1>1. IsAdvancedLine(t, e) /\ ~HasStarForm[e]
  BY AdvancedLinesConvert
<1>2. IsRead(e)
  BY <1>1, PrintedElementsAreRead
<1> HIDE DEF t
<1>3. /\ t \in Octets /\ t # <<>> /\ t \in Seq(Unbroken) /\ TrimSpace(t) = t /\ ~IsComment(t)
      /\ AdvancedToCanonical(t) = c
  BY <1>1 DEF IsAdvancedLine
<1>4. IsText(t)
  <2>1. \A i \in 1..Len(t) : t[i] \in Unbroken
    BY <1>3
  <2>2. QED
    BY <1>3, <2>1 DEF IsText, Unbroken
<1>5. c \in Octets /\ Parse[c] = Parsed(e, <<>>)
  <2>1. c \in Octets
    BY <1>2 DEF IsRead
  <2>2. IsJoin(c, c, <<>>) /\ <<>> \in Octets
    BY <2>1, JoinsNothing, NoOctets DEF IsJoin
  <2>3. QED
    BY <1>2, <2>1, <2>2 DEF IsRead
<1> HIDE DEF c
<1>6. Panicking \notin {c[i] : i \in DOMAIN c}
  <2>1. \A i \in DOMAIN c : c[i] \in Octet
    BY <1>5, OctetsAre
  <2>2. Panicking \notin Octet
    BY DEF Panicking, Octet
  <2>3. QED
    BY <2>1, <2>2
<1>7. ASSUME NEW skip, NEW limit, NEW p
      PROVE  LoadLine(Options("advanced", skip, limit), Loaded(p), t) =
               IF limit > 0 /\ Len(p) >= limit THEN Loaded(p) ELSE Loaded(Append(p, e))
  <2> DEFINE opts == Options("advanced", skip, limit)
             x == Loaded(p)
             rule == Parsed(e, <<>>)
  <2>1. opts.format = "advanced" /\ opts.maxRules = limit
    BY OptionsAre
  <2>2. x.ok = TRUE /\ x.rules = p /\ [x EXCEPT !.rules = Append(@, e)] = Loaded(Append(p, e))
    BY LoadedThen
  <2>3. rule.kind = "parsed" /\ rule.elem = e
    BY KindsOfResults
  <2> HIDE DEF opts, x, rule
  <2>4. LoadLine(opts, x, t) =
          IF limit > 0 /\ Len(p) >= limit THEN x ELSE TakeRule(opts, x, c, Parse[c])
    BY <1>3, <2>1, <2>2 DEF LoadLine, LoadTrimmed, LimitReached, LoadRule
  <2>5. TakeRule(opts, x, c, rule) = [x EXCEPT !.rules = Append(@, rule.elem)]
    BY <1>6, <2>3 DEF TakeRule
  <2>6. QED
    BY <1>5, <2>2, <2>3, <2>4, <2>5 DEF rule, opts, x
<1>8. QED
  BY <1>4, <1>7 DEF LoadsAs, t

(* A whole advanced file is read as the rules that it was written of, or   *)
(* as many of them as the limit lets in.                                   *)
THEOREM AdvancedFilesLoad ==
  ASSUME NEW S, NEW q \in Seq(S), LoadAs("advanced", AdvancedForm, q), NEW skip, NEW limit \in Nat
  PROVE  LoadText(SaveAdvanced(q), Options("advanced", skip, limit)) = Loaded(Within(q, Len(q), limit))
<1> DEFINE opts == Options("advanced", skip, limit)
           c == SaveAdvanced(q)
           lines == Lines(c)
           n == Len(q)
<1>1. n \in Nat /\ \A i \in 1..n : IsText(AdvancedForm[q[i]])
  BY DEF LoadAs, LoadsAs
<1>2. PICK p, a, r : /\ AreLines(p, a, r) /\ c = r[0] /\ Len(p) = n
                     /\ \A i \in 1..n : p[i] = AdvancedForm[q[i]] /\ p[i] \in Octets
  BY <1>1, AdvancedFile
<1>3. \A i \in 1..n : p[i] = AdvancedForm[q[i]] /\ p[i] \in Octets
  BY <1>2
<1>4. Len(p) = n
  BY <1>2
<1>5. c = r[0]
  BY <1>2
<1>6. c \in Octets
  BY <1>1, <1>2, <1>4, <1>5 DEF AreLines, AreRemainders
<1> HIDE DEF c
<1>7. IsJoin(r[0], c, <<>>) /\ <<>> \in Octets
  BY <1>5, <1>6, JoinsNothing, NoOctets DEF IsJoin
<1>8. AreLinesOf(lines, p, <<>>) /\ lines \in Seq(Octets)
  BY <1>2, <1>6, <1>7, FileLines
<1> HIDE DEF lines, n
<1>9. lines = Upto(p, n)
  BY <1>4, <1>8 DEF AreLinesOf
<1>10. Len(lines) = n /\ \A i \in 1..n : lines[i] = AdvancedForm[q[i]]
  BY <1>1, <1>3, <1>9, TextsGrow
<1>11. LoadLines(opts, lines)[n] = Loaded(Within(q, n, limit))
  <2>1. "advanced" \in LineFormats
    BY DEF LineFormats
  <2>2. n \in 0..Len(q) /\ n <= Len(lines) /\ n \in 0..n
    BY <1>1, <1>10 DEF n
  <2>3. \A i \in 0..n : LoadLines(opts, lines)[i] = Loaded(Within(q, i, limit))
    BY <1>8, <1>10, <2>1, <2>2, WholeLinesLoad
  <2>4. QED
    BY <2>2, <2>3
<1>12. QED
  BY <1>10, <1>11 DEF LoadText, lines, c, n

(***************************************************************************)
(* Files in the other format.                                              *)
(***************************************************************************)
(* A binary file has rules only behind its magic octets.                   *)
LEMMA MagicIsFirst ==
  ASSUME NEW c \in Octets, c # <<>> => Head(c) # 83
  PROVE  LoadBinary(c) = LoadFailed
<1> DEFINE p == Magic \o Version
           d == SubSeq(c, 1, 6)
<1>1. CASE Len(c) < 10
  BY <1>1 DEF LoadBinary
<1>2. CASE ~(Len(c) < 10)
  <2>1. Len(c) \in Nat /\ Len(c) >= 10
    BY <1>2, OctetsAre
  <2>2. 1 \in 1..(Len(c) + 1) /\ 6 \in (1 - 1)..Len(c) /\ 1 \in 1..((6 - 1) + 1) /\ (1 + 1) - 1 = 1
    BY <2>1
  <2>3. d[1] = c[1]
    BY <2>2, Pieces
  <2>4. c # <<>>
    BY <2>1, NoOctets
  <2>5. Head(c) = c[1]
    BY <2>4, HeadAndTail
  <2>6. p[1] = 83
    <3>1. FitsUint32(0)
      BY DEF FitsUint32
    <3>2. QED
      BY <3>1, HeaderIs
  <2> HIDE DEF p, d
  <2>7. d # p
    BY <2>3, <2>4, <2>5, <2>6
  <2>8. QED
    BY <2>7 DEF LoadBinary, p, d
<1>3. QED
  BY <1>1, <1>2

(* A canonical file is no binary file.                                     *)
LEMMA CanonicalIsNotBinary ==
  ASSUME NEW S, NEW q \in Seq(S), \A i \in 1..Len(q) : IsLine(q[i]),
         NEW c \in Octets, NEW u \in Octets, IsJoin(SaveCanonical(q), c, u)
  PROVE  LoadBinary(c) = LoadFailed
<1> DEFINE w == SaveCanonical(q)
<1>1. SUFFICES ASSUME c # <<>> PROVE Head(c) # 83
  BY MagicIsFirst
<1>2. PICK p, a, r : /\ AreLines(p, a, r) /\ w = r[0] /\ Len(p) = Len(q)
                     /\ \A i \in 1..Len(q) : p[i] = String[q[i]] /\ p[i] \in Octets
  BY CanonicalFile
<1> HIDE DEF w
<1>3. w \in Octets /\ w # <<>> /\ Head(w) = Head(c)
  <2>1. IsJoin(w, c, u)
    BY DEF w
  <2>2. QED
    BY <1>1, <2>1, JoinWithoutHead
<1>4. Len(q) \in Nat /\ Len(a) = Len(q) /\ r[Len(a)] = <<>>
  BY <1>2 DEF AreLines, AreRemainders
<1>5. 1 \in 1..Len(q) /\ 1 \in 1..Len(a) /\ 1 \in 0..Len(a) /\ 1 - 1 = 0
  <2>1. Len(q) # 0
    BY <1>2, <1>3, <1>4
  <2>2. QED
    BY <1>4, <2>1
<1> DEFINE t == String[q[1]]
           v == r[1]
<1>6. t \in Octets /\ t # <<>> /\ t[1] \in Digits \union {Open}
  BY <1>5 DEF IsLine, IsRead
<1>7. w = Append(t, Newline) \o v /\ v \in Octets
  <2>1. r[1 - 1] = a[1] \o r[1] /\ r[1] \in Octets
    BY <1>2, <1>5 DEF AreLines, AreRemainders
  <2>2. a[1] = Append(t, Newline)
    BY <1>2, <1>5 DEF AreLines, Line
  <2>3. QED
    BY <1>2, <1>5, <2>1, <2>2
<1> HIDE DEF t, v
<1>8. Append(t, Newline) \in Octets /\ IsJoin(Append(t, Newline), t, <<Newline>>)
  BY <1>6, NewlineIsOctet, AppendIsJoin
<1>9. Head(Append(t, Newline)) = t[1] /\ Append(t, Newline) # <<>>
  <2>1. Append(t, Newline) # <<>> /\ Head(Append(t, Newline)) = Head(t)
    BY <1>6, <1>8, NewlineIsOctet, JoinWithoutHead
  <2>2. QED
    BY <1>6, <2>1, HeadAndTail
<1>10. Head(w) = t[1]
  <2>1. IsJoin(w, Append(t, Newline), v)
    BY <1>7 DEF IsJoin
  <2>2. QED
    BY <1>7, <1>8, <1>9, <2>1, JoinWithoutHead
<1>11. QED
  BY <1>3, <1>6, <1>10 DEF Digits, Open

\* What a scanner has found begins with b.
BeginsWith(x, b) ==
  \/ x.tokens = <<>> /\ x.current # <<>> /\ x.current[1] = b
  \/ x.tokens # <<>> /\ x.tokens[1] # <<>> /\ x.tokens[1][1] = b

LEMMA AppendKeepsFirst ==
  ASSUME NEW S, NEW s \in Seq(S), NEW v \in S
  PROVE  /\ Append(s, v) \in Seq(S) /\ Append(s, v) # <<>>
         /\ s # <<>> => Append(s, v)[1] = s[1]
         /\ s = <<>> => Append(s, v)[1] = v
<1>1. Len(s) \in Nat /\ (s # <<>> => Len(s) >= 1)
  BY EmptySeq
<1>2. Append(s, v) \in Seq(S) /\ Len(Append(s, v)) = Len(s) + 1
      /\ \A i \in 1..(Len(s) + 1) : Append(s, v)[i] = IF i = Len(s) + 1 THEN v ELSE s[i]
  BY AppendProperties
<1>3. Append(s, v) # <<>>
  BY <1>1, <1>2
<1>4. ASSUME s # <<>> PROVE Append(s, v)[1] = s[1]
  <2>1. 1 \in 1..(Len(s) + 1) /\ 1 # Len(s) + 1
    BY <1>1, <1>4
  <2>2. QED
    BY <1>2, <2>1
<1>5. ASSUME s = <<>> PROVE Append(s, v)[1] = v
  BY <1>5
<1>6. QED
  BY <1>2, <1>3, <1>4, <1>5

(* A file that does not begin with a line's end has a first line that      *)
(* begins as the file does; an empty one has no lines.                     *)
LEMMA FirstLine ==
  ASSUME NEW c \in Octets
  PROVE  /\ Lines(c) \in Seq(Octets)
         /\ c # <<>> /\ Head(c) # Newline =>
              /\ Lines(c) # <<>> /\ Lines(c)[1] # <<>> /\ Lines(c)[1][1] = Head(c)
         /\ c = <<>> => Lines(c) = <<>>
<1> DEFINE n == Len(c)
           L == Split(c)
           x == L[n]
<1>1. n \in Nat /\ \A i \in 1..n : c[i] \in Octet
  BY OctetsAre
<1>2. /\ L \in [0..n -> SplitStates] /\ L[0] = [tokens |-> <<>>, current |-> <<>>]
      /\ \A i \in 1..n : L[i] = ScanOctet(L[i - 1], c[i])
  BY SplitLoop
<1>3. x \in SplitStates
  BY <1>1, <1>2
<1>4. Lines(c) = NonEmpty(x).tokens
  BY DEF Lines
<1>5. c = <<>> => x = [tokens |-> <<>>, current |-> <<>>]
  BY <1>2, NoOctets
<1>6. ASSUME c # <<>>, Head(c) # Newline PROVE BeginsWith(x, Head(c))
  <2> DEFINE b == Head(c)
             T == {i \in 0..(n - 1) : BeginsWith(L[i + 1], b)}
  <2>1. n >= 1 /\ b = c[1]
    BY <1>6, HeadAndTail
  <2> HIDE DEF L
  <2>2. 0 \in T
    <3> DEFINE o == [tokens |-> <<>>, current |-> <<>>]
    <3>0. o \in SplitStates /\ o.tokens = <<>> /\ o.current = <<>>
      BY NoOctets DEF SplitStates
    <3>1. 1 \in 1..n /\ 1 - 1 = 0 /\ 0 + 1 = 1 /\ 0 \in 0..(n - 1)
      BY <1>1, <2>1
    <3>2. L[1] = ScanOctet(o, b)
      BY <1>2, <2>1, <3>1
    <3> HIDE DEF o
    <3>3. b \in Octet
      BY <1>1, <2>1, <3>1
    <3>4. ScanOctet(o, b).tokens = <<>> /\ ScanOctet(o, b).current = Append(<<>>, b)
      BY <1>6, <3>0, <3>3, ScanOctetType
    <3>5. Append(<<>>, b) # <<>> /\ Append(<<>>, b)[1] = b
      BY <3>3, AppendKeepsFirst
    <3>6. BeginsWith(L[1], b)
      BY <3>2, <3>4, <3>5 DEF BeginsWith
    <3>7. QED
      BY <3>1, <3>6
  <2>3. ASSUME NEW i \in 0..((n - 1) - 1), i \in T PROVE i + 1 \in T
    <3> DEFINE y == L[i + 1]
               z == L[(i + 1) + 1]
               o == c[(i + 1) + 1]
    <3>1. (i + 1) + 1 \in 1..n /\ ((i + 1) + 1) - 1 = i + 1 /\ i + 1 \in 0..n /\ i + 1 \in 0..(n - 1)
      BY <1>1
    <3>2. y \in SplitStates /\ o \in Octet /\ z = ScanOctet(y, o)
      BY <1>1, <1>2, <3>1
    <3>3. BeginsWith(y, b)
      BY <2>3
    <3> HIDE DEF y, z, o, b
    <3>4. y.tokens \in Seq(Octets) /\ y.current \in Octets
      BY <3>2 DEF SplitStates
    <3>5. CASE o = Newline
      <4>1. z.tokens = Append(y.tokens, y.current) /\ z.current = <<>>
        BY <3>2, <3>5, ScanOctetType
      <4>2. /\ z.tokens # <<>>
            /\ y.tokens # <<>> => z.tokens[1] = y.tokens[1]
            /\ y.tokens = <<>> => z.tokens[1] = y.current
        BY <3>4, <4>1, AppendKeepsFirst
      <4>3. QED
        BY <3>1, <3>3, <4>2 DEF BeginsWith, z
    <3>6. CASE o # Newline
      <4>1. z.tokens = y.tokens /\ z.current = Append(y.current, o)
        BY <3>2, <3>6, ScanOctetType
      <4>2. y.current # <<>> => z.current # <<>> /\ z.current[1] = y.current[1]
        <5> DEFINE v == y.current
                   w == z.current
        <5>1. v \in Seq(Octet) /\ w = Append(v, o)
          BY <3>4, <4>1 DEF Octets
        <5> HIDE DEF v, w
        <5>2. v # <<>> => w # <<>> /\ w[1] = v[1]
          BY <3>2, <5>1, AppendKeepsFirst
        <5>3. QED
          BY <5>2 DEF v, w
      <4>3. QED
        BY <3>1, <3>3, <4>1, <4>2 DEF BeginsWith, z
    <3>7. QED
      BY <3>5, <3>6
  <2>4. n - 1 \in T
    <3>1. n - 1 \in Nat
      BY <1>1, <2>1
    <3> DEFINE m == n - 1
    <3> HIDE DEF T, n
    <3>2. \A i \in 0..m : i \in T
      <4>1. m \in Nat /\ 0 \in T /\ \A i \in 0..(m - 1) : i \in T => i + 1 \in T
        BY <2>2, <2>3, <3>1
      <4> HIDE DEF m
      <4>2. QED
        BY <4>1, Steps
    <3>3. QED
      BY <3>1, <3>2
  <2>5. (n - 1) + 1 = n
    BY <1>1
  <2>6. QED
    BY <2>4, <2>5
<1> HIDE DEF x
<1>7. x.tokens \in Seq(Octets) /\ x.current \in Octets
  BY <1>3 DEF SplitStates
<1>8. /\ x.current = <<>> => NonEmpty(x).tokens = x.tokens
      /\ x.current # <<>> => NonEmpty(x).tokens = Append(x.tokens, x.current)
  BY <1>3 DEF NonEmpty, FlushToken, SplitStates
<1>9. Lines(c) \in Seq(Octets)
  BY <1>4, <1>7, <1>8
<1>10. c = <<>> => Lines(c) = <<>>
  BY <1>4, <1>5, <1>8
<1>11. ASSUME c # <<>>, Head(c) # Newline
       PROVE  Lines(c) # <<>> /\ Lines(c)[1] # <<>> /\ Lines(c)[1][1] = Head(c)
  <2>1. BeginsWith(x, Head(c))
    BY <1>6, <1>11 DEF x
  <2>2. /\ Append(x.tokens, x.current) # <<>>
        /\ x.tokens # <<>> => Append(x.tokens, x.current)[1] = x.tokens[1]
        /\ x.tokens = <<>> => Append(x.tokens, x.current)[1] = x.current
    BY <1>7, AppendKeepsFirst
  <2>3. QED
    BY <1>4, <1>8, <2>1, <2>2 DEF BeginsWith
<1>12. QED
  BY <1>9, <1>10, <1>11

(* What begins with the first magic octet is no rule.                      *)
LEMMA MagicIsNoRule ==
  ASSUME NEW s \in Octets, s # <<>>, s[1] = 83
  PROVE  Parse[s] = Failure
<1> DEFINE k == IndexByte(s, Colon)
           d == SubSeq(s, 1, k - 1)
<1>1. ParseAtom(s) = Failure
  <2>1. CASE \A i \in DOMAIN s : s[i] # Colon
    <3>1. k = 0
      BY <2>1, IndexByteIsNone
    <3>2. QED
      BY <3>1 DEF ParseAtom
  <2>2. CASE ~(\A i \in DOMAIN s : s[i] # Colon)
    <3>1. PICK i \in 1..Len(s) : s[i] = Colon
      BY <2>2, OctetsAre
    <3>2. k \in 1..i /\ s[k] = Colon
      BY <3>1, IndexByteFinds
    <3> HIDE DEF k
    <3>3. Len(s) \in Nat
      BY OctetsAre
    <3>4. k - 1 \in 1..Len(s) /\ k \in 1..Len(s)
      <4>1. k # 1
        BY <3>2 DEF Colon
      <4>2. QED
        BY <3>1, <3>2, <3>3, <4>1
    <3>5. d \in Octets /\ Len(d) >= 1 /\ d[1] = 83
      <4> DEFINE m == k - 1
      <4>1. /\ 1 \in 1..(Len(s) + 1) /\ m \in (1 - 1)..Len(s)
            /\ 1 \in 1..((m - 1) + 1) /\ (1 + 1) - 1 = 1 /\ (m - 1) + 1 = m /\ m >= 1
        BY <3>3, <3>4
      <4> HIDE DEF m
      <4>2. /\ SubSeq(s, 1, m) \in Octets /\ Len(SubSeq(s, 1, m)) = (m - 1) + 1
            /\ SubSeq(s, 1, m)[1] = s[(1 + 1) - 1]
        BY <4>1, Pieces
      <4>3. QED
        BY <4>1, <4>2 DEF m
    <3>6. ~IsNumber(d)
      <4> HIDE DEF d
      <4>1. d # <<>>
        BY <3>5, NoOctets
      <4>2. Head(d) = 83 /\ 1 \in DOMAIN d
        BY <3>5, <4>1, HeadAndTail, OctetsAre
      <4>3. Magnitude(d) = d
        BY <4>2 DEF Magnitude, Plus, Minus
      <4>4. ~IsDigit(d[1])
        BY <3>5 DEF IsDigit
      <4>5. QED
        BY <4>2, <4>3, <4>4 DEF IsNumber
    <3>7. QED
      BY <3>6 DEF ParseAtom, k
  <2>3. QED
    BY <2>1, <2>2
<1>2. Head(s) = 83
  BY HeadAndTail
<1>3. ParseOf(Parse, s) = Failure
  BY <1>1, <1>2 DEF ParseOf, Open
<1>4. QED
  BY <1>3, ParserEnds

(* A load that does not skip it fails.                                     *)
LEMMA MagicLineFails ==
  ASSUME NEW s \in Octets, s # <<>>, s[1] = 83
  PROVE  LoadLine(Options("canonical", FALSE, 0), Loaded(<<>>), s) = LoadFailed
<1> DEFINE opts == Options("canonical", FALSE, 0)
           x == Loaded(<<>>)
           t == TrimSpace(s)
<1>1. t \in Octets /\ t # <<>> /\ t[1] = 83
  <2>1. s[1] \notin Whitespace
    BY DEF Whitespace, Space
  <2>2. t \in Octets /\ \E m \in 1..Len(s) : t = SubSeq(s, 1, m)
    BY <2>1, TrimSpaceIs
  <2> HIDE DEF t
  <2>3. PICK m \in 1..Len(s) : t = SubSeq(s, 1, m)
    BY <2>2
  <2>4. Len(s) \in Nat /\ m \in Nat /\ m >= 1
    BY OctetsAre
  <2>5. /\ 1 \in 1..(Len(s) + 1) /\ m \in (1 - 1)..Len(s)
        /\ 1 \in 1..((m - 1) + 1) /\ (1 + 1) - 1 = 1 /\ (m - 1) + 1 = m
    BY <2>4
  <2>6. Len(SubSeq(s, 1, m)) = (m - 1) + 1 /\ SubSeq(s, 1, m)[1] = s[(1 + 1) - 1]
    BY <2>5, Pieces
  <2>7. Len(t) = m /\ t[1] = 83
    BY <2>3, <2>5, <2>6
  <2>8. QED
    BY <2>2, <2>4, <2>7, NoOctets
<1> HIDE DEF t
<1>2. Parse[t] = Failure
  BY <1>1, MagicIsNoRule
<1>3. ~IsComment(t)
  BY <1>1, NoComment
<1>4. /\ opts.format = "canonical" /\ opts.skipInvalid = FALSE /\ opts.maxRules = 0
      /\ x.ok = TRUE
  BY DEF Options, Loaded
<1> HIDE DEF opts, x
<1>5. LoadTrimmed(opts, x, t) = TakeRule(opts, x, t, Parse[t])
  BY <1>1, <1>3, <1>4 DEF LoadTrimmed, LimitReached, LoadRule
<1>6. TakeRule(opts, x, t, Failure) = LoadFailed
  BY <1>4, KindsOfResults DEF TakeRule
<1>7. LoadLine(opts, x, s) = LoadFailed
  BY <1>2, <1>5, <1>6 DEF LoadLine, t
<1>8. QED
  BY <1>7 DEF opts, x

(* When the first line fails, the load does.                               *)
LEMMA FailedStays ==
  ASSUME NEW opts, opts.format = "canonical", NEW lines \in Seq(Octets), lines # <<>>,
         LoadLine(opts, Loaded(<<>>), lines[1]) = LoadFailed
  PROVE  LoadLines(opts, lines)[Len(lines)] = LoadFailed
<1> DEFINE n == Len(lines)
           L == LoadLines(opts, lines)
           m == n - 1
           T == {i \in 0..m : L[i + 1] = LoadFailed}
<1>1. n \in Nat /\ n >= 1
  BY EmptySeq
<1>2. /\ L[0] = Loaded(<<>>)
      /\ \A i \in 1..n : L[i] = LoadLine(opts, L[i - 1], lines[i])
  BY LoadLoop DEF LineFormats
<1> HIDE DEF L
<1>3. \A line : LoadLine(opts, LoadFailed, line) = LoadFailed
  BY LoadStatesAre DEF LoadLine, LoadTrimmed
<1>4. m \in Nat /\ m + 1 = n
  BY <1>1
<1>5. 0 \in T
  <2>1. 1 \in 1..n /\ 1 - 1 = 0 /\ 0 + 1 = 1 /\ 0 \in 0..m
    BY <1>1
  <2>2. L[1] = LoadFailed
    BY <1>2, <2>1
  <2>3. QED
    BY <2>1, <2>2
<1>6. ASSUME NEW i \in 0..(m - 1), i \in T PROVE i + 1 \in T
  <2>1. (i + 1) + 1 \in 1..n /\ ((i + 1) + 1) - 1 = i + 1 /\ i + 1 \in 0..m
    BY <1>1
  <2>2. L[(i + 1) + 1] = LoadLine(opts, L[i + 1], lines[(i + 1) + 1])
    BY <1>2, <2>1
  <2>3. L[i + 1] = LoadFailed
    BY <1>6
  <2>4. QED
    BY <1>3, <2>1, <2>2, <2>3
<1> HIDE DEF T, m
<1>7. \A i \in 0..m : i \in T
  BY <1>4, <1>5, <1>6, Steps
<1>8. m \in T
  BY <1>4, <1>7
<1>9. QED
  BY <1>4, <1>8 DEF T, L

(* A binary file that is read as a canonical one is empty or an error.     *)
LEMMA BinaryIsNotCanonical ==
  ASSUME NEW q, FitsUint32(Len(q)), Len(q) \in Nat, SaveBinary(q) \in Octets,
         NEW t \in Octets, IsJoin(SaveBinary(q), Header(Len(q)), t),
         NEW c \in Octets, NEW u \in Octets, IsJoin(SaveBinary(q), c, u),
         NEW opts, opts = Options("canonical", FALSE, 0), NEW x, x = LoadText(c, opts)
  PROVE  x = LoadFailed \/ x = Loaded(<<>>)
<1> DEFINE lines == Lines(c)
           h == Header(Len(q))
           s == SaveBinary(q)
<1>1. x = LoadLines(opts, lines)[Len(lines)]
  BY DEF LoadText
<1>2. opts.format = "canonical"
  BY DEF Options
<1>3. /\ lines \in Seq(Octets)
      /\ c # <<>> /\ Head(c) # Newline => lines # <<>> /\ lines[1] # <<>> /\ lines[1][1] = Head(c)
      /\ c = <<>> => lines = <<>>
  BY FirstLine
<1> HIDE DEF lines
<1>4. CASE c = <<>>
  <2>1. lines = <<>> /\ Len(lines) = 0
    BY <1>3, <1>4
  <2>2. LoadLines(opts, lines)[0] = Loaded(<<>>)
    <3>1. opts.format \in LineFormats /\ lines \in Seq(Octets)
      BY <1>2, <1>3 DEF LineFormats
    <3>2. QED
      BY <3>1, LoadLoop
  <2>3. QED
    BY <1>1, <2>1, <2>2
<1>5. CASE c # <<>>
  <2>1. Head(c) = 83
    <3>1. h \in Octets /\ Len(h) = 10 /\ h[1] = 83
      <4>1. /\ h \in Octets /\ Len(h) = 10
            /\ \A i \in 1..6 : h[i] = (Magic \o Version)[i]
            /\ (Magic \o Version)[1] = 83
        BY HeaderIs
      <4> HIDE DEF h
      <4>2. 1 \in 1..6
        OBVIOUS
      <4>3. QED
        BY <4>1, <4>2
    <3> HIDE DEF h
    <3>2. h # <<>>
      <4>1. Len(h) # Len(<<>>)
        BY <3>1, NoOctets
      <4>2. QED
        BY <4>1
    <3>3. IsJoin(s, h, t) /\ IsJoin(s, c, u)
      BY DEF h
    <3> HIDE DEF s
    <3>4. Head(s) = Head(h) /\ Head(s) = Head(c)
      BY <1>5, <3>1, <3>2, <3>3, JoinWithoutHead
    <3>5. QED
      BY <3>1, <3>2, <3>4, HeadAndTail
  <2>2. lines # <<>> /\ lines[1] # <<>> /\ lines[1][1] = 83
    BY <1>3, <1>5, <2>1 DEF Newline
  <2>3. lines[1] \in Octets
    <3>1. Len(lines) \in Nat /\ Len(lines) >= 1
      BY <1>3, <2>2, EmptySeq
    <3>2. QED
      BY <1>3, <3>1
  <2>4. LoadLine(opts, Loaded(<<>>), lines[1]) = LoadFailed
    BY <2>2, <2>3, MagicLineFails
  <2>5. LoadLines(opts, lines)[Len(lines)] = LoadFailed
    BY <1>2, <1>3, <2>2, <2>4, FailedStays
  <2>6. QED
    BY <1>1, <2>5
<1>6. QED
  BY <1>4, <1>5

(***************************************************************************)
(* The file and what is saved in it.                                       *)
(***************************************************************************)
\* Where a string may be cut.
LEMMA PiecesJoin ==
  ASSUME NEW s \in Octets, NEW n \in 0..Len(s)
  PROVE  /\ SubSeq(s, 1, n) \in Octets /\ Rest(s, n) \in Octets
         /\ IsJoin(s, SubSeq(s, 1, n), Rest(s, n))
<1> DEFINE a == SubSeq(s, 1, n)
           b == Rest(s, n)
           u == a \o b
<1>1. Len(s) \in Nat /\ n \in Nat /\ n <= Len(s)
  BY OctetsAre
<1>2. a \in Octets /\ Len(a) = n /\ \A i \in 1..n : a[i] = s[i]
  <2>1. 1 \in 1..(Len(s) + 1) /\ n \in (1 - 1)..Len(s) /\ (n - 1) + 1 = n
    BY <1>1
  <2>2. /\ a \in Octets /\ Len(a) = (n - 1) + 1
        /\ \A i \in 1..((n - 1) + 1) : a[i] = s[(1 + i) - 1]
    BY <2>1, Pieces
  <2> HIDE DEF a
  <2>3. QED
    BY <1>1, <2>1, <2>2
<1>3. b \in Octets /\ Len(b) = Len(s) - n /\ \A i \in 1..(Len(s) - n) : b[i] = s[n + i]
  BY RestIs
<1> HIDE DEF a, b
<1>4. /\ u \in Octets /\ Len(u) = Len(a) + Len(b)
      /\ \A i \in 1..Len(a) : u[i] = a[i]
      /\ \A i \in 1..Len(b) : u[Len(a) + i] = b[i]
  BY <1>2, <1>3, Joins
<1> HIDE DEF u
<1>5. Len(u) = Len(s)
  BY <1>1, <1>2, <1>3, <1>4
<1>6. ASSUME NEW i \in 1..Len(s) PROVE u[i] = s[i]
  <2>1. CASE i <= n
    BY <1>1, <1>2, <1>4, <2>1
  <2>2. CASE i > n
    <3>1. i - n \in 1..(Len(s) - n) /\ n + (i - n) = i
      BY <1>1, <2>2
    <3>2. u[n + (i - n)] = b[i - n] /\ b[i - n] = s[n + (i - n)]
      BY <1>2, <1>3, <1>4, <3>1
    <3>3. QED
      BY <3>1, <3>2
  <2>3. QED
    BY <1>1, <2>1, <2>2
<1>7. u = s
  BY <1>4, <1>5, <1>6, OctetsEqual
<1>8. QED
  BY <1>2, <1>3, <1>7 DEF IsJoin, u, a, b

(* A piece of what is to come, moved to what is there.                     *)
LEMMA PieceMoves ==
  ASSUME NEW c \in Octets, NEW w \in Octets, NEW a \in Octets, NEW b \in Octets, IsJoin(w, a, b),
         NEW s, IsJoin(s, c, w)
  PROVE  c \o a \in Octets /\ IsJoin(s, c \o a, b)
<1>1. c \o a \in Octets
  BY Joins
<1>2. (c \o a) \o b = c \o (a \o b)
  BY JoinsAssociate
<1>3. s = c \o (a \o b)
  BY DEF IsJoin
<1>4. QED
  BY <1>1, <1>2, <1>3 DEF IsJoin

\* Rules that a save does not refuse.
AreSaved(q) ==
  /\ q \in Seq(Elements) /\ FitsUint32(Len(q))
  /\ \A i \in DOMAIN q : FitsUint32(Len(String[q[i]]))

(* What a save writes is octets, and nothing when there are no rules and   *)
(* the format has no head.                                                 *)
LEMMA SaveFileIsOctets ==
  ASSUME NEW q, AreSaved(q), NEW f \in {"canonical", "binary"}
  PROVE  /\ SaveFile(q, f) \in Octets /\ SaveCanonical(<<>>) = <<>>
         /\ \E t \in Octets : IsJoin(SaveBinary(q), Header(Len(q)), t)
<1>1. /\ Len(q) \in Nat /\ DOMAIN q = 1..Len(q)
      /\ \A i \in 1..Len(q) : q[i] \in Elements /\ FitsUint32(Len(String[q[i]]))
  BY DEF AreSaved
<1>2. ASSUME NEW i \in 1..Len(q)
      PROVE  Line(String[q[i]]) \in Octets /\ SerializeRule(q[i]) \in Octets
  <2> DEFINE t == String[q[i]]
             n == Uint32(Len(t))
  <2>1. t \in Octets
    BY <1>1, StringDef
  <2>2. Line(t) \in Octets
    <3> HIDE DEF t
    <3>1. QED
      BY <2>1, NewlineIsOctet, AppendIsJoin DEF Line
  <2>3. n \in Octets
    <3>1. Len(t) \in Nat /\ FitsUint32(Len(t))
      BY <1>1, <2>1, OctetsAre
    <3> HIDE DEF t
    <3>2. QED
      BY <3>1, Uint32IsRead
  <2>4. SerializeRule(q[i]) = n \o t
    BY DEF SerializeRule
  <2> HIDE DEF t, n
  <2>5. n \o t \in Octets
    BY <2>1, <2>3, Joins
  <2>6. QED
    BY <2>2, <2>4, <2>5 DEF t
<1> DEFINE a == [i \in DOMAIN q |-> Line(String[q[i]])]
           b == [i \in DOMAIN q |-> SerializeRule(q[i])]
           h == Header(Len(q))
<1>3. a \in Seq(Octets) /\ b \in Seq(Octets)
  <2>1. a \in [1..Len(q) -> Octets] /\ b \in [1..Len(q) -> Octets]
    BY <1>1, <1>2
  <2>2. QED
    BY <1>1, <2>1
<1>4. SaveCanonical(q) = Concat(a) /\ SaveBinary(q) = h \o Concat(b)
  BY DEF SaveCanonical, SaveBinary
<1> HIDE DEF a, b
<1>5. Concat(a) \in Octets /\ Concat(b) \in Octets
  <2>1. \A z \in Seq(Octets) : Concat(z) \in Octets
    <3>1. ASSUME NEW z \in Seq(Octets) PROVE Concat(z) \in Octets
      <4>1. Joined(z) \in [0..Len(z) -> Octets]
        BY JoinedLoop
      <4>2. Len(z) \in 0..Len(z)
        OBVIOUS
      <4>3. QED
        BY <4>1, <4>2 DEF Concat
    <3>2. QED
      BY <3>1
  <2>2. QED
    BY <1>3, <2>1
<1>6. h \in Octets
  BY <1>1, HeaderIs DEF AreSaved
<1> HIDE DEF h
<1>7. h \o Concat(b) \in Octets
  BY <1>5, <1>6, Joins
<1>8. SaveFile(q, f) \in Octets
  BY <1>4, <1>5, <1>7 DEF SaveFile
<1>9. SaveCanonical(<<>>) = <<>>
  <2> DEFINE e == [i \in DOMAIN <<>> |-> Line(String[(<<>>)[i]])]
  <2>1. e = <<>>
    OBVIOUS
  <2>2. SaveCanonical(<<>>) = Concat(e)
    BY DEF SaveCanonical
  <2> HIDE DEF e
  <2>3. Concat(<<>>) = <<>>
    <3>1. <<>> \in Seq(Octets) /\ Len(<<>>) = 0
      OBVIOUS
    <3>2. Joined(<<>>)[0] = <<>>
      BY <3>1, JoinedLoop
    <3>3. QED
      BY <3>1, <3>2 DEF Concat
  <2>4. QED
    BY <2>1, <2>2, <2>3
<1>10. IsJoin(SaveBinary(q), h, Concat(b))
  BY <1>4 DEF IsJoin
<1>11. QED
  BY <1>5, <1>8, <1>9, <1>10 DEF h

\* What is in the file is a beginning of what the save writes, and what the save
\* has still to write is the rest.
FileInv ==
  /\ format \in Formats /\ AreSaved(rules)
  /\ format # "advanced" =>
       /\ content \in Octets /\ unwritten \in Octets
       /\ \E u \in Octets : /\ IsJoin(SaveFile(rules, format), content, u)
                            /\ unwritten # <<>> => u = unwritten

(* A file in the canonical or the binary format begins as what the last    *)
(* save writes.                                                            *)
THEOREM FileInvHolds == Spec => []FileInv
<1>1. Init => FileInv
  <2>1. SUFFICES ASSUME Init PROVE FileInv
    OBVIOUS
  <2>2. rules = <<>> /\ format = "canonical" /\ content = <<>> /\ unwritten = <<>>
    BY <2>1 DEF Init
  <2>3. AreSaved(<<>>)
    BY DEF AreSaved, FitsUint32
  <2>4. SaveFile(<<>>, "canonical") = <<>>
    BY <2>3, SaveFileIsOctets DEF SaveFile
  <2>5. IsJoin(<<>>, <<>>, <<>>) /\ <<>> \in Octets
    BY NoOctets, JoinsNothing DEF IsJoin
  <2>6. QED
    BY <2>2, <2>3, <2>4, <2>5 DEF FileInv, Formats
<1>2. FileInv /\ [Next]_vars => FileInv'
  <2>1. SUFFICES ASSUME FileInv, [Next]_vars PROVE FileInv'
    OBVIOUS
  <2>2. CASE Create
    <3>1. PICK rs \in RuleLists, f \in Formats :
            rules' = rs /\ format' = f /\ unwritten' = SaveFile(rs, f)
      BY <2>2 DEF Create
    <3>2. content' = <<>>
      BY <2>2 DEF Create
    <3>3. AreSaved(rs)
      BY <3>1, RulesAreElements, RulesFit DEF AreSaved
    <3>4. ASSUME f # "advanced"
          PROVE  /\ SaveFile(rs, f) \in Octets /\ <<>> \in Octets
                 /\ IsJoin(SaveFile(rs, f), <<>>, SaveFile(rs, f))
      <4>1. f \in {"canonical", "binary"}
        BY <3>1, <3>4 DEF Formats
      <4>2. SaveFile(rs, f) \in Octets
        BY <3>3, <4>1, SaveFileIsOctets
      <4>3. QED
        BY <4>2, NoOctets, JoinsNothing DEF IsJoin
    <3>5. QED
      BY <3>1, <3>2, <3>3, <3>4 DEF FileInv
  <2>3. CASE Write
    <3>1. PICK n \in 1..Len(unwritten) :
            /\ content' = content \o SubSeq(unwritten, 1, n)
            /\ unwritten' = Rest(unwritten, n)
      BY <2>3 DEF Write, Rest
    <3>2. rules' = rules /\ format' = format
      BY <2>3 DEF Write
    <3>3. ASSUME format # "advanced"
          PROVE  /\ content' \in Octets /\ unwritten' \in Octets
                 /\ IsJoin(SaveFile(rules, format), content', unwritten')
      <4>1. PICK u \in Octets : /\ IsJoin(SaveFile(rules, format), content, u)
                                /\ unwritten # <<>> => u = unwritten
        BY <2>1, <3>3 DEF FileInv
      <4>2. content \in Octets /\ unwritten \in Octets /\ Len(unwritten) \in Nat
        BY <2>1, <3>3, OctetsAre DEF FileInv
      <4>3. unwritten # <<>> /\ n \in 0..Len(unwritten)
        BY <3>1, <4>2, NoOctets
      <4> DEFINE a == SubSeq(unwritten, 1, n)
                 b == Rest(unwritten, n)
      <4>4. a \in Octets /\ b \in Octets /\ IsJoin(unwritten, a, b)
        BY <4>2, <4>3, PiecesJoin
      <4>5. IsJoin(SaveFile(rules, format), content, unwritten)
        BY <4>1, <4>3
      <4> HIDE DEF a, b
      <4>6. content \o a \in Octets /\ IsJoin(SaveFile(rules, format), content \o a, b)
        BY <4>2, <4>4, <4>5, PieceMoves
      <4>7. QED
        BY <3>1, <4>4, <4>6 DEF a, b
    <3>4. QED
      BY <2>1, <3>2, <3>3 DEF FileInv
  <2>4. CASE BreakOff
    <3>1. /\ unwritten' = <<>> /\ rules' = rules /\ format' = format /\ content' = content
      BY <2>4 DEF BreakOff
    <3>2. QED
      BY <2>1, <3>1, NoOctets DEF FileInv
  <2>5. CASE UNCHANGED vars
    BY <2>1, <2>5 DEF FileInv, vars
  <2>6. QED
    BY <2>1, <2>2, <2>3, <2>4, <2>5 DEF Next
<1>3. QED
  BY <1>1, <1>2, PTL DEF Spec

(* Which loop a load is.                                                   *)
LEMMA FileOfText ==
  ASSUME NEW c, NEW opts, opts.format \in LineFormats, NEW got, got = LoadFile(c, opts, FALSE)
  PROVE  got = LoadText(c, opts)
BY DEF LoadFile, LineFormats

LEMMA FileOfBinary ==
  ASSUME NEW c, NEW opts, opts.format = "binary", NEW got, got = LoadFile(c, opts, FALSE)
  PROVE  got = LoadBinary(c)
BY DEF LoadFile

LEMMA BinaryNamed ==
  ASSUME NEW c, NEW opts, NEW got, got = LoadFile(c, opts, TRUE)
  PROVE  got = LoadBinary(c)
BY DEF LoadFile

(* What the formats can hold.                                              *)
LEMMA SurvivorsAre ==
  ASSUME FileInv, AllSurvive
  PROVE  /\ format = "canonical" => \A i \in 1..Len(rules) : IsLine(rules[i])
         /\ format = "binary" => \A i \in 1..Len(rules) : IsSaved(rules[i])
<1>1. /\ rules \in Seq(Elements) /\ DOMAIN rules = 1..Len(rules)
      /\ \A i \in 1..Len(rules) : rules[i] \in Elements /\ FitsUint32(Len(String[rules[i]]))
  BY DEF FileInv, AreSaved
<1>2. \A i \in 1..Len(rules) : Survives(rules[i], format)
  BY <1>1 DEF AllSurvive
<1>3. ASSUME format = "canonical", NEW i \in 1..Len(rules) PROVE IsLine(rules[i])
  <2> DEFINE e == rules[i]
             t == String[e]
  <2>1. e \in Elements
    BY <1>1
  <2>2. ~HasStarForm[e] /\ Newline \notin OctetsOf(t) /\ TrimSpace(t) = t
    BY <1>2, <1>3 DEF Survives
  <2> HIDE DEF e
  <2>3. IsRead(e)
    BY <2>1, <2>2, PrintedElementsAreRead
  <2>4. t \in Octets
    BY <2>3 DEF IsRead
  <2>5. \A j \in 1..Len(t) : t[j] # Newline
    <3> HIDE DEF t
    <3>1. DOMAIN t = 1..Len(t)
      BY <2>4, OctetsAre
    <3>2. QED
      BY <2>2, <3>1 DEF OctetsOf
  <2>6. IsLine(e)
    BY <2>2, <2>3, <2>4, <2>5 DEF IsLine, IsText
  <2>7. QED
    BY <2>6 DEF e
<1>4. ASSUME format = "binary", NEW i \in 1..Len(rules) PROVE IsSaved(rules[i])
  <2>1. ~HasStarForm[rules[i]]
    BY <1>2, <1>4 DEF Survives
  <2>2. IsRead(rules[i])
    BY <1>1, <2>1, PrintedElementsAreRead
  <2>3. QED
    BY <1>1, <2>2 DEF IsSaved
<1>5. QED
  BY <1>3, <1>4

LEMMA BeginningStarts ==
  ASSUME NEW S, NEW q \in Seq(S), NEW k \in 0..Len(q)
  PROVE  StartsWith(q, SubSeq(q, 1, k))
<1>1. Len(q) \in Nat /\ k \in Nat /\ k <= Len(q) /\ Len(SubSeq(q, 1, k)) = k
  OBVIOUS
<1>2. QED
  BY <1>1 DEF StartsWith

(* Of a save, canonical or binary, of rules that its format can hold, no   *)
(* load finds in the file a rule that was not saved, be the save broken    *)
(* off or still at work, unless it skips the invalid lines of a binary     *)
(* file.                                                                   *)
THEOREM TornFilesAddNothingHolds == Spec => []TornFilesAddNothing
<1>1. ASSUME FileInv PROVE TornFilesAddNothing
  <2>1. SUFFICES ASSUME format \in {"canonical", "binary"}, AllSurvive
                 PROVE  /\ \A got \in Loads("canonical", {FALSE} \union {format = "canonical"}, FALSE) :
                             got.ok => StartsWith(rules, got.rules)
                        /\ \A got \in Loads("canonical", BOOLEAN, TRUE)
                                        \union Loads("binary", BOOLEAN, FALSE) :
                             got.ok => got.rules = rules
    BY DEF TornFilesAddNothing
  <2>2. rules \in Seq(Elements) /\ FitsUint32(Len(rules)) /\ Len(rules) \in Nat /\ content \in Octets
    BY <1>1, <2>1 DEF FileInv, AreSaved
  <2>3. PICK u \in Octets : IsJoin(SaveFile(rules, format), content, u)
    BY <1>1, <2>1 DEF FileInv
  <2>4. /\ SaveFile(rules, format) \in Octets
        /\ \E t \in Octets : IsJoin(SaveBinary(rules), Header(Len(rules)), t)
    BY <1>1, <2>1, SaveFileIsOctets DEF FileInv
  <2>5. /\ format = "canonical" => \A i \in 1..Len(rules) : IsLine(rules[i])
        /\ format = "binary" => \A i \in 1..Len(rules) : IsSaved(rules[i])
    BY <1>1, <2>1, SurvivorsAre
  <2>6. SUFFICES
          /\ \A skip \in {FALSE} \union {format = "canonical"} :
               LET x == LoadText(content, Options("canonical", skip, 0))
               IN  x = LoadFailed \/ \E k \in 0..Len(rules) : x = Loaded(SubSeq(rules, 1, k))
          /\ LoadBinary(content) = LoadFailed \/ LoadBinary(content) = Loaded(rules)
    <3>1. SUFFICES ASSUME /\ \A skip \in {FALSE} \union {format = "canonical"} :
                               LET x == LoadText(content, Options("canonical", skip, 0))
                               IN  \/ x = LoadFailed
                                   \/ \E k \in 0..Len(rules) : x = Loaded(SubSeq(rules, 1, k))
                          /\ LoadBinary(content) = LoadFailed \/ LoadBinary(content) = Loaded(rules)
                   PROVE  /\ \A got \in Loads("canonical", {FALSE} \union {format = "canonical"}, FALSE) :
                               got.ok => StartsWith(rules, got.rules)
                          /\ \A got \in Loads("canonical", BOOLEAN, TRUE)
                                          \union Loads("binary", BOOLEAN, FALSE) :
                               got.ok => got.rules = rules
      OBVIOUS
    <3>2. ASSUME NEW got \in Loads("canonical", {FALSE} \union {format = "canonical"}, FALSE), got.ok
          PROVE  StartsWith(rules, got.rules)
      <4>1. PICK skip \in {FALSE} \union {format = "canonical"} :
              got = LoadFile(content, Options("canonical", skip, 0), FALSE)
        BY <3>2 DEF Loads
      <4>2. got = LoadText(content, Options("canonical", skip, 0))
        <5> DEFINE opts == Options("canonical", skip, 0)
        <5>1. opts.format \in LineFormats
          BY DEF Options, LineFormats
        <5>2. got = LoadFile(content, opts, FALSE)
          BY <4>1
        <5> HIDE DEF opts
        <5>3. got = LoadText(content, opts)
          BY <5>1, <5>2, FileOfText
        <5>4. QED
          BY <5>3 DEF opts
      <4>3. got # LoadFailed
        BY <3>2, LoadStatesAre
      <4>4. PICK k \in 0..Len(rules) : got = Loaded(SubSeq(rules, 1, k))
        BY <3>1, <4>2, <4>3
      <4>5. got.rules = SubSeq(rules, 1, k)
        BY <4>4, LoadStatesAre
      <4>6. QED
        BY <2>2, <4>5, BeginningStarts
    <3>3. ASSUME NEW got \in Loads("canonical", BOOLEAN, TRUE) \union Loads("binary", BOOLEAN, FALSE),
                 got.ok
          PROVE  got.rules = rules
      <4>1. got = LoadBinary(content)
        <5>1. \E skip : \/ got = LoadFile(content, Options("canonical", skip, 0), TRUE)
                        \/ got = LoadFile(content, Options("binary", skip, 0), FALSE)
          BY <3>3 DEF Loads
        <5>2. CASE \E skip : got = LoadFile(content, Options("canonical", skip, 0), TRUE)
          BY <5>2, BinaryNamed
        <5>3. CASE \E skip : got = LoadFile(content, Options("binary", skip, 0), FALSE)
          <6>1. PICK skip : got = LoadFile(content, Options("binary", skip, 0), FALSE)
            BY <5>3
          <6> DEFINE opts == Options("binary", skip, 0)
          <6>2. opts.format = "binary"
            BY DEF Options
          <6>3. got = LoadFile(content, opts, FALSE)
            BY <6>1
          <6> HIDE DEF opts
          <6>4. QED
            BY <6>2, <6>3, FileOfBinary
        <5>4. QED
          BY <5>1, <5>2, <5>3
      <4>2. got # LoadFailed
        BY <3>3, LoadStatesAre
      <4>3. got = Loaded(rules)
        BY <3>1, <4>1, <4>2
      <4>4. QED
        BY <4>3, LoadStatesAre
    <3>4. QED
      BY <3>2, <3>3
  <2>7. CASE format = "canonical"
    <3>1. IsJoin(SaveCanonical(rules), content, u)
      BY <2>3, <2>7 DEF SaveFile
    <3>2. LoadBinary(content) = LoadFailed
      BY <2>2, <2>5, <2>7, <3>1, CanonicalIsNotBinary
    <3>3. ASSUME NEW skip
          PROVE  LET x == LoadText(content, Options("canonical", skip, 0))
                 IN  x = LoadFailed \/ \E k \in 0..Len(rules) : x = Loaded(SubSeq(rules, 1, k))
      <4> DEFINE x == LoadText(content, Options("canonical", skip, 0))
      <4>1. x = LoadText(content, Options("canonical", skip, 0)) /\ 0 \in Nat
        OBVIOUS
      <4> HIDE DEF x
      <4>2. x = LoadFailed \/ \E k \in 0..Len(rules) : x = Loaded(SubSeq(rules, 1, k))
        BY <2>2, <2>5, <2>7, <3>1, <4>1, CanonicalFilesBegin
      <4>3. QED
        BY <4>2 DEF x
    <3>4. QED
      BY <3>2, <3>3
  <2>8. CASE format = "binary"
    <3>1. IsJoin(SaveBinary(rules), content, u) /\ SaveBinary(rules) \in Octets
      BY <2>3, <2>4, <2>8 DEF SaveFile
    <3>2. LoadBinary(content) = LoadFailed \/ LoadBinary(content) = Loaded(rules)
      BY <2>2, <2>5, <2>8, <3>1, BinaryFilesAreWhole
    <3> DEFINE opts == Options("canonical", FALSE, 0)
               x == LoadText(content, opts)
    <3>3. x = LoadFailed \/ x = Loaded(<<>>)
      <4>1. PICK t \in Octets : IsJoin(SaveBinary(rules), Header(Len(rules)), t)
        BY <2>4
      <4>2. opts = Options("canonical", FALSE, 0) /\ x = LoadText(content, opts)
        OBVIOUS
      <4> HIDE DEF x, opts
      <4>3. QED
        BY <2>2, <3>1, <4>1, <4>2, BinaryIsNotCanonical
    <3>4. SubSeq(rules, 1, 0) = <<>> /\ 0 \in 0..Len(rules)
      BY <2>2, BeginningsGrow
    <3>5. \A skip \in {FALSE} \union {format = "canonical"} : skip = FALSE
      BY <2>8
    <3> HIDE DEF x
    <3>6. x = LoadFailed \/ \E k \in 0..Len(rules) : x = Loaded(SubSeq(rules, 1, k))
      BY <3>3, <3>4
    <3>7. QED
      BY <3>2, <3>5, <3>6 DEF x
  <2>9. QED
    BY <2>1, <2>7, <2>8
<1>2. QED
  BY <1>1, FileInvHolds, PTL

(* The rules that a limit lets in.                                         *)
LEMMA WithinIs ==
  ASSUME NEW S, NEW q \in Seq(S), NEW limit \in Nat
  PROVE  Within(q, Len(q), limit) = IF limit \in 1..Len(q) THEN SubSeq(q, 1, limit) ELSE q
<1> DEFINE n == Len(q)
           k == IF limit > 0 /\ n > limit THEN limit ELSE n
<1>1. n \in Nat /\ SubSeq(q, 1, n) = q
  BY BeginningsGrow
<1>2. Within(q, n, limit) = SubSeq(q, 1, k)
  BY DEF Within
<1> HIDE DEF n
<1>3. k = IF limit \in 1..n THEN limit ELSE n
  BY <1>1
<1> HIDE DEF k
<1>4. Within(q, n, limit) = IF limit \in 1..n THEN SubSeq(q, 1, limit) ELSE q
  <2>1. CASE limit \in 1..n
    BY <1>2, <1>3, <2>1
  <2>2. CASE limit \notin 1..n
    BY <1>1, <1>2, <1>3, <2>2
  <2>3. QED
    BY <2>1, <2>2
<1>5. QED
  BY <1>4 DEF n

(* A file that was written to its end is read, in its format, as the rules *)
(* that were saved, or as the first of them.                               *)
THEOREM SavedFilesLoadHolds == Spec => []SavedFilesLoad
<1>1. ASSUME FileInv PROVE SavedFilesLoad
  <2>1. SUFFICES ASSUME content = SaveFile(rules, format), AllSurvive,
                        NEW skip \in BOOLEAN, NEW limit \in 0..2
                 PROVE  LoadFile(content, Options(format, skip, limit), FALSE) =
                          Loaded(IF format # "binary" /\ limit \in 1..Len(rules)
                                 THEN SubSeq(rules, 1, limit) ELSE rules)
    BY DEF SavedFilesLoad
  <2>2. /\ format \in Formats /\ rules \in Seq(Elements) /\ FitsUint32(Len(rules))
        /\ Len(rules) \in Nat /\ limit \in Nat
        /\ format # "advanced" => content \in Octets
    BY <1>1 DEF FileInv, AreSaved
  <2>3. /\ format = "canonical" => \A i \in 1..Len(rules) : IsLine(rules[i])
        /\ format = "binary" => \A i \in 1..Len(rules) : IsSaved(rules[i])
    BY <1>1, <2>1, SurvivorsAre
  <2>4. format # "advanced" => content \o <<>> = content /\ <<>> \in Octets
    BY <2>2, NoOctets, JoinsNothing
  <2>5. Within(rules, Len(rules), limit) =
          IF limit \in 1..Len(rules) THEN SubSeq(rules, 1, limit) ELSE rules
    BY <2>2, WithinIs
  <2> DEFINE opts == Options(format, skip, limit)
             got == LoadFile(content, opts, FALSE)
  <2>6. opts.format = format
    BY DEF Options
  <2>7. ASSUME format \in LineFormats, LoadText(content, opts) = Loaded(Within(rules, Len(rules), limit))
        PROVE  got = Loaded(IF format # "binary" /\ limit \in 1..Len(rules)
                            THEN SubSeq(rules, 1, limit) ELSE rules)
    <3>1. opts.format \in LineFormats /\ got = LoadFile(content, opts, FALSE) /\ format # "binary"
      BY <2>6, <2>7 DEF LineFormats
    <3> HIDE DEF opts, got
    <3>2. got = LoadText(content, opts)
      BY <3>1, FileOfText
    <3>3. QED
      BY <2>5, <2>7, <3>1, <3>2
  <2>8. CASE format = "canonical"
    <3>1. IsJoin(SaveCanonical(rules), content, <<>>)
      BY <2>1, <2>4, <2>8 DEF SaveFile, IsJoin
    <3>2. opts = Options("canonical", skip, limit) /\ format \in LineFormats
      BY <2>8 DEF LineFormats
    <3>3. LoadText(content, Options("canonical", skip, limit)) = Loaded(Within(rules, Len(rules), limit))
      BY <2>2, <2>3, <2>4, <2>8, <3>1, CanonicalFilesBegin
    <3> HIDE DEF opts
    <3>4. LoadText(content, opts) = Loaded(Within(rules, Len(rules), limit))
      BY <3>2, <3>3
    <3>5. QED
      BY <2>7, <3>2, <3>4 DEF opts
  <2>9. CASE format = "advanced"
    <3>1. content = SaveAdvanced(rules)
      BY <2>1, <2>9 DEF SaveFile
    <3>2. opts = Options("advanced", skip, limit) /\ format \in LineFormats
      BY <2>9 DEF LineFormats
    <3>3. \A i \in 1..Len(rules) : rules[i] \in Elements /\ Survives(rules[i], "advanced")
      BY <2>1, <2>2, <2>9 DEF AllSurvive
    <3>4. LoadAs("advanced", AdvancedForm, rules)
      BY <3>3, AdvancedLineLoads DEF LoadAs
    <3>5. LoadText(SaveAdvanced(rules), Options("advanced", skip, limit)) =
            Loaded(Within(rules, Len(rules), limit))
      BY <2>2, <3>4, AdvancedFilesLoad
    <3> HIDE DEF opts
    <3>6. LoadText(content, opts) = Loaded(Within(rules, Len(rules), limit))
      BY <3>1, <3>2, <3>5
    <3>7. QED
      BY <2>7, <3>2, <3>6 DEF opts
  <2>10. CASE format = "binary"
    <3>1. IsJoin(SaveBinary(rules), content, <<>>)
      BY <2>1, <2>4, <2>10 DEF SaveFile, IsJoin
    <3>2. got = LoadBinary(content)
      <4>1. opts.format = "binary" /\ got = LoadFile(content, opts, FALSE)
        BY <2>6, <2>10
      <4> HIDE DEF opts, got
      <4>2. QED
        BY <4>1, FileOfBinary
    <3>3. LoadBinary(content) = Loaded(rules)
      BY <2>2, <2>3, <2>4, <2>10, <3>1, BinaryFilesAreWhole
    <3>4. QED
      BY <2>10, <3>2, <3>3 DEF got, opts
  <2>11. QED
    BY <2>2, <2>8, <2>9, <2>10 DEF Formats
<1>2. QED
  BY <1>1, FileInvHolds, PTL
=============================================================================

----------------------------- MODULE HttpProofs -----------------------------
(***************************************************************************)
(* The conversion of requests for values of any depth and width: a plain   *)
(* request is told by its queries, and a settled one has one query.  The   *)
(* HTTP server for any number of handlers, requests, rules and reports:    *)
(* its shutdown, its counters and what it has granted.                     *)
(***************************************************************************)
EXTENDS HttpServer, FiniteSetTheorems, SequenceTheorems, TLAPS

\* Less than, as a relation.
Less == {p \in Nat \X Nat : p[1] < p[2]}

(* A set that has each number below which it has all others has them all.  *)
LEMMA Strong ==
  ASSUME NEW T, \A n \in Nat : (\A m \in 0..(n - 1) : m \in T) => n \in T
  PROVE  \A n \in Nat : n \in T
<1> DEFINE Missing == {n \in Nat : n \notin T}
<1>1. SUFFICES ASSUME Missing # {} PROVE FALSE
  <2>1. Missing = {} => \A n \in Nat : n \in T
    OBVIOUS
  <2>2. QED
    BY <2>1
<1>2. IsWellFoundedOn(Less, Nat)
  BY NatLessThanWellFounded DEF OpToRel, Less
<1>3. PICK n \in Missing : \A m \in Missing : <<m, n>> \notin Less
  <2>1. Missing \subseteq Nat
    OBVIOUS
  <2>2. QED
    BY <1>1, <1>2, <2>1, WFMin
<1>4. ASSUME NEW m \in 0..(n - 1) PROVE m \in T
  <2>1. m \in Nat /\ m < n
    BY <1>3
  <2>2. <<m, n>> \in Less
    BY <1>3, <2>1 DEF Less
  <2>3. QED
    BY <1>3, <2>1, <2>2
<1>5. QED
  BY <1>3, <1>4

(***************************************************************************)
(* Values and the maps in them.                                            *)
(***************************************************************************)
LEMMA ValuesHaveParts ==
  ASSUME NEW v \in Values
  PROVE  /\ NestingOf(v) \in Nat
         /\ \/ v.kind = "text" /\ v = Text(v.text)
            \/ v.kind = "array" /\ v = Array(v.items) /\ v.items \in Seq(STRING)
            \/ v.kind = "object" /\ v = Object(v.fields) /\ IsMap(v.fields)
         /\ v.kind = "object" => \A k \in DOMAIN v.fields :
              v.fields[k] \in Values /\ NestingOf(v.fields[k]) < NestingOf(v)
BY ValuesAreDecoded DEF IsMap

LEMMA ValuesOfMap ==
  ASSUME NEW map, IsMap(map), NEW k \in DOMAIN map
  PROVE  map[k] \in Values /\ map[k] \in ValuesIn(map) /\ Held(map[k]) \subseteq ValuesIn(map)
<1>1. map[k] \in Values
  BY DEF IsMap
<1>2. map[k] \in Held(map[k])
  BY <1>1, ValuesAreVisited DEF ValuesOf
<1>3. QED
  BY <1>1, <1>2 DEF ValuesIn

LEMMA ValuesOfObject ==
  ASSUME NEW v \in Values, v.kind = "object"
  PROVE  v \in Held(v) /\ Held(v) = {v} \union ValuesIn(v.fields) /\ Written(v) = Visits(v.fields)
BY ValuesAreVisited DEF ValuesOf, PropertyParts

(* What a visit of a map gives, in the order of the keys.                  *)
IsVisit(map, q, keys, parts) ==
  /\ DOMAIN keys = 1..Cardinality(DOMAIN map) /\ Cardinality(DOMAIN map) \in Nat
  /\ \A i \in DOMAIN keys : keys[i] \in DOMAIN map
  /\ \A k \in DOMAIN map : \E i \in DOMAIN keys : keys[i] = k
  /\ \A k \in DOMAIN map : parts[k] \in Written(map[k])
  /\ q = [i \in DOMAIN keys |-> List(keys[i], parts[keys[i]])]

LEMMA VisitHasEntries ==
  ASSUME NEW map, IsMap(map), NEW q \in Visits(map)
  PROVE  \E keys, parts : IsVisit(map, q, keys, parts)
<1>1. PICK keys \in Orders(map), parts \in Choices(map) :
        q = [i \in DOMAIN keys |-> List(keys[i], parts[keys[i]])]
  BY DEF Visits
<1>2. Cardinality(DOMAIN map) \in Nat
  BY FS_CardinalityType DEF IsMap
<1>3. /\ DOMAIN keys = 1..Cardinality(DOMAIN map)
      /\ \A i \in DOMAIN keys : keys[i] \in DOMAIN map
      /\ \A k \in DOMAIN map : \E i \in DOMAIN keys : keys[i] = k
  BY <1>1 DEF Orders, Bijection, Injection, Surjection
<1>4. \A k \in DOMAIN map : parts[k] \in Written(map[k])
  BY <1>1 DEF Choices
<1>5. IsVisit(map, q, keys, parts)
  BY <1>1, <1>2, <1>3, <1>4 DEF IsVisit
<1>6. QED
  BY <1>5

LEMMA SameEntry ==
  ASSUME NEW k, NEW l, NEW p, NEW q, List(k, p) = List(l, q)
  PROVE  k = l /\ p = q
BY DEF List

(* Two maps that are written alike are the same, if that is so of the      *)
(* values in them.                                                         *)
LEMMA MapsAreTold ==
  ASSUME NEW m, NEW n, IsMap(m), IsMap(n), NEW q \in Visits(m), q \in Visits(n),
         \A k \in DOMAIN m, l \in DOMAIN n :
           (\E p : p \in Written(m[k]) /\ p \in Written(n[l])) => m[k] = n[l]
  PROVE  m = n
<1>1. PICK keys, parts : IsVisit(m, q, keys, parts)
  BY VisitHasEntries
<1>2. PICK others, theirs : IsVisit(n, q, others, theirs)
  BY VisitHasEntries
<1>3. DOMAIN keys = DOMAIN others
  BY <1>1, <1>2 DEF IsVisit
<1>4. ASSUME NEW i \in DOMAIN keys
      PROVE  keys[i] = others[i] /\ parts[keys[i]] = theirs[keys[i]]
  <2>1. List(keys[i], parts[keys[i]]) = List(others[i], theirs[others[i]])
    BY <1>1, <1>2, <1>3 DEF IsVisit
  <2>2. QED
    BY <2>1, SameEntry
<1>5. DOMAIN m = DOMAIN n
  <2>1. /\ \A i \in DOMAIN keys : keys[i] \in DOMAIN m
        /\ \A k \in DOMAIN m : \E i \in DOMAIN keys : keys[i] = k
    BY <1>1 DEF IsVisit
  <2>2. /\ \A i \in DOMAIN keys : keys[i] \in DOMAIN n
        /\ \A k \in DOMAIN n : \E i \in DOMAIN keys : keys[i] = k
    BY <1>2, <1>3, <1>4 DEF IsVisit
  <2>3. QED
    BY <2>1, <2>2
<1>6. ASSUME NEW k \in DOMAIN m PROVE m[k] = n[k]
  <2>1. parts[k] = theirs[k]
    BY <1>1, <1>4 DEF IsVisit
  <2>2. parts[k] \in Written(m[k]) /\ parts[k] \in Written(n[k])
    BY <1>1, <1>2, <1>5, <2>1 DEF IsVisit
  <2>3. QED
    BY <1>5, <2>2
<1>7. m = [k \in DOMAIN m |-> m[k]] /\ n = [k \in DOMAIN n |-> n[k]]
  BY DEF IsMap
<1>8. QED
  BY <1>5, <1>6, <1>7

\* All values in v read uniquely.
AllUnique(v) == \A w \in Held(v) : ReadsUniquely(w)

LEMMA PartsAreUnique ==
  ASSUME NEW v \in Values, v.kind = "object", AllUnique(v), NEW k \in DOMAIN v.fields
  PROVE  AllUnique(v.fields[k])
BY ValuesOfObject, ValuesHaveParts, ValuesOfMap DEF AllUnique

\* What is in the first place tells the kind of a value.
LEMMA FirstPart ==
  ASSUME NEW v \in Values, AllUnique(v), NEW p \in Written(v)
  PROVE  /\ v.kind = "text" => p = <<Atom(v.text)>>
         /\ v.kind = "array" =>
              Len(v.items) >= 2 /\ p = [i \in 1..Len(v.items) |-> Atom(v.items[i])]
         /\ v.kind = "object" => 1 \in DOMAIN p /\ p[1].kind = "list" /\ p \in Visits(v.fields)
<1>1. CASE v.kind = "text"
  BY <1>1, ValuesAreVisited DEF PropertyParts
<1>2. CASE v.kind = "array"
  <2>1. v \in Held(v)
    BY ValuesAreVisited DEF ValuesOf
  <2>2. v.items \in Seq(STRING) /\ Len(v.items) >= 2
    BY <1>2, <2>1, ValuesHaveParts DEF AllUnique, ReadsUniquely
  <2>3. DOMAIN v.items = 1..Len(v.items)
    BY <2>2
  <2>4. p = [i \in DOMAIN v.items |-> Atom(v.items[i])]
    BY <1>2, ValuesAreVisited DEF PropertyParts
  <2>5. QED
    BY <1>2, <2>2, <2>3, <2>4
<1>3. CASE v.kind = "object"
  <2>1. p \in Visits(v.fields) /\ DOMAIN v.fields # {}
    BY <1>3, ValuesOfObject DEF AllUnique, ReadsUniquely
  <2>2. IsMap(v.fields)
    BY <1>3, ValuesHaveParts
  <2>3. PICK keys, parts : IsVisit(v.fields, p, keys, parts)
    BY <2>1, <2>2, VisitHasEntries
  <2>4. 1 \in DOMAIN keys
    BY <2>1, <2>3 DEF IsVisit
  <2>5. 1 \in DOMAIN p /\ p[1].kind = "list"
    BY <2>3, <2>4 DEF IsVisit, List
  <2>6. QED
    BY <1>3, <2>1, <2>5
<1>4. QED
  BY <1>1, <1>2, <1>3, ValuesHaveParts

\* Two values are written alike only if they are the same.
Distinct(v, w) == (\E p : p \in Written(v) /\ p \in Written(w)) => v = w

LEMMA ValuesAreTold ==
  ASSUME NEW v \in Values, NEW w \in Values, AllUnique(v), AllUnique(w),
         v.kind = "object" /\ w.kind = "object" =>
           \A k \in DOMAIN v.fields, l \in DOMAIN w.fields : Distinct(v.fields[k], w.fields[l])
  PROVE  Distinct(v, w)
<1> SUFFICES ASSUME NEW p, p \in Written(v), p \in Written(w) PROVE v = w
  BY DEF Distinct
<1>0. /\ v.kind \in {"text", "array", "object"} /\ w.kind \in {"text", "array", "object"}
      /\ \A t : <<Atom(t)>>[1].kind = "atom" /\ DOMAIN <<Atom(t)>> = 1..1 /\ <<Atom(t)>>[1].value = t
  BY ValuesHaveParts DEF Atom
<1>1. CASE v.kind = "text" /\ w.kind = "text"
  <2>1. v = Text(v.text) /\ w = Text(w.text)
    BY <1>1, ValuesHaveParts
  <2>2. p = <<Atom(v.text)>> /\ p = <<Atom(w.text)>>
    BY <1>1, FirstPart
  <2>3. v.text = w.text
    BY <1>0, <2>2
  <2>4. QED
    BY <2>1, <2>3
<1>2. CASE v.kind = "array" /\ w.kind = "array"
  <2>1. /\ v = Array(v.items) /\ w = Array(w.items)
        /\ v.items \in Seq(STRING) /\ w.items \in Seq(STRING)
    BY <1>2, ValuesHaveParts
  <2>2. /\ p = [i \in 1..Len(v.items) |-> Atom(v.items[i])]
        /\ p = [i \in 1..Len(w.items) |-> Atom(w.items[i])]
    BY <1>2, FirstPart
  <2>3. Len(v.items) \in Nat /\ Len(w.items) \in Nat
    BY <2>1
  <2>4. 1..Len(v.items) = 1..Len(w.items)
    BY <2>2
  <2>5. Len(v.items) = Len(w.items)
    BY <2>3, <2>4
  <2>6. ASSUME NEW i \in 1..Len(v.items) PROVE v.items[i] = w.items[i]
    <3>1. Atom(v.items[i]) = Atom(w.items[i])
      BY <2>2, <2>4
    <3>2. QED
      BY <3>1 DEF Atom
  <2>7. v.items = w.items
    BY <2>1, <2>5, <2>6
  <2>8. QED
    BY <2>1, <2>7
<1>3. CASE v.kind = "object" /\ w.kind = "object"
  <2>1. v = Object(v.fields) /\ w = Object(w.fields) /\ IsMap(v.fields) /\ IsMap(w.fields)
    BY <1>3, ValuesHaveParts
  <2>2. p \in Visits(v.fields) /\ p \in Visits(w.fields)
    BY <1>3, FirstPart
  <2>3. \A k \in DOMAIN v.fields, l \in DOMAIN w.fields :
          (\E x : x \in Written(v.fields[k]) /\ x \in Written(w.fields[l])) => v.fields[k] = w.fields[l]
    BY <1>3 DEF Distinct
  <2>4. v.fields = w.fields
    BY <2>1, <2>2, <2>3, MapsAreTold
  <2>5. QED
    BY <2>1, <2>4
<1>4. ASSUME NEW x \in Values, NEW y \in Values, AllUnique(x), AllUnique(y),
             p \in Written(x), p \in Written(y), x.kind = "text", y.kind # "text"
      PROVE  FALSE
  <2>1. p = <<Atom(x.text)>>
    BY <1>4, FirstPart
  <2>2. CASE y.kind = "array"
    <3>1. Len(y.items) >= 2 /\ p = [i \in 1..Len(y.items) |-> Atom(y.items[i])]
      BY <1>4, <2>2, FirstPart
    <3>2. Len(y.items) \in Nat
      BY <2>2, ValuesHaveParts
    <3>3. 2 \in DOMAIN p
      BY <3>1, <3>2
    <3>4. QED
      BY <1>0, <2>1, <3>3
  <2>3. CASE y.kind = "object"
    <3>1. p[1].kind = "list"
      BY <1>4, <2>3, FirstPart
    <3>2. QED
      BY <1>0, <2>1, <3>1
  <2>4. QED
    BY <1>4, <2>2, <2>3, ValuesHaveParts
<1>5. ASSUME NEW x \in Values, NEW y \in Values, AllUnique(x), AllUnique(y),
             p \in Written(x), p \in Written(y), x.kind = "array", y.kind = "object"
      PROVE  FALSE
  <2>1. Len(x.items) >= 2 /\ p = [i \in 1..Len(x.items) |-> Atom(x.items[i])]
    BY <1>5, FirstPart
  <2>2. Len(x.items) \in Nat
    BY <1>5, ValuesHaveParts
  <2>3. p[1].kind = "atom"
    BY <2>1, <2>2 DEF Atom
  <2>4. p[1].kind = "list"
    BY <1>5, FirstPart
  <2>5. QED
    BY <2>3, <2>4
<1>6. QED
  BY <1>0, <1>1, <1>2, <1>3, <1>4, <1>5

(* A value is told by what it is written as, if every value inside is.     *)
LEMMA WrittenValuesAreTold ==
  \A v, w \in Values : AllUnique(v) /\ AllUnique(w) => Distinct(v, w)
<1> DEFINE T == {n \in Nat : \A v, w \in Values :
                   NestingOf(v) = n /\ AllUnique(v) /\ AllUnique(w) => Distinct(v, w)}
<1>1. ASSUME NEW n \in Nat, \A m \in 0..(n - 1) : m \in T PROVE n \in T
  <2>1. SUFFICES ASSUME NEW v \in Values, NEW w \in Values, NestingOf(v) = n,
                        AllUnique(v), AllUnique(w)
                 PROVE  Distinct(v, w)
    OBVIOUS
  <2>2. ASSUME v.kind = "object", w.kind = "object",
               NEW k \in DOMAIN v.fields, NEW l \in DOMAIN w.fields
        PROVE  Distinct(v.fields[k], w.fields[l])
    <3> DEFINE x == v.fields[k]
               y == w.fields[l]
    <3>1. x \in Values /\ y \in Values /\ NestingOf(x) \in Nat /\ NestingOf(x) < n
      BY <2>1, <2>2, ValuesHaveParts
    <3>2. AllUnique(x) /\ AllUnique(y)
      BY <2>1, <2>2, PartsAreUnique
    <3> HIDE DEF x, y
    <3>3. NestingOf(x) \in 0..(n - 1)
      BY <3>1
    <3>4. NestingOf(x) \in T
      BY <1>1, <3>3
    <3>5. Distinct(x, y)
      BY <3>1, <3>2, <3>4
    <3>6. QED
      BY <3>5 DEF x, y
  <2>3. QED
    BY <2>1, <2>2, ValuesAreTold
<1>2. \A n \in Nat : n \in T
  <2> HIDE DEF T
  <2>1. QED
    BY <1>1, Strong
<1>3. QED
  BY <1>2, ValuesHaveParts

(* A map is told by what it is written as.                                 *)
LEMMA WrittenMapsAreTold ==
  ASSUME NEW m, NEW n, IsMap(m), IsMap(n), NEW q \in Visits(m), q \in Visits(n),
         \A v \in ValuesIn(m) \union ValuesIn(n) : ReadsUniquely(v)
  PROVE  m = n
<1>1. ASSUME NEW k \in DOMAIN m, NEW l \in DOMAIN n PROVE Distinct(m[k], n[l])
  <2>1. m[k] \in Values /\ n[l] \in Values
    BY ValuesOfMap
  <2>2. Held(m[k]) \subseteq ValuesIn(m) /\ Held(n[l]) \subseteq ValuesIn(n)
    BY ValuesOfMap
  <2>3. AllUnique(m[k]) /\ AllUnique(n[l])
    BY <2>2 DEF AllUnique
  <2>4. QED
    BY <2>1, <2>3, WrittenValuesAreTold
<1>2. QED
  BY <1>1, MapsAreTold DEF Distinct

-----------------------------------------------------------------------------
(***************************************************************************)
(* Lists put together.                                                     *)
(***************************************************************************)
IsSequence(s) == \E S : s \in Seq(S)

IsJoin(z, p, q) ==
  /\ Len(z) = Len(p) + Len(q)
  /\ \A i \in 1..Len(p) : z[i] = p[i]
  /\ \A i \in 1..Len(q) : z[Len(p) + i] = q[i]

LEMMA SequencesHaveLengths ==
  ASSUME NEW s, IsSequence(s)
  PROVE  Len(s) \in Nat /\ DOMAIN s = 1..Len(s)
BY DEF IsSequence

LEMMA SameSequences ==
  ASSUME NEW p, NEW q, IsSequence(p), IsSequence(q), Len(p) = Len(q),
         \A i \in 1..Len(p) : p[i] = q[i]
  PROVE  p = q
BY DEF IsSequence

LEMMA Joined ==
  ASSUME NEW p, NEW q, IsSequence(p), IsSequence(q)
  PROVE  IsSequence(p \o q) /\ IsJoin(p \o q, p, q)
<1>1. PICK S : p \in Seq(S)
  BY DEF IsSequence
<1>2. PICK T : q \in Seq(T)
  BY DEF IsSequence
<1> DEFINE U == S \union T
<1>3. p \in Seq(U) /\ q \in Seq(U)
  BY <1>1, <1>2
<1> HIDE DEF U
<1>4. p \o q \in Seq(U) /\ Len(p \o q) = Len(p) + Len(q)
  BY <1>3
<1>5. \A i \in 1..Len(p) : (p \o q)[i] = p[i]
  BY <1>3
<1>6. \A i \in 1..Len(q) : (p \o q)[Len(p) + i] = q[i]
  BY <1>3
<1>7. QED
  BY <1>4, <1>5, <1>6 DEF IsSequence, IsJoin

LEMMA JoinAssociates ==
  ASSUME NEW p, NEW q, NEW s, IsSequence(p), IsSequence(q), IsSequence(s)
  PROVE  (p \o q) \o s = p \o (q \o s)
<1>1. PICK S : p \in Seq(S)
  BY DEF IsSequence
<1>2. PICK T : q \in Seq(T)
  BY DEF IsSequence
<1>3. PICK U : s \in Seq(U)
  BY DEF IsSequence
<1> DEFINE V == S \union T \union U
<1>4. p \in Seq(V) /\ q \in Seq(V) /\ s \in Seq(V)
  BY <1>1, <1>2, <1>3
<1> HIDE DEF V
<1>5. QED
  BY <1>4, ConcatAssociative

LEMMA VisitIsSequence ==
  ASSUME NEW map, IsMap(map), NEW q \in Visits(map)
  PROVE  IsSequence(q) /\ \A i \in DOMAIN q : q[i].tag \in DOMAIN map
<1>1. PICK keys, parts : IsVisit(map, q, keys, parts)
  BY VisitHasEntries
<1> DEFINE n == Cardinality(DOMAIN map)
           S == {q[i] : i \in 1..n}
<1>2. n \in Nat /\ q = [i \in 1..n |-> List(keys[i], parts[keys[i]])]
  BY <1>1 DEF IsVisit
<1>3. \A i \in 1..n : q[i].tag \in DOMAIN map
  BY <1>1, <1>2 DEF IsVisit, List
<1> HIDE DEF n
<1>4. q \in [1..n -> S]
  BY <1>2
<1>5. q \in Seq(S)
  BY <1>2, <1>4
<1>6. QED
  BY <1>2, <1>3, <1>5 DEF IsSequence

LEMMA ShortSequences ==
  ASSUME NEW a, NEW b
  PROVE  /\ IsSequence(<<>>) /\ Len(<<>>) = 0
         /\ IsSequence(<<a>>) /\ Len(<<a>>) = 1 /\ <<a>>[1] = a
         /\ IsSequence(<<a, b>>) /\ Len(<<a, b>>) = 2 /\ <<a, b>>[1] = a /\ <<a, b>>[2] = b
<1>1. <<>> \in Seq({a, b}) /\ <<a>> \in Seq({a, b}) /\ <<a, b>> \in Seq({a, b})
  OBVIOUS
<1>2. QED
  BY <1>1 DEF IsSequence

\* Two joins are the same sequence.
Agree(p, x, q, y) == p \o x = q \o y

(* Two joins that agree, the first parts of which are as long.             *)
LEMMA JoinIsTold ==
  ASSUME NEW p, NEW q, NEW x, NEW y, IsSequence(p), IsSequence(q), IsSequence(x), IsSequence(y),
         Len(p) = Len(q), Agree(p, x, q, y)
  PROVE  p = q /\ x = y
<1> DEFINE z == p \o x
<1>1. IsJoin(z, p, x)
  BY Joined
<1>2. IsJoin(z, q, y)
  <2>1. IsJoin(q \o y, q, y)
    BY Joined
  <2>2. QED
    BY <2>1 DEF Agree
<1>3. Len(p) \in Nat /\ Len(x) \in Nat /\ Len(y) \in Nat
  BY SequencesHaveLengths
<1> HIDE DEF z
<1>4. Len(x) = Len(y)
  BY <1>1, <1>2, <1>3 DEF IsJoin
<1>5. \A i \in 1..Len(p) : p[i] = q[i]
  BY <1>1, <1>2 DEF IsJoin
<1>6. \A i \in 1..Len(x) : x[i] = y[i]
  BY <1>1, <1>2, <1>4 DEF IsJoin
<1>7. p = q
  BY <1>5, SameSequences
<1>8. x = y
  BY <1>4, <1>6, SameSequences
<1>9. QED
  BY <1>7, <1>8

LEMMA HeadIsTold ==
  ASSUME NEW x, NEW y, IsSequence(x), IsSequence(y), NEW a, NEW b, Agree(<<a>>, x, <<b>>, y)
  PROVE  a = b /\ x = y
<1> DEFINE p == <<a>>
           q == <<b>>
<1>1. IsSequence(p) /\ IsSequence(q) /\ Len(p) = Len(q) /\ p[1] = a /\ q[1] = b
  BY ShortSequences
<1>2. Agree(p, x, q, y)
  OBVIOUS
<1> HIDE DEF p, q
<1>3. p = q /\ x = y
  BY <1>1, <1>2, JoinIsTold
<1>4. QED
  BY <1>1, <1>3

\* No list in a sequence has a tag.
Lacks(s, tag) == \A i \in DOMAIN s : s[i].tag # tag

LEMMA JoinLacks ==
  ASSUME NEW p, NEW q, IsSequence(p), IsSequence(q), NEW tag, Lacks(p, tag), Lacks(q, tag)
  PROVE  Lacks(p \o q, tag)
<1> DEFINE z == p \o q
<1>1. IsSequence(z) /\ IsJoin(z, p, q)
  BY Joined
<1> HIDE DEF z
<1>2. Len(p) \in Nat /\ Len(q) \in Nat /\ DOMAIN z = 1..Len(z)
  BY <1>1, SequencesHaveLengths
<1>3. ASSUME NEW i \in 1..Len(z) PROVE z[i].tag # tag
  <2>1. CASE i <= Len(p)
    <3>1. i \in DOMAIN p /\ z[i] = p[i]
      BY <1>1, <1>2, <1>3, <2>1, SequencesHaveLengths DEF IsJoin
    <3>2. QED
      BY <3>1 DEF Lacks
  <2>2. CASE i > Len(p)
    <3>1. i - Len(p) \in 1..Len(q) /\ Len(p) + (i - Len(p)) = i
      BY <1>1, <1>2, <1>3, <2>2 DEF IsJoin
    <3>2. z[i] = q[i - Len(p)] /\ i - Len(p) \in DOMAIN q
      BY <1>1, <3>1, SequencesHaveLengths DEF IsJoin
    <3>3. QED
      BY <3>2 DEF Lacks
  <2>3. QED
    BY <1>2, <1>3, <2>1, <2>2
<1>4. QED
  BY <1>2, <1>3 DEF z, Lacks

(* Whether an entry is present is seen at once, if nothing else has its    *)
(* key.                                                                    *)
LEMMA EntryHasKey ==
  ASSUME NEW key, NEW text
  PROVE  /\ Entry(key, text).tag = key
         /\ \A other : Entry(key, text) = Entry(key, other) => text = other
<1>1. Entry(key, text).tag = key
  BY DEF Entry, List
<1>2. ASSUME NEW other, Entry(key, text) = Entry(key, other) PROVE text = other
  <2>1. <<Atom(text)>> = <<Atom(other)>>
    BY <1>2, SameEntry DEF Entry
  <2>2. <<Atom(text)>>[1].value = text /\ <<Atom(other)>>[1].value = other
    BY DEF Atom
  <2>3. QED
    BY <2>1, <2>2
<1>3. QED
  BY <1>1, <1>2

LEMMA PresentIsSequence ==
  ASSUME NEW key, NEW text
  PROVE  /\ IsSequence(Present(key, text))
         /\ \A tag : tag # key => Lacks(Present(key, text), tag)
<1> DEFINE e == Entry(key, text)
<1>1. e.tag = key
  BY EntryHasKey
<1> HIDE DEF e
<1>2. Present(key, text) = IF text = "" THEN <<>> ELSE <<e>>
  BY DEF Present, e
<1>3. CASE text = ""
  <2> DEFINE s == <<>>
  <2>1. IsSequence(s) /\ Len(s) = 0
    BY ShortSequences
  <2>2. Present(key, text) = s
    BY <1>2, <1>3
  <2> HIDE DEF s
  <2>3. DOMAIN s = {}
    BY <2>1, SequencesHaveLengths
  <2>4. QED
    BY <2>1, <2>2, <2>3 DEF Lacks
<1>4. CASE text # ""
  <2> DEFINE s == <<e>>
  <2>1. IsSequence(s) /\ Len(s) = 1 /\ s[1] = e
    BY ShortSequences
  <2>2. Present(key, text) = s
    BY <1>2, <1>4
  <2> HIDE DEF s
  <2>3. \A i \in DOMAIN s : s[i] = e
    BY <2>1, SequencesHaveLengths
  <2>4. QED
    BY <1>1, <2>1, <2>2, <2>3 DEF Lacks
<1>5. QED
  BY <1>3, <1>4

LEMMA EntryStandsOut ==
  ASSUME NEW e, NEW v, NEW w, IsSequence(v), IsSequence(w), <<e>> \o v = w, Lacks(w, e.tag)
  PROVE  FALSE
<1> DEFINE p == <<e>>
<1>1. IsSequence(p) /\ Len(p) = 1 /\ p[1] = e /\ p \o v = w
  BY ShortSequences
<1> HIDE DEF p
<1>2. IsJoin(w, p, v)
  BY <1>1, Joined
<1>3. Len(v) \in Nat /\ DOMAIN w = 1..Len(w)
  BY SequencesHaveLengths
<1>4. Len(w) = 1 + Len(v) /\ w[1] = e
  BY <1>1, <1>2 DEF IsJoin
<1>5. 1 \in DOMAIN w
  BY <1>3, <1>4
<1>6. QED
  BY <1>4, <1>5 DEF Lacks

LEMMA EntryIsTold ==
  ASSUME NEW x, NEW y, IsSequence(x), IsSequence(y), NEW key, NEW t, NEW u,
         Lacks(x, key), Lacks(y, key), Agree(Present(key, t), x, Present(key, u), y)
  PROVE  t = u /\ x = y
<1>1. ASSUME NEW v, IsSequence(v) PROVE <<>> \o v = v
  <2>1. PICK S : v \in Seq(S)
    BY <1>1 DEF IsSequence
  <2>2. QED
    BY <2>1
<1>2. CASE t = "" /\ u = ""
  <2>1. x = <<>> \o x /\ y = <<>> \o y
    BY <1>1
  <2>2. QED
    BY <1>2, <2>1 DEF Present, Agree
<1>3. CASE t # "" /\ u # ""
  <2>1. Agree(<<Entry(key, t)>>, x, <<Entry(key, u)>>, y)
    BY <1>3 DEF Present
  <2>2. Entry(key, t) = Entry(key, u) /\ x = y
    BY <2>1, HeadIsTold
  <2>3. QED
    BY <2>2, EntryHasKey
<1>4. CASE t # "" /\ u = ""
  <2> DEFINE e == Entry(key, t)
  <2>1. <<e>> \o x = y
    BY <1>1, <1>4 DEF Present, Agree
  <2>2. Lacks(y, e.tag)
    BY EntryHasKey
  <2>3. QED
    BY <2>1, <2>2, EntryStandsOut
<1>5. CASE t = "" /\ u # ""
  <2> DEFINE e == Entry(key, u)
  <2>1. <<e>> \o y = x
    BY <1>1, <1>5 DEF Present, Agree
  <2>2. Lacks(x, e.tag)
    BY EntryHasKey
  <2>3. QED
    BY <2>1, <2>2, EntryStandsOut
<1>6. QED
  BY <1>2, <1>3, <1>4, <1>5

-----------------------------------------------------------------------------
(***************************************************************************)
(* A query tells the request.                                              *)
(***************************************************************************)
\* What may stand behind the subject.
IsContext(c) == c = <<>> \/ \E e : e.tag = "context" /\ c = <<e>>

LEMMA ContextIsShort ==
  ASSUME NEW c, IsContext(c)
  PROVE  IsSequence(c) /\ (Len(c) = 0 \/ (Len(c) = 1 /\ c[1].tag = "context"))
BY ShortSequences DEF IsContext

\* The last element.
LEMMA LastElement ==
  ASSUME NEW p, IsSequence(p), NEW a, NEW e, e.tag = "subject", NEW c, IsContext(c)
  PROVE  LET z == (p \o <<a, e>>) \o c
         IN  /\ Len(z) = Len(p) + 2 + Len(c)
             /\ z[Len(z)].tag = IF Len(c) = 0 THEN "subject" ELSE "context"
<1> DEFINE pair == <<a, e>>
           w == p \o pair
           z == w \o c
<1>1. IsSequence(c)
  BY ContextIsShort
<1>2. IsSequence(pair) /\ Len(pair) = 2 /\ pair[2] = e
  BY ShortSequences
<1> HIDE DEF pair
<1>3. IsSequence(w) /\ IsJoin(w, p, pair)
  BY <1>2, Joined
<1> HIDE DEF w
<1>4. IsJoin(z, w, c)
  BY <1>1, <1>3, Joined
<1> HIDE DEF z
<1>5. Len(w) = Len(p) + 2 /\ w[Len(w)] = e /\ Len(p) \in Nat
  BY <1>2, <1>3, SequencesHaveLengths DEF IsJoin
<1>6. CASE Len(c) = 0
  <2>1. Len(z) = Len(w) /\ z[Len(z)] = w[Len(w)]
    BY <1>4, <1>5, <1>6 DEF IsJoin
  <2>2. QED
    BY <1>5, <1>6, <2>1 DEF z, w, pair
<1>7. CASE Len(c) = 1 /\ c[1].tag = "context"
  <2>1. Len(z) = Len(w) + 1 /\ z[Len(z)] = c[1]
    BY <1>4, <1>5, <1>7 DEF IsJoin
  <2>2. QED
    BY <1>5, <1>7, <2>1 DEF z, w, pair
<1>8. QED
  BY <1>6, <1>7, ContextIsShort

LEMMA TailIsTold ==
  ASSUME NEW p, NEW q, IsSequence(p), IsSequence(q), NEW a, NEW b,
         NEW e, NEW f, e.tag = "subject", f.tag = "subject",
         NEW c, NEW d, IsContext(c), IsContext(d),
         Agree(p \o <<a, e>>, c, q \o <<b, f>>, d)
  PROVE  p = q /\ a = b /\ e = f /\ c = d
<1> DEFINE z == (p \o <<a, e>>) \o c
           y == (q \o <<b, f>>) \o d
<1>1. /\ Len(z) = Len(p) + 2 + Len(c)
      /\ z[Len(z)].tag = IF Len(c) = 0 THEN "subject" ELSE "context"
  BY LastElement
<1>2. /\ Len(y) = Len(q) + 2 + Len(d)
      /\ y[Len(y)].tag = IF Len(d) = 0 THEN "subject" ELSE "context"
  BY LastElement
<1>3. y = z
  BY DEF Agree
<1> HIDE DEF y, z
<1>4. Len(c) \in {0, 1} /\ Len(d) \in {0, 1} /\ IsSequence(c) /\ IsSequence(d)
  BY ContextIsShort
<1>5. Len(c) = Len(d)
  BY <1>1, <1>2, <1>3, <1>4
<1>6. Len(p) = Len(q)
  BY <1>1, <1>2, <1>3, <1>4, <1>5, SequencesHaveLengths
<1> DEFINE pair == <<a, e>>
           other == <<b, f>>
<1>7. IsSequence(pair) /\ IsSequence(other) /\ Len(pair) = 2 /\ Len(other) = 2
  BY ShortSequences
<1>8. pair[1] = a /\ pair[2] = e /\ other[1] = b /\ other[2] = f
  BY ShortSequences
<1>9. z = (p \o pair) \o c /\ y = (q \o other) \o d
  BY DEF z, y
<1> HIDE DEF pair, other
<1> DEFINE u == p \o pair
           v == q \o other
<1>10. IsSequence(u) /\ IsJoin(u, p, pair)
  BY <1>7, Joined
<1>11. IsSequence(v) /\ IsJoin(v, q, other)
  BY <1>7, Joined
<1>12. Len(u) = Len(v)
  BY <1>6, <1>7, <1>10, <1>11 DEF IsJoin
<1>13. Agree(u, c, v, d)
  BY <1>3, <1>9 DEF Agree
<1>14. u = v /\ c = d
  <2> HIDE DEF u, v
  <2>1. QED
    BY <1>4, <1>10, <1>11, <1>12, <1>13, JoinIsTold
<1>15. Agree(p, pair, q, other)
  BY <1>14 DEF Agree
<1>16. p = q /\ pair = other
  BY <1>6, <1>7, <1>15, JoinIsTold
<1>17. QED
  BY <1>8, <1>14, <1>16

LEMMA ActionIsTold ==
  ASSUME NEW a, NEW b, IsMap(a.properties), IsMap(b.properties),
         \A v \in ValuesIn(a.properties) \union ValuesIn(b.properties) : ReadsUniquely(v),
         NEW e, e \in Actions(a), e \in Actions(b)
  PROVE  a.name = b.name /\ a.properties = b.properties
<1>1. PICK x \in Visits(a.properties) : e = List("action", <<Atom(a.name)>> \o x)
  BY DEF Actions
<1>2. PICK y \in Visits(b.properties) : e = List("action", <<Atom(b.name)>> \o y)
  BY DEF Actions
<1>3. IsSequence(x) /\ IsSequence(y)
  BY VisitIsSequence
<1>4. Agree(<<Atom(a.name)>>, x, <<Atom(b.name)>>, y)
  <2>1. List("action", <<Atom(a.name)>> \o x) = List("action", <<Atom(b.name)>> \o y)
    BY <1>1, <1>2
  <2>2. QED
    BY <2>1 DEF List, Agree
<1>5. Atom(a.name) = Atom(b.name) /\ x = y
  BY <1>3, <1>4, HeadIsTold
<1>6. a.name = b.name
  BY <1>5 DEF Atom
<1>7. a.properties = b.properties
  BY <1>5, WrittenMapsAreTold
<1>8. QED
  BY <1>6, <1>7

LEMMA ContextIsTold ==
  ASSUME NEW m, NEW n, IsMap(m), IsMap(n), \A v \in ValuesIn(m) \union ValuesIn(n) : ReadsUniquely(v),
         NEW c, c \in Contexts(m), c \in Contexts(n)
  PROVE  m = n
<1>1. ASSUME NEW k, IsMap(k), c \in Contexts(k)
      PROVE  /\ DOMAIN k = {} <=> Len(c) = 0
             /\ DOMAIN k # {} => \E x \in Visits(k) : c = <<List("context", x)>>
  BY <1>1 DEF Contexts
<1>2. CASE DOMAIN m = {}
  <2>1. DOMAIN n = {}
    BY <1>1, <1>2
  <2>2. m = [k \in {} |-> m[k]] /\ n = [k \in {} |-> n[k]]
    BY <1>2, <2>1 DEF IsMap
  <2>3. QED
    BY <2>2
<1>3. CASE DOMAIN m # {}
  <2>1. PICK x \in Visits(m) : c = <<List("context", x)>>
    BY <1>1, <1>3
  <2>2. PICK y \in Visits(n) : c = <<List("context", y)>>
    BY <1>1, <1>3, <2>1
  <2>3. List("context", x) = List("context", y)
    <3> DEFINE e == List("context", x)
               f == List("context", y)
    <3>1. c[1] = e /\ c[1] = f
      BY <2>1, <2>2
    <3>2. QED
      BY <3>1
  <2>4. x = y
    BY <2>3, SameEntry
  <2>5. QED
    BY <2>4, WrittenMapsAreTold
<1>4. QED
  BY <1>2, <1>3

LEMMA SubjectIsTold ==
  ASSUME NEW a, NEW b, IsMap(a.properties), IsMap(b.properties),
         \A v \in ValuesIn(a.properties) \union ValuesIn(b.properties) : ReadsUniquely(v),
         DOMAIN a.properties \intersect {"type", "id"} = {},
         DOMAIN b.properties \intersect {"type", "id"} = {},
         NEW e, e \in Subjects(a), e \in Subjects(b)
  PROVE  a.type = b.type /\ a.id = b.id /\ a.properties = b.properties
<1>1. PICK x \in Visits(a.properties) : e = List("subject", Identity(a) \o x)
  BY DEF Subjects
<1>2. PICK y \in Visits(b.properties) : e = List("subject", Identity(b) \o y)
  BY DEF Subjects
<1> DEFINE typeA == Present("type", a.type)
           typeB == Present("type", b.type)
           idA == Present("id", a.id)
           idB == Present("id", b.id)
<1>3. IsSequence(x) /\ IsSequence(y)
  BY VisitIsSequence
<1>4. Lacks(x, "type") /\ Lacks(x, "id") /\ Lacks(y, "type") /\ Lacks(y, "id")
  BY VisitIsSequence DEF Lacks
<1>5. IsSequence(typeA) /\ IsSequence(typeB) /\ IsSequence(idA) /\ IsSequence(idB)
  BY PresentIsSequence
<1>6. Lacks(idA, "type") /\ Lacks(idB, "type")
  BY PresentIsSequence
<1>7. (typeA \o idA) \o x = (typeB \o idB) \o y
  <2>1. List("subject", Identity(a) \o x) = List("subject", Identity(b) \o y)
    BY <1>1, <1>2
  <2>2. Identity(a) \o x = Identity(b) \o y
    BY <2>1 DEF List
  <2>3. QED
    BY <2>2 DEF Identity
<1> HIDE DEF typeA, typeB, idA, idB
<1> DEFINE restA == idA \o x
           restB == idB \o y
<1>8. typeA \o restA = typeB \o restB
  <2>1. (typeA \o idA) \o x = typeA \o (idA \o x)
    BY SMTT(30), <1>3, <1>5, JoinAssociates
  <2>2. (typeB \o idB) \o y = typeB \o (idB \o y)
    BY SMTT(30), <1>3, <1>5, JoinAssociates
  <2>3. QED
    BY <1>7, <2>1, <2>2
<1>9. IsSequence(restA) /\ IsSequence(restB)
  BY <1>3, <1>5, Joined
<1>10. Lacks(restA, "type") /\ Lacks(restB, "type")
  BY <1>3, <1>4, <1>5, <1>6, JoinLacks
<1>11. a.type = b.type /\ restA = restB
  <2> HIDE DEF restA, restB
  <2>1. Agree(Present("type", a.type), restA, Present("type", b.type), restB)
    BY <1>8 DEF typeA, typeB, Agree
  <2>2. QED
    BY <1>9, <1>10, <2>1, EntryIsTold
<1>12. a.id = b.id /\ x = y
  <2>1. Agree(Present("id", a.id), x, Present("id", b.id), y)
    BY <1>11 DEF idA, idB, Agree
  <2>2. QED
    BY <1>3, <1>4, <2>1, EntryIsTold
<1>13. a.properties = b.properties
  BY <1>12, WrittenMapsAreTold
<1>14. QED
  BY <1>11, <1>12, <1>13

IsQuery(r, q, x, a, e, c) ==
  /\ x \in Visits(r.resource.properties) /\ a \in Actions(r.action)
  /\ e \in Subjects(r.subject) /\ c \in Contexts(r.context)
  /\ q = List(r.resource.type, ((Present("id", r.resource.id) \o x) \o <<a, e>>) \o c)

LEMMA QueryHasParts ==
  ASSUME NEW r, NEW q \in ToSExpression(r)
  PROVE  \E x, a, e, c : IsQuery(r, q, x, a, e, c)
BY DEF ToSExpression, IsQuery

(* Two plain requests that may be turned into the same query are the same  *)
(* request, whatever values their properties have (authzen.go:78).         *)
THEOREM QueryTellsRequest ==
  ASSUME NEW r \in Requests, NEW s \in Requests, Plain(r), Plain(s),
         NEW q, q \in ToSExpression(r), q \in ToSExpression(s)
  PROVE  r = s
<1>1. PICK x, a, e, c : IsQuery(r, q, x, a, e, c)
  BY QueryHasParts
<1>2. PICK y, b, f, d : IsQuery(s, q, y, b, f, d)
  BY QueryHasParts
<1>3. ASSUME NEW t \in Requests
      PROVE  IsMap(t.resource.properties) /\ IsMap(t.action.properties)
             /\ IsMap(t.subject.properties) /\ IsMap(t.context)
  BY RequestsAreDecoded DEF Maps
<1>4. e.tag = "subject" /\ f.tag = "subject" /\ IsContext(c) /\ IsContext(d)
  BY <1>1, <1>2 DEF IsQuery, Subjects, List, Contexts, IsContext
<1> DEFINE idR == Present("id", r.resource.id)
           idS == Present("id", s.resource.id)
           p == idR \o x
           o == idS \o y
<1>5. IsSequence(x) /\ IsSequence(y) /\ Lacks(x, "id") /\ Lacks(y, "id")
  <2>1. IsSequence(x) /\ \A i \in DOMAIN x : x[i].tag \in DOMAIN r.resource.properties
    BY <1>1, <1>3, VisitIsSequence DEF IsQuery
  <2>2. IsSequence(y) /\ \A i \in DOMAIN y : y[i].tag \in DOMAIN s.resource.properties
    BY <1>2, <1>3, VisitIsSequence DEF IsQuery
  <2>3. QED
    BY <2>1, <2>2 DEF Lacks, Plain
<1>6. IsSequence(idR) /\ IsSequence(idS)
  BY PresentIsSequence
<1>7. IsSequence(p) /\ IsSequence(o)
  <2> HIDE DEF idR, idS
  <2>1. QED
    BY <1>5, <1>6, Joined
<1>8. r.resource.type = s.resource.type /\ Agree(p \o <<a, e>>, c, o \o <<b, f>>, d)
  <2>1. List(r.resource.type, (p \o <<a, e>>) \o c) = List(s.resource.type, (o \o <<b, f>>) \o d)
    BY <1>1, <1>2 DEF IsQuery
  <2> HIDE DEF p, o
  <2>2. QED
    BY <2>1 DEF List, Agree
<1>9. p = o /\ a = b /\ e = f /\ c = d
  <2> HIDE DEF p, o
  <2>1. QED
    BY <1>4, <1>7, <1>8, TailIsTold
<1>10. r.resource.id = s.resource.id /\ x = y
  <2>1. Agree(Present("id", r.resource.id), x, Present("id", s.resource.id), y)
    BY <1>9 DEF Agree
  <2>2. QED
    BY <1>5, <2>1, EntryIsTold
<1>11. \A t \in {r, s} : \A map \in Maps(t) : \A v \in ValuesIn(map) : ReadsUniquely(v)
  BY DEF Plain
<1>12. r.resource.properties = s.resource.properties
  <2>1. \A v \in ValuesIn(r.resource.properties) \union ValuesIn(s.resource.properties) : ReadsUniquely(v)
    BY <1>11 DEF Maps
  <2>2. x \in Visits(r.resource.properties) /\ x \in Visits(s.resource.properties)
    BY <1>1, <1>2, <1>10 DEF IsQuery
  <2>3. QED
    BY <1>3, <2>1, <2>2, WrittenMapsAreTold
<1>13. r.action.name = s.action.name /\ r.action.properties = s.action.properties
  <2>1. \A v \in ValuesIn(r.action.properties) \union ValuesIn(s.action.properties) : ReadsUniquely(v)
    BY <1>11 DEF Maps
  <2>2. a \in Actions(r.action) /\ a \in Actions(s.action)
    BY <1>1, <1>2, <1>9 DEF IsQuery
  <2>3. QED
    BY <1>3, <2>1, <2>2, ActionIsTold
<1>14. /\ r.subject.type = s.subject.type /\ r.subject.id = s.subject.id
       /\ r.subject.properties = s.subject.properties
  <2>1. \A v \in ValuesIn(r.subject.properties) \union ValuesIn(s.subject.properties) : ReadsUniquely(v)
    BY <1>11 DEF Maps
  <2>2. /\ DOMAIN r.subject.properties \intersect {"type", "id"} = {}
        /\ DOMAIN s.subject.properties \intersect {"type", "id"} = {}
    BY DEF Plain
  <2>3. e \in Subjects(r.subject) /\ e \in Subjects(s.subject)
    BY <1>1, <1>2, <1>9 DEF IsQuery
  <2>4. QED
    BY <1>3, <2>1, <2>2, <2>3, SubjectIsTold
<1>15. r.context = s.context
  <2>1. \A v \in ValuesIn(r.context) \union ValuesIn(s.context) : ReadsUniquely(v)
    BY <1>11 DEF Maps
  <2>2. c \in Contexts(r.context) /\ c \in Contexts(s.context)
    BY <1>1, <1>2, <1>9 DEF IsQuery
  <2>3. QED
    BY <1>3, <2>1, <2>2, ContextIsTold
<1>16. r.resource = s.resource /\ r.action = s.action /\ r.subject = s.subject
  <2>1. ASSUME NEW t \in Requests
        PROVE  /\ t.resource = [type |-> t.resource.type, id |-> t.resource.id,
                                properties |-> t.resource.properties]
               /\ t.subject = [type |-> t.subject.type, id |-> t.subject.id,
                               properties |-> t.subject.properties]
               /\ t.action = [name |-> t.action.name, properties |-> t.action.properties]
    BY RequestsAreDecoded
  <2>2. QED
    BY <1>8, <1>10, <1>12, <1>13, <1>14, <2>1
<1>17. QED
  <2>1. ASSUME NEW t \in Requests
        PROVE  t = [resource |-> t.resource, action |-> t.action, subject |-> t.subject,
                    context |-> t.context]
    BY RequestsAreDecoded
  <2>2. QED
    BY <1>15, <1>16, <2>1

(* A request with one order has one query.                                 *)
LEMMA OneOrderOneVisit ==
  ASSUME NEW map, IsMap(map), FewEntries(map), NEW p \in Visits(map), NEW q \in Visits(map),
         \A k \in DOMAIN map : \A x, y \in Written(map[k]) : x = y
  PROVE  p = q
<1>1. PICK keys, parts : IsVisit(map, p, keys, parts)
  BY VisitHasEntries
<1>2. PICK others, theirs : IsVisit(map, q, others, theirs)
  BY VisitHasEntries
<1>3. DOMAIN keys = DOMAIN others /\ \A i \in DOMAIN keys : keys[i] = others[i]
  <2> DEFINE n == Cardinality(DOMAIN map)
  <2>1. /\ n \in Nat /\ DOMAIN keys = 1..n /\ DOMAIN others = 1..n
        /\ \A i \in 1..n : keys[i] \in DOMAIN map /\ others[i] \in DOMAIN map
        /\ \A k \in DOMAIN map : \E i \in 1..n : others[i] = k
    BY <1>1, <1>2 DEF IsVisit
  <2>2. n <= 1
    BY DEF FewEntries
  <2> HIDE DEF n
  <2>3. QED
    BY <2>1, <2>2
<1>4. \A i \in DOMAIN keys : parts[keys[i]] = theirs[keys[i]]
  <2>1. \A i \in DOMAIN keys : keys[i] \in DOMAIN map
    BY <1>1 DEF IsVisit
  <2>2. \A k \in DOMAIN map : parts[k] \in Written(map[k])
    BY <1>1 DEF IsVisit
  <2>3. \A k \in DOMAIN map : theirs[k] \in Written(map[k])
    BY <1>2 DEF IsVisit
  <2>4. QED
    BY <2>1, <2>2, <2>3
<1>5. QED
  BY <1>1, <1>2, <1>3, <1>4 DEF IsVisit

\* A value of which every object inside has one entry at most.
FewInside(v) == \A w \in Held(v) : w.kind = "object" => FewEntries(w.fields)

LEMMA OneOrderOneValue ==
  \A v \in Values : FewInside(v) => \A x, y \in Written(v) : x = y
<1> DEFINE T == {n \in Nat : \A v \in Values :
                   NestingOf(v) = n /\ FewInside(v) => \A x, y \in Written(v) : x = y}
<1>1. ASSUME NEW n \in Nat, \A m \in 0..(n - 1) : m \in T PROVE n \in T
  <2>1. SUFFICES ASSUME NEW v \in Values, NestingOf(v) = n, FewInside(v),
                        NEW x \in Written(v), NEW y \in Written(v)
                 PROVE  x = y
    OBVIOUS
  <2>2. CASE v.kind = "object"
    <3>1. IsMap(v.fields) /\ FewEntries(v.fields) /\ Held(v) = {v} \union ValuesIn(v.fields)
          /\ Written(v) = Visits(v.fields)
      BY <2>1, <2>2, ValuesHaveParts, ValuesOfObject DEF FewInside
    <3>2. ASSUME NEW k \in DOMAIN v.fields
          PROVE  \A a, b \in Written(v.fields[k]) : a = b
      <4> DEFINE w == v.fields[k]
      <4>1. w \in Values /\ NestingOf(w) \in Nat /\ NestingOf(w) < n
        BY <2>1, <2>2, ValuesHaveParts
      <4>2. FewInside(w)
        BY <2>1, <3>1, ValuesOfMap DEF FewInside
      <4> HIDE DEF w
      <4>3. NestingOf(w) \in 0..(n - 1)
        BY <4>1
      <4>4. NestingOf(w) \in T
        BY <1>1, <4>3
      <4>5. \A a, b \in Written(w) : a = b
        BY <4>1, <4>2, <4>4
      <4>6. QED
        BY <4>5 DEF w
    <3>3. QED
      BY <2>1, <3>1, <3>2, OneOrderOneVisit
  <2>3. CASE v.kind = "text" \/ v.kind = "array"
    BY <2>1, <2>3, ValuesAreVisited DEF PropertyParts
  <2>4. QED
    BY <2>2, <2>3, ValuesHaveParts
<1>2. \A n \in Nat : n \in T
  <2> HIDE DEF T
  <2>1. QED
    BY <1>1, Strong
<1>3. QED
  BY <1>2, ValuesHaveParts

(* A request whose maps, and the maps in them, have one entry at most is   *)
(* turned into the same query every time (authzen.go:88).                  *)
THEOREM OneOrderOneQuery ==
  ASSUME NEW r \in Requests, Settled(r)
  PROVE  \A p, q \in ToSExpression(r) : p = q
<1>1. ASSUME NEW map \in Maps(r)
      PROVE  \A x, y \in Visits(map) : x = y
  <2>1. IsMap(map) /\ HasOneOrder(map)
    BY RequestsAreDecoded DEF Settled
  <2>2. FewEntries(map)
    BY <2>1 DEF HasOneOrder
  <2>3. ASSUME NEW k \in DOMAIN map PROVE \A x, y \in Written(map[k]) : x = y
    <3>1. map[k] \in Values /\ Held(map[k]) \subseteq ValuesIn(map)
      BY <2>1, ValuesOfMap
    <3>2. FewInside(map[k])
      BY <2>1, <3>1 DEF HasOneOrder, FewInside
    <3>3. QED
      BY <3>1, <3>2, OneOrderOneValue
  <2>4. QED
    BY <2>1, <2>2, <2>3, OneOrderOneVisit
<1>2. /\ \A x, y \in Visits(r.resource.properties) : x = y
      /\ \A x, y \in Visits(r.action.properties) : x = y
      /\ \A x, y \in Visits(r.subject.properties) : x = y
      /\ \A x, y \in Visits(r.context) : x = y
  BY <1>1 DEF Maps
<1>3. \A x, y \in Actions(r.action) : x = y
  BY <1>2 DEF Actions
<1>4. \A x, y \in Subjects(r.subject) : x = y
  BY <1>2 DEF Subjects
<1>5. \A x, y \in Contexts(r.context) : x = y
  BY <1>2 DEF Contexts
<1>6. ASSUME NEW p \in ToSExpression(r), NEW q \in ToSExpression(r) PROVE p = q
  <2>1. PICK x \in Visits(r.resource.properties), a \in Actions(r.action),
             e \in Subjects(r.subject), c \in Contexts(r.context) :
          p = List(r.resource.type, Present("id", r.resource.id) \o x \o <<a, e>> \o c)
    BY <1>6 DEF ToSExpression
  <2>2. PICK y \in Visits(r.resource.properties), b \in Actions(r.action),
             f \in Subjects(r.subject), d \in Contexts(r.context) :
          q = List(r.resource.type, Present("id", r.resource.id) \o y \o <<b, f>> \o d)
    BY <1>6 DEF ToSExpression
  <2>3. x = y /\ a = b /\ e = f /\ c = d
    BY <1>2, <1>3, <1>4, <1>5
  <2>4. QED
    BY <2>1, <2>2, <2>3
<1>7. QED
  BY <1>6

-----------------------------------------------------------------------------
(***************************************************************************)
(* The server.                                                             *)
(***************************************************************************)
Asked == {"asking", "decided", "counting", "answering"}
Stages == Asked \union {"idle", "rejecting", "reporting"}

TypeInv ==
  /\ mode \in {"none", "alone", "shared", "failed"}
  /\ serving \in {"none", "starting", "listening", "ended"}
  /\ closing \in {"no", "shutdown", "wait", "nil", "error"}
  /\ handler = [h \in Handler |-> handler[h]]
  /\ metrics \in [Field -> Nat] /\ answered \in [Field -> Nat] /\ arrivals \in Nat
  /\ \A h \in Handler :
       /\ handler[h].at \in Stages
       /\ handler[h].at = "idle" => handler[h] = Idle
       /\ handler[h].at \in Asked \ {"asking"} => handler[h].decision \in BOOLEAN

(* Until the server listens there is nobody to answer; a Close that has    *)
(* gone beyond Shutdown has seen that nobody is left.                      *)
LifeInv ==
  /\ mode \in {"none", "failed"} => serving = "none"
  /\ serving \in {"none", "starting"} => Busy = {} /\ granted = {}
  /\ closing \in {"wait", "nil"} => Busy = {}
  /\ closing = "nil" => serving \in {"none", "ended"}

-----------------------------------------------------------------------------
LEMMA StagesDiffer ==
  ASSUME TypeInv, NEW h \in Handler
  PROVE  handler[h] = Idle <=> handler[h].at = "idle"
BY DEF TypeInv, Idle

LEMMA TypeInit == Init => TypeInv
BY DEF Init, TypeInv, Nothing, Idle, Stages, Asked

LEMMA CountKeepsType ==
  ASSUME TypeInv, NEW field \in Field
  PROVE  /\ Add(metrics, field) \in [Field -> Nat] /\ Add(answered, field) \in [Field -> Nat]
         /\ \A other \in Field :
              /\ Add(metrics, field)[other] =
                   IF other = field THEN metrics[other] + 1 ELSE metrics[other]
              /\ Add(answered, field)[other] =
                   IF other = field THEN answered[other] + 1 ELSE answered[other]
BY DEF TypeInv, Add

LEMMA TypeStep == TypeInv /\ [Next]_vars => TypeInv'
<1> SUFFICES ASSUME TypeInv, [Next]_vars PROVE TypeInv'
  OBVIOUS
<1> USE DEF TypeInv, engineVars, serverVars, historyVars, Stages, Asked
<1>1. CASE NewShared \/ NewAlone \/ AddRule
  BY <1>1 DEF NewShared, NewAlone, AddRule
<1>2. CASE Start \/ Listen \/ ServeEnds
  BY <1>2 DEF Start, Listen, ServeEnds
<1>3. CASE Close \/ ShutdownEnds \/ ShutdownTimesOut \/ CloseEnds
  BY <1>3 DEF Close, ShutdownEnds, ShutdownTimesOut, CloseEnds
<1>4. ASSUME NEW h \in Handler, Evaluate(h) PROVE TypeInv'
  BY <1>4 DEF Evaluate, Accept
<1>5. ASSUME NEW h \in Handler, Query(h) PROVE TypeInv'
  BY <1>5 DEF Query, Decided, Granted
<1>6. ASSUME NEW h \in Handler, CountTotal(h) PROVE TypeInv'
  BY <1>6, CountKeepsType DEF CountTotal, Count, Become, Decided, Field
<1>7. ASSUME NEW h \in Handler, CountDecision(h) PROVE TypeInv'
  BY <1>7, CountKeepsType DEF CountDecision, Count, Become, Decided, Field
<1>8. ASSUME NEW h \in Handler, Answer(h) PROVE TypeInv'
  BY <1>8 DEF Answer, Add, Field, Idle
<1>9. ASSUME NEW h \in Handler, BadRequest(h) PROVE TypeInv'
  BY <1>9, CountKeepsType DEF BadRequest, Accept, Count, Field
<1>10. ASSUME NEW h \in Handler, Reject(h) \/ AnswerFails(h) PROVE TypeInv'
  BY <1>10, CountKeepsType DEF Reject, AnswerFails, Field, Idle
<1>11. ASSUME NEW h \in Handler, BeginReport(h) PROVE TypeInv'
  BY <1>11 DEF BeginReport, Accept
<1>12. ASSUME NEW h \in Handler, LoadCounter(h) \/ Report(h) PROVE TypeInv'
  BY <1>12 DEF LoadCounter, Report, Idle
<1>13. CASE UNCHANGED vars
  BY <1>13 DEF vars
<1>14. QED
  BY <1>1, <1>2, <1>3, <1>4, <1>5, <1>6, <1>7, <1>8, <1>9, <1>10, <1>11, <1>12, <1>13 DEF Next

-----------------------------------------------------------------------------
(* Whoever is at work, or is given work, is so while the server listens    *)
(* and Shutdown waits.                                                     *)
LEMMA WorkingKeepsLife ==
  ASSUME TypeInv, LifeInv, NEW h \in Handler,
         \/ handler[h].at # "idle"
         \/ serving = "listening" /\ closing = "no",
         UNCHANGED <<mode, serverVars>>
  PROVE  LifeInv'
<1>1. serving \notin {"none", "starting"} /\ closing \notin {"wait", "nil"}
  BY StagesDiffer DEF LifeInv, Busy
<1>2. QED
  BY <1>1 DEF LifeInv, serverVars

LEMMA LifeStep == TypeInv /\ LifeInv /\ [Next]_vars => LifeInv'
<1> SUFFICES ASSUME TypeInv, LifeInv, [Next]_vars PROVE LifeInv'
  OBVIOUS
<1> USE DEF engineVars, serverVars, historyVars
<1>1. CASE NewShared \/ NewAlone \/ AddRule
  BY <1>1 DEF NewShared, NewAlone, AddRule, LifeInv, Busy
<1>2. CASE Start \/ Listen \/ ServeEnds
  BY <1>2 DEF Start, Listen, ServeEnds, LifeInv, Busy
<1>3. CASE Close \/ ShutdownEnds \/ ShutdownTimesOut \/ CloseEnds
  BY <1>3 DEF Close, ShutdownEnds, ShutdownTimesOut, CloseEnds, LifeInv, Busy
<1>4. ASSUME NEW h \in Handler, Evaluate(h) \/ BadRequest(h) \/ BeginReport(h) PROVE LifeInv'
  BY <1>4, WorkingKeepsLife DEF Evaluate, BadRequest, BeginReport, Accept
<1>5. ASSUME NEW h \in Handler,
             Query(h) \/ CountTotal(h) \/ CountDecision(h) \/ Answer(h) \/ Reject(h)
      PROVE  LifeInv'
  BY <1>5, WorkingKeepsLife DEF Query, CountTotal, CountDecision, Answer, Reject
<1>6. ASSUME NEW h \in Handler, AnswerFails(h) \/ LoadCounter(h) \/ Report(h) PROVE LifeInv'
  BY <1>6, WorkingKeepsLife DEF AnswerFails, LoadCounter, Report
<1>7. CASE UNCHANGED vars
  BY <1>7 DEF vars, LifeInv, Busy
<1>8. QED
  BY <1>1, <1>2, <1>3, <1>4, <1>5, <1>6, <1>7 DEF Next

LEMMA LifeInvariant == Spec => [](TypeInv /\ LifeInv)
<1>1. Init => LifeInv
  BY DEF Init, LifeInv, Busy
<1>2. QED
  BY <1>1, TypeInit, TypeStep, LifeStep, PTL DEF Spec

(* A Close that returns nil has seen the last handler go and the goroutine *)
(* of Start end, and no request comes in afterwards (httpserver.go:271).   *)
THEOREM CloseIsQuiet == Spec => []CloseMeansQuiet
<1>1. LifeInv => CloseMeansQuiet
  BY DEF LifeInv, CloseMeansQuiet, Quiet
<1>2. QED
  BY <1>1, LifeInvariant, PTL

-----------------------------------------------------------------------------
(***************************************************************************)
(* Counters.  An answer is given after it has been counted, and a request  *)
(* is counted once.                                                        *)
(***************************************************************************)
At(stages) == {h \in Handler : handler[h].at \in stages}

Totalled  == At({"counting", "answering"})
Undecided == At({"asking", "decided", "counting"})
Rejecting == At({"rejecting"})
Granting  == {h \in Handler : handler[h].at = "answering" /\ handler[h].decision}
Denying   == {h \in Handler : handler[h].at = "answering" /\ ~handler[h].decision}

CountInv ==
  /\ answered["total"] + Cardinality(Totalled) <= metrics["total"]
  /\ answered["ok"] + Cardinality(Granting) <= metrics["ok"]
  /\ answered["deny"] + Cardinality(Denying) <= metrics["deny"]
  /\ answered["errors"] + Cardinality(Rejecting) <= metrics["errors"]
  /\ metrics["ok"] + metrics["deny"] + metrics["errors"] + Cardinality(Undecided) = arrivals

\* The same for a handler in that state.
Total(state)    == state.at \in {"counting", "answering"}
Open(state)     == state.at \in {"asking", "decided", "counting"}
Rejected(state) == state.at = "rejecting"
Grants(state)   == state.at = "answering" /\ state.decision
Denies(state)   == state.at = "answering" /\ ~state.decision

Bit(b) == IF b THEN 1 ELSE 0

LEMMA HandlersAreFinite ==
  \A S \in {Totalled, Undecided, Rejecting, Granting, Denying} :
    IsFiniteSet(S) /\ Cardinality(S) \in Nat
<1>1. \A S \in SUBSET Handler : IsFiniteSet(S) /\ Cardinality(S) \in Nat
  BY HandlerIsFinite, FS_Subset, FS_CardinalityType
<1>2. \A S \in {Totalled, Undecided, Rejecting, Granting, Denying} : S \in SUBSET Handler
  BY DEF Totalled, Undecided, Rejecting, Granting, Denying, At
<1>3. QED
  BY <1>1, <1>2

(* A set of handlers that one handler enters or leaves.                    *)
LEMMA OneMoves ==
  ASSUME NEW S, NEW T, IsFiniteSet(S), NEW h,
         T \ {h} = S \ {h}
  PROVE  Cardinality(T) = Cardinality(S) + Bit(h \in T) - Bit(h \in S)
<1>1. /\ IsFiniteSet(S \ {h}) /\ Cardinality(S) \in Nat
      /\ Cardinality(S \ {h}) = Cardinality(S) - Bit(h \in S)
  BY FS_RemoveElement, FS_CardinalityType DEF Bit
<1>2. CASE h \in T
  <2>1. T = (S \ {h}) \union {h}
    BY <1>2
  <2>2. Cardinality((S \ {h}) \union {h}) = Cardinality(S \ {h}) + 1
    BY <1>1, FS_AddElement
  <2>3. Cardinality(T) = Cardinality(S \ {h}) + 1
    BY <2>1, <2>2
  <2>4. QED
    BY <1>1, <1>2, <2>3 DEF Bit
<1>3. CASE h \notin T
  <2>1. T = S \ {h}
    BY <1>3
  <2>2. QED
    BY <1>1, <1>3, <2>1 DEF Bit
<1>4. QED
  BY <1>2, <1>3

LEMMA HandlerMoves ==
  ASSUME TypeInv, NEW h \in Handler, NEW state, handler' = [handler EXCEPT ![h] = state]
  PROVE  /\ Cardinality(Totalled') = Cardinality(Totalled) + Bit(Total(state)) - Bit(Total(handler[h]))
         /\ Cardinality(Undecided') = Cardinality(Undecided) + Bit(Open(state)) - Bit(Open(handler[h]))
         /\ Cardinality(Rejecting') = Cardinality(Rejecting) + Bit(Rejected(state)) - Bit(Rejected(handler[h]))
         /\ Cardinality(Granting') = Cardinality(Granting) + Bit(Grants(state)) - Bit(Grants(handler[h]))
         /\ Cardinality(Denying') = Cardinality(Denying) + Bit(Denies(state)) - Bit(Denies(handler[h]))
<1>1. handler'[h] = state /\ \A g \in Handler \ {h} : handler'[g] = handler[g]
  BY DEF TypeInv
<1>2. Cardinality(Totalled') = Cardinality(Totalled) + Bit(Total(state)) - Bit(Total(handler[h]))
  <2>1. /\ Totalled' \ {h} = Totalled \ {h}
        /\ h \in Totalled' <=> Total(state)
        /\ h \in Totalled <=> Total(handler[h])
    BY <1>1 DEF Totalled, Total, At
  <2>2. Cardinality(Totalled') = Cardinality(Totalled) + Bit(h \in Totalled') - Bit(h \in Totalled)
    BY <2>1, HandlersAreFinite, OneMoves
  <2>3. QED
    BY <2>1, <2>2 DEF Bit
<1>3. Cardinality(Undecided') = Cardinality(Undecided) + Bit(Open(state)) - Bit(Open(handler[h]))
  <2>1. /\ Undecided' \ {h} = Undecided \ {h}
        /\ h \in Undecided' <=> Open(state)
        /\ h \in Undecided <=> Open(handler[h])
    BY <1>1 DEF Undecided, Open, At
  <2>2. Cardinality(Undecided') = Cardinality(Undecided) + Bit(h \in Undecided') - Bit(h \in Undecided)
    BY <2>1, HandlersAreFinite, OneMoves
  <2>3. QED
    BY <2>1, <2>2 DEF Bit
<1>4. Cardinality(Rejecting') = Cardinality(Rejecting) + Bit(Rejected(state)) - Bit(Rejected(handler[h]))
  <2>1. /\ Rejecting' \ {h} = Rejecting \ {h}
        /\ h \in Rejecting' <=> Rejected(state)
        /\ h \in Rejecting <=> Rejected(handler[h])
    BY <1>1 DEF Rejecting, Rejected, At
  <2>2. Cardinality(Rejecting') = Cardinality(Rejecting) + Bit(h \in Rejecting') - Bit(h \in Rejecting)
    BY <2>1, HandlersAreFinite, OneMoves
  <2>3. QED
    BY <2>1, <2>2 DEF Bit
<1>5. Cardinality(Granting') = Cardinality(Granting) + Bit(Grants(state)) - Bit(Grants(handler[h]))
  <2>1. /\ Granting' \ {h} = Granting \ {h}
        /\ h \in Granting' <=> Grants(state)
        /\ h \in Granting <=> Grants(handler[h])
    BY <1>1 DEF Granting, Grants
  <2>2. Cardinality(Granting') = Cardinality(Granting) + Bit(h \in Granting') - Bit(h \in Granting)
    BY <2>1, HandlersAreFinite, OneMoves
  <2>3. QED
    BY <2>1, <2>2 DEF Bit
<1>6. Cardinality(Denying') = Cardinality(Denying) + Bit(Denies(state)) - Bit(Denies(handler[h]))
  <2>1. /\ Denying' \ {h} = Denying \ {h}
        /\ h \in Denying' <=> Denies(state)
        /\ h \in Denying <=> Denies(handler[h])
    BY <1>1 DEF Denying, Denies
  <2>2. Cardinality(Denying') = Cardinality(Denying) + Bit(h \in Denying') - Bit(h \in Denying)
    BY <2>1, HandlersAreFinite, OneMoves
  <2>3. QED
    BY <2>1, <2>2 DEF Bit
<1>7. QED
  BY <1>2, <1>3, <1>4, <1>5, <1>6

-----------------------------------------------------------------------------
LEMMA SameCounts ==
  ASSUME CountInv, UNCHANGED <<handler, metrics, arrivals, answered>>
  PROVE  CountInv'
BY DEF CountInv, Totalled, Undecided, Rejecting, Granting, Denying, At

\* What a step adds to a counter, and to the answers that it counts.
Counted(field)  == metrics'[field] - metrics[field]
Replied(field)  == answered'[field] - answered[field]
Enters(is, was) == Bit(is) - Bit(was)

\* What has to be counted when a handler goes from one state to another.
Balanced(was, is) ==
  /\ Replied("total") + Enters(Total(is), Total(was)) <= Counted("total")
  /\ Replied("ok") + Enters(Grants(is), Grants(was)) <= Counted("ok")
  /\ Replied("deny") + Enters(Denies(is), Denies(was)) <= Counted("deny")
  /\ Replied("errors") + Enters(Rejected(is), Rejected(was)) <= Counted("errors")
  /\ Counted("ok") + Counted("deny") + Counted("errors") + Enters(Open(is), Open(was))
       = arrivals' - arrivals

LEMMA CountsMove ==
  ASSUME TypeInv, TypeInv', CountInv, NEW h \in Handler, NEW state,
         handler' = [handler EXCEPT ![h] = state], Balanced(handler[h], state)
  PROVE  CountInv'
<1>1. \A f \in Field : /\ metrics[f] \in Nat /\ metrics'[f] \in Nat
                       /\ answered[f] \in Nat /\ answered'[f] \in Nat
  BY DEF TypeInv
<1>2. arrivals \in Nat /\ arrivals' \in Nat
  BY DEF TypeInv
<1>3. /\ Bit(Total(state)) \in Nat /\ Bit(Total(handler[h])) \in Nat
      /\ Bit(Open(state)) \in Nat /\ Bit(Open(handler[h])) \in Nat
      /\ Bit(Rejected(state)) \in Nat /\ Bit(Rejected(handler[h])) \in Nat
      /\ Bit(Grants(state)) \in Nat /\ Bit(Grants(handler[h])) \in Nat
      /\ Bit(Denies(state)) \in Nat /\ Bit(Denies(handler[h])) \in Nat
  BY DEF Bit
<1>4. /\ Cardinality(Totalled') = Cardinality(Totalled) + Bit(Total(state)) - Bit(Total(handler[h]))
      /\ Cardinality(Undecided') = Cardinality(Undecided) + Bit(Open(state)) - Bit(Open(handler[h]))
      /\ Cardinality(Rejecting') = Cardinality(Rejecting) + Bit(Rejected(state)) - Bit(Rejected(handler[h]))
      /\ Cardinality(Granting') = Cardinality(Granting) + Bit(Grants(state)) - Bit(Grants(handler[h]))
      /\ Cardinality(Denying') = Cardinality(Denying) + Bit(Denies(state)) - Bit(Denies(handler[h]))
  BY HandlerMoves
<1>5. answered'["total"] + Cardinality(Totalled') <= metrics'["total"]
  BY <1>1, <1>3, <1>4, HandlersAreFinite
  DEF CountInv, Balanced, Counted, Replied, Enters, Field
<1>6. answered'["ok"] + Cardinality(Granting') <= metrics'["ok"]
  BY <1>1, <1>3, <1>4, HandlersAreFinite
  DEF CountInv, Balanced, Counted, Replied, Enters, Field
<1>7. answered'["deny"] + Cardinality(Denying') <= metrics'["deny"]
  BY <1>1, <1>3, <1>4, HandlersAreFinite
  DEF CountInv, Balanced, Counted, Replied, Enters, Field
<1>8. answered'["errors"] + Cardinality(Rejecting') <= metrics'["errors"]
  BY <1>1, <1>3, <1>4, HandlersAreFinite
  DEF CountInv, Balanced, Counted, Replied, Enters, Field
<1>9. metrics'["ok"] + metrics'["deny"] + metrics'["errors"] + Cardinality(Undecided') = arrivals'
  <2>1. Cardinality(Undecided) \in Nat
    BY HandlersAreFinite
  <2>2. /\ metrics["ok"] \in Nat /\ metrics["deny"] \in Nat /\ metrics["errors"] \in Nat
        /\ metrics'["ok"] \in Nat /\ metrics'["deny"] \in Nat /\ metrics'["errors"] \in Nat
    BY <1>1 DEF Field
  <2>3. (metrics'["ok"] - metrics["ok"]) + (metrics'["deny"] - metrics["deny"])
          + (metrics'["errors"] - metrics["errors"])
          + (Bit(Open(state)) - Bit(Open(handler[h]))) = arrivals' - arrivals
    BY DEF Balanced, Counted, Enters
  <2>4. metrics["ok"] + metrics["deny"] + metrics["errors"] + Cardinality(Undecided) = arrivals
    BY DEF CountInv
  <2>5. QED
    BY <1>2, <1>3, <1>4, <2>1, <2>2, <2>3, <2>4
<1>10. QED
  BY <1>5, <1>6, <1>7, <1>8, <1>9 DEF CountInv

LEMMA CountStep == TypeInv /\ CountInv /\ [Next]_vars => CountInv'
<1> SUFFICES ASSUME TypeInv, CountInv, [Next]_vars PROVE CountInv'
  OBVIOUS
<1> TypeInv'
  BY TypeStep
<1> USE DEF engineVars, serverVars, historyVars
<1>0. /\ \A f \in Field : metrics[f] \in Nat /\ answered[f] \in Nat
      /\ arrivals \in Nat
  BY DEF TypeInv
<1>1. CASE NewShared \/ NewAlone \/ AddRule
  BY <1>1, SameCounts DEF NewShared, NewAlone, AddRule
<1>2. CASE Start \/ Listen \/ ServeEnds
  BY <1>2, SameCounts DEF Start, Listen, ServeEnds
<1>3. CASE Close \/ ShutdownEnds \/ ShutdownTimesOut \/ CloseEnds
  BY <1>3, SameCounts DEF Close, ShutdownEnds, ShutdownTimesOut, CloseEnds
<1>4. ASSUME NEW h \in Handler, NEW state, Accept(h, state),
             state.at \in {"asking", "reporting", "rejecting"},
             answered' = answered,
             metrics' = IF state.at = "rejecting" THEN Add(metrics, "errors") ELSE metrics,
             arrivals' = IF state.at = "reporting" THEN arrivals ELSE arrivals + 1
      PROVE  CountInv'
  <2>1. /\ handler' = [handler EXCEPT ![h] = state] /\ handler[h].at = "idle"
    BY <1>4 DEF Accept, Idle
  <2>2. \A f \in Field : metrics'[f] =
          IF f = "errors" /\ state.at = "rejecting" THEN metrics[f] + 1 ELSE metrics[f]
    BY <1>4, CountKeepsType DEF Field
  <2>3. Balanced(handler[h], state)
    BY <1>0, <1>4, <2>1, <2>2
    DEF Balanced, Counted, Replied, Enters, Bit, Total, Open, Rejected, Grants, Denies,
    Field
  <2>4. QED
    BY <2>1, <2>3, CountsMove
<1>5. ASSUME NEW h \in Handler, Evaluate(h) PROVE CountInv'
  <2>1. PICK state : state.at = "asking" /\ Accept(h, state)
    BY <1>5 DEF Evaluate
  <2>2. QED
    BY <1>4, <1>5, <2>1 DEF Evaluate
<1>6. ASSUME NEW h \in Handler, BadRequest(h) \/ BeginReport(h) PROVE CountInv'
  BY <1>4, <1>6 DEF BadRequest, BeginReport, Count
<1>7. ASSUME NEW h \in Handler, Query(h) PROVE CountInv'
  <2> DEFINE state == Decided("decided", handler[h], Granted(handler[h].query))
  <2>1. /\ handler' = [handler EXCEPT ![h] = state]
        /\ handler[h].at = "asking" /\ UNCHANGED <<metrics, answered, arrivals>>
    BY <1>7 DEF Query
  <2>2. state.at = "decided"
    BY DEF Decided
  <2> HIDE DEF state
  <2>3. Balanced(handler[h], state)
    BY <1>0, <2>1, <2>2
    DEF Balanced, Counted, Replied, Enters, Bit, Total, Open, Rejected, Grants, Denies,
    Field
  <2>4. QED
    BY <2>1, <2>3, CountsMove
<1>8. ASSUME NEW h \in Handler, CountTotal(h) PROVE CountInv'
  <2> DEFINE state == Decided("counting", handler[h], handler[h].decision)
  <2>1. /\ handler' = [handler EXCEPT ![h] = state]
        /\ handler[h].at = "decided" /\ metrics' = Add(metrics, "total")
        /\ UNCHANGED <<answered, arrivals>>
    BY <1>8 DEF CountTotal, Count, Become
  <2>2. \A f \in Field : metrics'[f] = IF f = "total" THEN metrics[f] + 1 ELSE metrics[f]
    BY <2>1, CountKeepsType DEF Field
  <2>3. state.at = "counting"
    BY DEF Decided
  <2> HIDE DEF state
  <2>4. Balanced(handler[h], state)
    BY <1>0, <2>1, <2>2, <2>3
    DEF Balanced, Counted, Replied, Enters, Bit, Total, Open, Rejected, Grants, Denies,
    Field
  <2>5. QED
    BY <2>1, <2>4, CountsMove
<1>9. ASSUME NEW h \in Handler, CountDecision(h) PROVE CountInv'
  <2> DEFINE state == Decided("answering", handler[h], handler[h].decision)
             field == IF handler[h].decision THEN "ok" ELSE "deny"
  <2>1. /\ handler' = [handler EXCEPT ![h] = state]
        /\ handler[h].at = "counting" /\ handler[h].decision \in BOOLEAN
        /\ metrics' = Add(metrics, field) /\ UNCHANGED <<answered, arrivals>>
    BY <1>9, StagesDiffer DEF CountDecision, Count, Become, TypeInv, Asked
  <2>2. \A f \in Field : metrics'[f] = IF f = field THEN metrics[f] + 1 ELSE metrics[f]
    BY <2>1, CountKeepsType DEF Field
  <2>3. state.at = "answering" /\ state.decision = handler[h].decision
    BY DEF Decided
  <2> HIDE DEF state
  <2>4. Balanced(handler[h], state)
    BY <1>0, <2>1, <2>2, <2>3
    DEF Balanced, Counted, Replied, Enters, Bit, Total, Open, Rejected, Grants, Denies,
    Field
  <2>5. QED
    BY <2>1, <2>4, CountsMove
<1>10. ASSUME NEW h \in Handler, Answer(h) PROVE CountInv'
  <2> DEFINE field == IF handler[h].decision THEN "ok" ELSE "deny"
  <2>1. /\ handler' = [handler EXCEPT ![h] = Idle]
        /\ handler[h].at = "answering" /\ handler[h].decision \in BOOLEAN
        /\ answered' = Add(Add(answered, "total"), field) /\ UNCHANGED <<metrics, arrivals>>
    BY <1>10 DEF Answer, TypeInv, Asked
  <2>2. \A f \in Field :
          answered'[f] = IF f \in {"total", field} THEN answered[f] + 1 ELSE answered[f]
    BY <2>1 DEF Add, TypeInv, Field
  <2>3. Idle.at = "idle"
    BY DEF Idle
  <2>4. Balanced(handler[h], Idle)
    BY <1>0, <2>1, <2>2, <2>3
    DEF Balanced, Counted, Replied, Enters, Bit, Total, Open, Rejected, Grants, Denies,
    Field
  <2>5. QED
    BY <2>1, <2>4, CountsMove
<1>11. ASSUME NEW h \in Handler, Reject(h) PROVE CountInv'
  <2>1. /\ handler' = [handler EXCEPT ![h] = Idle] /\ handler[h].at = "rejecting"
        /\ answered' = Add(answered, "errors") /\ UNCHANGED <<metrics, arrivals>>
    BY <1>11 DEF Reject
  <2>2. \A f \in Field : answered'[f] = IF f = "errors" THEN answered[f] + 1 ELSE answered[f]
    BY <2>1, CountKeepsType DEF Field
  <2>3. Idle.at = "idle"
    BY DEF Idle
  <2>4. Balanced(handler[h], Idle)
    BY <1>0, <2>1, <2>2, <2>3
    DEF Balanced, Counted, Replied, Enters, Bit, Total, Open, Rejected, Grants, Denies,
    Field
  <2>5. QED
    BY <2>1, <2>4, CountsMove
<1>12. ASSUME NEW h \in Handler, NEW state, handler' = [handler EXCEPT ![h] = state],
              \/ handler[h].at \in {"answering", "rejecting", "reporting"} /\ state.at = "idle"
              \/ handler[h].at = "reporting" /\ state.at = "reporting",
              UNCHANGED <<metrics, answered, arrivals>>
       PROVE  CountInv'
  <2>1. Balanced(handler[h], state)
    BY <1>0, <1>12
    DEF Balanced, Counted, Replied, Enters, Bit, Total, Open, Rejected, Grants, Denies,
    Field
  <2>2. QED
    BY <1>12, <2>1, CountsMove
<1>13. ASSUME NEW h \in Handler, AnswerFails(h) \/ LoadCounter(h) \/ Report(h) PROVE CountInv'
  BY <1>12, <1>13 DEF AnswerFails, LoadCounter, Report, Idle
<1>14. CASE UNCHANGED vars
  BY <1>14, SameCounts DEF vars
<1>15. QED
  BY <1>1, <1>2, <1>3, <1>5, <1>6, <1>7, <1>8, <1>9, <1>10, <1>11, <1>13, <1>14 DEF Next

-----------------------------------------------------------------------------
(***************************************************************************)
(* Reports.  Counters only grow, which is why loading them one after the   *)
(* other does no harm.                                                     *)
(***************************************************************************)
LEMMA CountersGrow ==
  ASSUME TypeInv, [Next]_vars
  PROVE  \A f \in Field : metrics[f] <= metrics'[f] /\ answered[f] <= answered'[f]
<1>0. \A f \in Field : metrics[f] \in Nat /\ answered[f] \in Nat
  BY DEF TypeInv
<1> USE DEF engineVars, serverVars, historyVars
<1>1. ASSUME UNCHANGED <<metrics, answered>>
      PROVE  \A f \in Field : metrics[f] <= metrics'[f] /\ answered[f] <= answered'[f]
  BY <1>0, <1>1
<1>2. ASSUME NEW field \in Field, Count(field), UNCHANGED answered
      PROVE  \A f \in Field : metrics[f] <= metrics'[f] /\ answered[f] <= answered'[f]
  BY <1>0, <1>2, CountKeepsType DEF Count
<1>3. ASSUME NEW h \in Handler, Answer(h) \/ Reject(h)
      PROVE  \A f \in Field : metrics[f] <= metrics'[f] /\ answered[f] <= answered'[f]
  BY <1>0, <1>3 DEF Answer, Reject, Add, TypeInv
<1>4. CASE \/ NewShared \/ NewAlone \/ AddRule \/ Start \/ Listen \/ ServeEnds
           \/ Close \/ ShutdownEnds \/ ShutdownTimesOut \/ CloseEnds
  BY <1>1, <1>4 DEF NewShared, NewAlone, AddRule, Start, Listen, ServeEnds, Close,
                    ShutdownEnds, ShutdownTimesOut, CloseEnds
<1>5. ASSUME NEW h \in Handler, BadRequest(h) \/ CountTotal(h) \/ CountDecision(h)
      PROVE  \A f \in Field : metrics[f] <= metrics'[f] /\ answered[f] <= answered'[f]
  BY <1>2, <1>5 DEF BadRequest, CountTotal, CountDecision, Field
<1>6. ASSUME NEW h \in Handler,
             \/ Evaluate(h) \/ Query(h) \/ AnswerFails(h)
             \/ BeginReport(h) \/ LoadCounter(h) \/ Report(h)
      PROVE  \A f \in Field : metrics[f] <= metrics'[f] /\ answered[f] <= answered'[f]
  BY <1>1, <1>6 DEF Evaluate, Query, AnswerFails, BeginReport, LoadCounter, Report
<1>7. CASE UNCHANGED vars
  BY <1>1, <1>7 DEF vars
<1>8. QED
  BY <1>3, <1>4, <1>5, <1>6, <1>7 DEF Next

\* What a report says so far, of the answers it must and the requests it may count.
Sound(state) ==
  /\ state.since \in [Field -> Nat] /\ state.loaded \in Seq(Nat)
  /\ Len(state.loaded) <= 4
  /\ \A f \in Field : state.since[f] <= answered[f]
  /\ \A i \in DOMAIN state.loaded :
       /\ state.since[Counters[i]] <= state.loaded[i]
       /\ state.loaded[i] <= metrics[Counters[i]]

ReportInv == \A h \in Handler : handler[h].at = "reporting" => Sound(handler[h])

LEMMA CountersAreFields == /\ Len(Counters) = 4 /\ DOMAIN Counters = 1..4
                           /\ \A i \in 1..4 : Counters[i] \in Field
BY DEF Counters, Field

LEMMA LoadedCounters ==
  ASSUME NEW loaded \in Seq(Nat), Len(loaded) <= 4
  PROVE  /\ DOMAIN loaded = 1..Len(loaded) /\ Len(loaded) \in Nat
         /\ \A i \in DOMAIN loaded : Counters[i] \in Field /\ loaded[i] \in Nat
<1>1. DOMAIN loaded = 1..Len(loaded) /\ Len(loaded) \in Nat
  OBVIOUS
<1>2. \A i \in 1..Len(loaded) : loaded[i] \in Nat
  OBVIOUS
<1>3. \A n \in Nat : n <= 4 => \A i \in 1..n : i \in 1..4
  OBVIOUS
<1>4. QED
  BY <1>1, <1>2, <1>3, CountersAreFields

LEMMA StaysSound ==
  ASSUME TypeInv, TypeInv', [Next]_vars, NEW state, Sound(state)
  PROVE  Sound(state)'
<1>1. \A f \in Field : /\ metrics[f] \in Nat /\ metrics'[f] \in Nat
                       /\ answered[f] \in Nat /\ answered'[f] \in Nat
                       /\ metrics[f] <= metrics'[f] /\ answered[f] <= answered'[f]
  BY CountersGrow DEF TypeInv
<1>2. \A i \in DOMAIN state.loaded : Counters[i] \in Field /\ state.loaded[i] \in Nat
  BY LoadedCounters DEF Sound
<1>3. \A f \in Field : state.since[f] \in Nat
  BY DEF Sound
<1>4. \A f \in Field : state.since[f] <= answered'[f]
  BY <1>1, <1>3 DEF Sound
<1>5. \A i \in DOMAIN state.loaded : state.loaded[i] <= metrics'[Counters[i]]
  BY SMTT(30), <1>1, <1>2 DEF Sound
<1>6. QED
  BY <1>4, <1>5 DEF Sound

LEMMA ReportStep == TypeInv /\ CountInv /\ ReportInv /\ [Next]_vars => ReportInv'
<1> SUFFICES ASSUME TypeInv, CountInv, ReportInv, [Next]_vars,
                    NEW g \in Handler, handler'[g].at = "reporting"
             PROVE  Sound(handler[g])'
  BY DEF ReportInv
<1> TypeInv'
  BY TypeStep
<1> USE DEF engineVars, serverVars, historyVars
<1>1. ASSUME handler'[g] = handler[g] PROVE Sound(handler[g])'
  <2>1. Sound(handler[g])
    BY <1>1 DEF ReportInv
  <2>2. QED
    BY <1>1, <2>1, StaysSound
<1>2. CASE \/ NewShared \/ NewAlone \/ AddRule \/ Start \/ Listen \/ ServeEnds
           \/ Close \/ ShutdownEnds \/ ShutdownTimesOut \/ CloseEnds
  BY <1>1, <1>2 DEF NewShared, NewAlone, AddRule, Start, Listen, ServeEnds, Close,
                    ShutdownEnds, ShutdownTimesOut, CloseEnds
<1>3. ASSUME NEW h \in Handler, NEW state, handler' = [handler EXCEPT ![h] = state],
             state.at # "reporting"
      PROVE  Sound(handler[g])'
  BY <1>1, <1>3 DEF TypeInv
<1>4. ASSUME NEW h \in Handler, Evaluate(h) \/ BadRequest(h) PROVE Sound(handler[g])'
  <2>1. PICK state : state.at # "reporting" /\ Accept(h, state)
    BY <1>4 DEF Evaluate, BadRequest
  <2>2. QED
    BY <1>3, <2>1 DEF Accept
<1>5. ASSUME NEW h \in Handler, Query(h) \/ CountTotal(h) \/ CountDecision(h)
      PROVE  Sound(handler[g])'
  <2>1. PICK state : state.at # "reporting" /\ handler' = [handler EXCEPT ![h] = state]
    BY <1>5 DEF Query, CountTotal, CountDecision, Become, Decided
  <2>2. QED
    BY <1>3, <2>1
<1>6. ASSUME NEW h \in Handler, Answer(h) \/ Reject(h) \/ AnswerFails(h) \/ Report(h)
      PROVE  Sound(handler[g])'
  <2>1. handler' = [handler EXCEPT ![h] = Idle] /\ Idle.at = "idle"
    BY <1>6 DEF Answer, Reject, AnswerFails, Report, Idle
  <2>2. QED
    BY <1>3, <2>1
<1>7. ASSUME NEW h \in Handler, BeginReport(h) PROVE Sound(handler[g])'
  <2>1. CASE g # h
    BY <1>1, <1>7, <2>1 DEF BeginReport, Accept, TypeInv
  <2>2. CASE g = h
    <3>1. /\ handler'[g].since = answered /\ handler'[g].loaded = <<>>
          /\ answered' = answered
      BY <1>7, <2>2 DEF BeginReport, Accept, TypeInv
    <3>2. QED
      BY <3>1 DEF Sound, TypeInv
  <2>3. QED
    BY <2>1, <2>2
<1>8. ASSUME NEW h \in Handler, LoadCounter(h) PROVE Sound(handler[g])'
  <2>1. CASE g # h
    BY <1>1, <1>8, <2>1 DEF LoadCounter, TypeInv
  <2>2. CASE g = h
    <3> DEFINE since == handler[h].since
               loaded == handler[h].loaded
               next == Len(loaded) + 1
    <3>1. /\ handler'[g].since = since
          /\ handler'[g].loaded = Append(loaded, metrics[Counters[next]])
          /\ UNCHANGED <<metrics, answered>>
      BY <1>8, <2>2 DEF LoadCounter, TypeInv
    <3>2. Sound(handler[h])
      BY <1>8 DEF LoadCounter, ReportInv
    <3>3. loaded \in Seq(Nat) /\ next \in 1..4
      <4>1. loaded \in Seq(Nat) /\ Len(loaded) <= 4
        BY <3>2 DEF Sound
      <4>2. Len(loaded) < 4
        BY <1>8, CountersAreFields DEF LoadCounter
      <4>3. \A n \in Nat : n < 4 => n + 1 \in 1..4
        OBVIOUS
      <4>4. QED
        BY <4>1, <4>2, <4>3, LoadedCounters
    <3>4. Counters[next] \in Field
      BY <3>3, CountersAreFields
    <3>5. since[Counters[next]] <= metrics[Counters[next]]
      <4>1. \A f \in Field : answered[f] <= metrics[f]
        BY HandlersAreFinite DEF CountInv, TypeInv, Field
      <4>2. QED
        BY <3>2, <3>4, <4>1 DEF Sound, TypeInv
    <3>6. metrics[Counters[next]] \in Nat
      BY <3>4 DEF TypeInv
    <3> HIDE DEF since, loaded
    <3>7. /\ Append(loaded, metrics[Counters[next]]) \in Seq(Nat)
          /\ Len(Append(loaded, metrics[Counters[next]])) <= 4
      BY <3>3, <3>6
    <3>8. ASSUME NEW i \in DOMAIN Append(loaded, metrics[Counters[next]])
          PROVE  /\ since[Counters[i]] <= Append(loaded, metrics[Counters[next]])[i]
                 /\ Append(loaded, metrics[Counters[next]])[i] <= metrics[Counters[i]]
      <4>1. CASE i \in DOMAIN loaded
        BY <3>2, <3>3, <4>1 DEF Sound, since, loaded
      <4>2. CASE i = next
        BY <3>3, <3>5, <3>6, <4>2
      <4>3. QED
        BY <3>3, <4>1, <4>2
    <3>9. since \in [Field -> Nat] /\ \A f \in Field : since[f] <= answered[f]
      BY <3>2 DEF Sound, since
    <3>10. QED
      BY <3>1, <3>7, <3>8, <3>9 DEF Sound
  <2>3. QED
    BY <2>1, <2>2
<1>9. CASE UNCHANGED vars
  BY <1>1, <1>9 DEF vars
<1>10. QED
  BY <1>2, <1>4, <1>5, <1>6, <1>7, <1>8, <1>9 DEF Next

(* A report that loads the counters one by one, while any number of        *)
(* handlers count, is never behind an answer that was given before it was  *)
(* asked for, nor ahead of what has come in (httpserver.go:486).           *)
THEOREM ReportsAreRight == Spec => []ReportCountsAnswers
<1>1. TypeInv /\ CountInv /\ ReportInv => ReportCountsAnswers
  <2> SUFFICES ASSUME TypeInv, CountInv, ReportInv,
                      NEW h \in Handler, handler[h].at = "reporting"
               PROVE  LET loaded == handler[h].loaded
                      IN  /\ \A i \in DOMAIN loaded : loaded[i] >= handler[h].since[Counters[i]]
                          /\ Len(loaded) = Len(Counters)
                               => loaded[2] + loaded[3] + loaded[4] <= arrivals
    BY DEF ReportCountsAnswers
  <2> DEFINE loaded == handler[h].loaded
  <2>1. Sound(handler[h])
    BY DEF ReportInv
  <2>2. \A i \in DOMAIN loaded : Counters[i] \in Field
    BY <2>1, LoadedCounters DEF Sound
  <2>3. \A i \in DOMAIN loaded : loaded[i] >= handler[h].since[Counters[i]]
    BY <2>1, <2>2 DEF Sound
  <2>4. ASSUME Len(loaded) = Len(Counters)
        PROVE  loaded[2] + loaded[3] + loaded[4] <= arrivals
    <3>1. /\ loaded[2] \in Nat /\ loaded[3] \in Nat /\ loaded[4] \in Nat
          /\ loaded[2] <= metrics["ok"] /\ loaded[3] <= metrics["deny"]
          /\ loaded[4] <= metrics["errors"]
      <4>1. 2 \in DOMAIN loaded /\ 3 \in DOMAIN loaded /\ 4 \in DOMAIN loaded
        <5>1. DOMAIN loaded = 1..Len(loaded)
          BY <2>1, LoadedCounters DEF Sound
        <5>2. DOMAIN loaded = 1..4
          BY <2>4, <5>1, CountersAreFields
        <5>3. QED
          BY <5>2
      <4>2. \A i \in DOMAIN loaded : loaded[i] \in Nat /\ loaded[i] <= metrics[Counters[i]]
        BY <2>1, LoadedCounters DEF Sound
      <4>3. Counters[2] = "ok" /\ Counters[3] = "deny" /\ Counters[4] = "errors"
        BY DEF Counters
      <4>4. QED
        BY <4>1, <4>2, <4>3
    <3>2. /\ metrics["ok"] \in Nat /\ metrics["deny"] \in Nat /\ metrics["errors"] \in Nat
          /\ Cardinality(Undecided) \in Nat /\ arrivals \in Nat
      BY HandlersAreFinite DEF TypeInv, Field
    <3>3. metrics["ok"] + metrics["deny"] + metrics["errors"] + Cardinality(Undecided) = arrivals
      BY DEF CountInv
    <3>4. QED
      BY <3>1, <3>2, <3>3
  <2>5. QED
    BY <2>3, <2>4
<1>2. Init => CountInv /\ ReportInv
  <2>1. ASSUME Init PROVE CountInv
    <3>1. Totalled = {} /\ Undecided = {} /\ Rejecting = {} /\ Granting = {} /\ Denying = {}
      BY <2>1 DEF Init, Idle, Totalled, Undecided, Rejecting, Granting, Denying, At
    <3>2. QED
      BY <2>1, <3>1, FS_EmptySet DEF Init, CountInv, Nothing, Field
  <2>2. ASSUME Init PROVE ReportInv
    BY <2>2 DEF Init, ReportInv, Idle
  <2>3. QED
    BY <2>1, <2>2
<1>3. QED
  BY <1>1, <1>2, TypeInit, TypeStep, CountStep, ReportStep, PTL DEF Spec

-----------------------------------------------------------------------------
(***************************************************************************)
(* Grants.  Whoever was granted something has a query that the rules, to   *)
(* which rules are only added, grant; the request of a handler that knows  *)
(* of it has no other query.                                               *)
(***************************************************************************)
HasGrant(request) == request \in Requests /\ \E q \in ToSExpression(request) : Granted(q)

Deserved(state) ==
  /\ state.at \in Asked =>
       /\ state.request \in Requests /\ state.query \in ToSExpression(state.request)
       /\ state.known => state.request \in granted
  /\ state.at \in Asked \ {"asking"} =>
       /\ state.decision => Granted(state.query)
       /\ Settled(state.request) /\ state.known => state.decision

GrantInv ==
  /\ \A r \in granted : HasGrant(r)
  /\ \A h \in Handler : Deserved(handler[h])

\* What one step leaves of the rules and of the grants.
Grows == rules \subseteq rules' /\ granted \subseteq granted'

LEMMA StaysGranted ==
  ASSUME Grows
  PROVE  /\ \A q : Granted(q) => Granted(q)'
         /\ \A r : HasGrant(r) => HasGrant(r)'
         /\ \A state : Deserved(state) => Deserved(state)'
<1>1. \A q : Granted(q) => Granted(q)'
  BY DEF Granted, Grows
<1>2. \A r : HasGrant(r) => HasGrant(r)'
  BY <1>1 DEF HasGrant
<1>3. \A state : Deserved(state) => Deserved(state)'
  BY <1>1 DEF Deserved, Grows
<1>4. QED
  BY <1>1, <1>2, <1>3

(* A handler that moves, while nobody else is granted anything.            *)
LEMMA GrantsMove ==
  ASSUME TypeInv, GrantInv, NEW h \in Handler, NEW state, Deserved(state),
         handler' = [handler EXCEPT ![h] = state], UNCHANGED <<rules, granted>>
  PROVE  GrantInv'
<1>1. Grows
  BY DEF Grows
<1>2. \A g \in Handler : Deserved(handler[g])'
  BY <1>1, StaysGranted DEF GrantInv, TypeInv
<1>3. QED
  BY <1>1, <1>2, StaysGranted DEF GrantInv

LEMMA GrantStep == TypeInv /\ LifeInv /\ GrantInv /\ [Next]_vars => GrantInv'
<1> SUFFICES ASSUME TypeInv, LifeInv, GrantInv, [Next]_vars PROVE GrantInv'
  OBVIOUS
<1> USE DEF engineVars, serverVars, historyVars
<1>1. ASSUME Grows, UNCHANGED <<handler, granted>> PROVE GrantInv'
  BY <1>1, StaysGranted DEF GrantInv
<1>2. CASE NewAlone
  <2>1. granted = {} /\ \A h \in Handler : handler[h] = Idle
    BY <1>2 DEF NewAlone, LifeInv, Busy
  <2>2. QED
    BY <1>1, <1>2, <2>1 DEF NewAlone, GrantInv, Deserved, Idle, Asked
<1>3. CASE \/ NewShared \/ AddRule \/ Start \/ Listen \/ ServeEnds
           \/ Close \/ ShutdownEnds \/ ShutdownTimesOut \/ CloseEnds
  BY <1>1, <1>3 DEF Grows, NewShared, AddRule, Start, Listen, ServeEnds, Close, ShutdownEnds,
                    ShutdownTimesOut, CloseEnds
<1>4. ASSUME NEW h \in Handler, Evaluate(h) PROVE GrantInv'
  <2>1. PICK r \in Requests : \E q \in ToSExpression(r) :
          Accept(h, [at |-> "asking", request |-> r, query |-> q, known |-> r \in granted])
    BY <1>4 DEF Evaluate
  <2>2. PICK q \in ToSExpression(r) :
          Accept(h, [at |-> "asking", request |-> r, query |-> q, known |-> r \in granted])
    BY <2>1
  <2>3. Deserved([at |-> "asking", request |-> r, query |-> q, known |-> r \in granted])
    BY DEF Deserved, Asked
  <2>4. QED
    BY <1>4, <2>2, <2>3, GrantsMove DEF Evaluate, Accept
<1>5. ASSUME NEW h \in Handler, BadRequest(h) \/ BeginReport(h) PROVE GrantInv'
  <2>1. PICK state : state.at \in {"rejecting", "reporting"} /\ Accept(h, state)
    BY <1>5 DEF BadRequest, BeginReport
  <2>2. QED
    BY <1>5, <2>1, GrantsMove DEF BadRequest, BeginReport, Accept, Deserved, Asked
<1>6. ASSUME NEW h \in Handler, Query(h) PROVE GrantInv'
  <2> DEFINE asked == handler[h]
             state == Decided("decided", asked, Granted(asked.query))
  <2>1. /\ handler' = [handler EXCEPT ![h] = state] /\ asked.at = "asking"
        /\ UNCHANGED <<rules, granted>>
    BY <1>6 DEF Query
  <2>2. /\ asked.request \in Requests /\ asked.query \in ToSExpression(asked.request)
        /\ asked.known => asked.request \in granted
    BY <2>1 DEF GrantInv, Deserved, Asked
  <2>3. Settled(asked.request) /\ asked.known => Granted(asked.query)
    BY <2>2, OneOrderOneQuery DEF GrantInv, HasGrant
  <2>4. /\ state.at = "decided" /\ state.request = asked.request /\ state.query = asked.query
        /\ state.known = asked.known /\ state.decision = Granted(asked.query)
    BY DEF Decided
  <2> HIDE DEF state
  <2>5. Deserved(state)
    BY <2>2, <2>3, <2>4 DEF Deserved, Asked
  <2>6. QED
    BY <2>1, <2>5, GrantsMove
<1>7. ASSUME NEW h \in Handler, CountTotal(h) \/ CountDecision(h) PROVE GrantInv'
  <2> DEFINE asked == handler[h]
  <2>1. PICK stage \in {"counting", "answering"} :
          handler' = [handler EXCEPT ![h] = Decided(stage, asked, asked.decision)]
    BY <1>7 DEF CountTotal, CountDecision, Become
  <2> DEFINE state == Decided(stage, asked, asked.decision)
  <2>2. asked.at \in {"decided", "counting"} /\ UNCHANGED <<rules, granted>>
    BY <1>7 DEF CountTotal, CountDecision
  <2>3. /\ state.at = stage /\ state.request = asked.request /\ state.query = asked.query
        /\ state.known = asked.known /\ state.decision = asked.decision
    BY DEF Decided
  <2>4. Deserved(asked)
    BY DEF GrantInv
  <2> HIDE DEF state
  <2>5. Deserved(state)
    BY <2>2, <2>3, <2>4 DEF Deserved, Asked
  <2>6. QED
    BY <2>1, <2>2, <2>5, GrantsMove DEF state
<1>8. ASSUME NEW h \in Handler, Answer(h) PROVE GrantInv'
  <2>1. Grows /\ rules' = rules
    BY <1>8 DEF Answer, Grows
  <2>2. Deserved(Idle)
    BY DEF Deserved, Idle, Asked
  <2>3. \A g \in Handler : handler'[g] = IF g = h THEN Idle ELSE handler[g]
    BY <1>8 DEF Answer, TypeInv
  <2>4. \A g \in Handler : Deserved(handler[g])'
    BY <2>1, <2>2, <2>3, StaysGranted DEF GrantInv
  <2>5. handler[h].decision => HasGrant(handler[h].request)
    BY <1>8 DEF Answer, GrantInv, Deserved, HasGrant, Asked
  <2>6. \A r \in granted' : HasGrant(r)
    BY <1>8, <2>5 DEF Answer, GrantInv
  <2>7. QED
    BY <2>1, <2>4, <2>6, StaysGranted DEF GrantInv
<1>9. ASSUME NEW h \in Handler, Reject(h) \/ AnswerFails(h) \/ Report(h) PROVE GrantInv'
  <2>1. Deserved(Idle)
    BY DEF Deserved, Idle, Asked
  <2>2. QED
    BY <1>9, <2>1, GrantsMove DEF Reject, AnswerFails, Report
<1>10. ASSUME NEW h \in Handler, LoadCounter(h) PROVE GrantInv'
  <2>1. PICK state : state.at = "reporting" /\ handler' = [handler EXCEPT ![h] = state]
    BY <1>10 DEF LoadCounter
  <2>2. QED
    BY <1>10, <2>1, GrantsMove DEF LoadCounter, Deserved, Asked
<1>11. CASE UNCHANGED vars
  BY <1>1, <1>11 DEF Grows, vars
<1>12. QED
  BY <1>2, <1>3, <1>4, <1>5, <1>6, <1>7, <1>8, <1>9, <1>10, <1>11 DEF Next

(* A request for which every order of map entries gives the same query is  *)
(* granted again once it has been granted, whatever the other handlers do  *)
(* and the TCP server adds to the engine they share (httpserver.go:345).   *)
THEOREM GrantsAreKept == Spec => []GrantsStand
<1>1. GrantInv => GrantsStand
  BY DEF GrantInv, GrantsStand, Deserved, Asked
<1>2. Init => GrantInv
  BY DEF Init, GrantInv, Deserved, Idle, Asked
<1>3. QED
  BY <1>1, <1>2, GrantStep, LifeInvariant, TypeInit, TypeStep, PTL DEF Spec

(* Handlers about to ask the engine the same query have the same request,  *)
(* if both are plain: no property passes for the action, the subject or    *)
(* the context (httpserver.go:333).                                        *)
THEOREM QueriesTellRequests == Spec => []SameQuerySameRequest
<1>1. GrantInv => SameQuerySameRequest
  <2>1. SUFFICES ASSUME GrantInv, NEW g \in Handler, NEW h \in Handler,
                        handler[g].at = "asking", handler[h].at = "asking",
                        Plain(handler[g].request), Plain(handler[h].request),
                        handler[g].query = handler[h].query
                 PROVE  handler[g].request = handler[h].request
    BY DEF SameQuerySameRequest
  <2>2. /\ handler[g].request \in Requests
        /\ handler[g].query \in ToSExpression(handler[g].request)
        /\ handler[h].request \in Requests
        /\ handler[h].query \in ToSExpression(handler[h].request)
    BY <2>1 DEF GrantInv, Deserved, Asked
  <2>3. QED
    BY <2>1, <2>2, QueryTellsRequest
<1>2. Init => GrantInv
  BY DEF Init, GrantInv, Deserved, Idle, Asked
<1>3. QED
  BY <1>1, <1>2, GrantStep, LifeInvariant, TypeInit, TypeStep, PTL DEF Spec
=============================================================================

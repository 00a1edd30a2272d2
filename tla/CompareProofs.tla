----------------------------- MODULE CompareProofs -----------------------------
(***************************************************************************)
(* Theorems about the star forms and about LessPermissive.                 *)
(*                                                                         *)
(* LessPermissive and the meaning of a rule are recursive, and known here  *)
(* by their equations only.  What holds of all elements is proved by a     *)
(* minimal counterexample: a step lemma shows that a counterexample has a  *)
(* smaller one among the parts, and Smallest that some counterexample has  *)
(* no smaller one.                                                         *)
(***************************************************************************)
EXTENDS CompareSpec, WellFoundedInduction, TLAPS

\* Where b excludes a bound that a has too, a excludes it as well: the
\* comparison in the code does not ask for it.
KeepsStrictness(a, b) ==
  /\ b.lower.op \in Strict => a.lower.op \in Strict
  /\ b.upper.op \in Strict => a.upper.op \in Strict

(* comparePrefixes: a longer prefix matches fewer strings.                 *)
THEOREM PrefixContainmentSound ==
  ASSUME NEW a \in PrefixForm, NEW b \in PrefixForm, NEW v \in Value,
         ComparePrefixes(a, b), MatchPrefix(a, v)
  PROVE  MatchPrefix(b, v)
<1>1. a.value \in Value /\ b.value \in Value
  BY DEF PrefixForm
<1>2. HasPrefix(v, a.value) /\ HasPrefix(a.value, b.value)
  BY DEF ComparePrefixes, MatchPrefix
<1>3. QED
  BY <1>1, <1>2, AffixOrder DEF MatchPrefix

(* compareSuffixes: a longer suffix matches fewer strings.                 *)
THEOREM SuffixContainmentSound ==
  ASSUME NEW a \in SuffixForm, NEW b \in SuffixForm, NEW v \in Value,
         CompareSuffixes(a, b), MatchSuffix(a, v)
  PROVE  MatchSuffix(b, v)
<1>1. a.value \in Value /\ b.value \in Value
  BY DEF SuffixForm
<1>2. HasSuffix(v, a.value) /\ HasSuffix(a.value, b.value)
  BY DEF CompareSuffixes, MatchSuffix
<1>3. QED
  BY <1>1, <1>2, AffixOrder DEF MatchSuffix

LEMMA BoundValues ==
  ASSUME NEW r \in RangeForm
  PROVE  /\ r.lower \in LowerBound /\ r.upper \in UpperBound
         /\ IsSet(r.lower) => r.lower.value \in Value
         /\ IsSet(r.upper) => r.upper.value \in Value
BY DEF RangeForm, LowerBound, UpperBound, NoBound, IsSet

(* compareRanges on ranges of text (alpha, numeric and time): sound when   *)
(* strictness is kept, whatever the strings and the bounds are.            *)
THEOREM StringRangeContainmentSound ==
  ASSUME NEW a \in RangeForm, NEW b \in RangeForm, NEW v \in Value,
         a.type \in StringTypes,
         KeepsStrictness(a, b), CompareRanges(a, b), MatchRange(a, v)
  PROVE  MatchRange(b, v)
<1>1. MatchString(a, v)
  BY DEF MatchRange, StringTypes, AddressTypes
<1>2. b.type \in StringTypes
  BY DEF CompareRanges
<1>3. ASSUME IsSet(b.lower)
      PROVE  /\ StrLeq(b.lower.value, v)
             /\ b.lower.op \in Strict => v # b.lower.value
  <2>1. /\ IsSet(a.lower)
        /\ StrLeq(b.lower.value, a.lower.value)
        /\ StrLeq(a.lower.value, v)
        /\ a.lower.op \in Strict => v # a.lower.value
    BY <1>1, <1>3 DEF CompareRanges, MatchString
  <2>2. a.lower.value \in Value /\ b.lower.value \in Value
    BY <1>3, <2>1, BoundValues
  <2>3. StrLeq(b.lower.value, v)
    BY <2>1, <2>2, StringOrder
  <2>4. ASSUME b.lower.op \in Strict, v = b.lower.value PROVE FALSE
    <3>1. v # a.lower.value
      BY <2>1, <2>4 DEF KeepsStrictness
    <3>2. v = a.lower.value
      BY <2>1, <2>2, <2>4, StringOrder
    <3>3. QED
      BY <3>1, <3>2
  <2>5. QED
    BY <2>3, <2>4
<1>4. ASSUME IsSet(b.upper)
      PROVE  /\ StrLeq(v, b.upper.value)
             /\ b.upper.op \in Strict => v # b.upper.value
  <2>1. /\ IsSet(a.upper)
        /\ StrLeq(a.upper.value, b.upper.value)
        /\ StrLeq(v, a.upper.value)
        /\ a.upper.op \in Strict => v # a.upper.value
    BY <1>1, <1>4 DEF CompareRanges, MatchString
  <2>2. a.upper.value \in Value /\ b.upper.value \in Value
    BY <1>4, <2>1, BoundValues
  <2>3. StrLeq(v, b.upper.value)
    BY <2>1, <2>2, StringOrder
  <2>4. ASSUME b.upper.op \in Strict, v = b.upper.value PROVE FALSE
    <3>1. v # a.upper.value
      BY <2>1, <2>4 DEF KeepsStrictness
    <3>2. v = a.upper.value
      BY <2>1, <2>2, <2>4, StringOrder
    <3>3. QED
      BY <3>1, <3>2
  <2>5. QED
    BY <2>3, <2>4
<1>5. QED
  BY <1>2, <1>3, <1>4 DEF MatchRange, MatchString

(* compareRanges is transitive on ranges of every type, so that a chain of *)
(* ever wider rules stays a chain.                                         *)
THEOREM CompareRangesTransitive ==
  ASSUME NEW r \in RangeForm, NEW a \in RangeForm, NEW b \in RangeForm,
         CompareRanges(r, a), CompareRanges(a, b)
  PROVE  CompareRanges(r, b)
<1>1. IsSet(b.lower) => IsSet(r.lower) /\ StrLeq(b.lower.value, r.lower.value)
  BY BoundValues, StringOrder DEF CompareRanges
<1>2. IsSet(b.upper) => IsSet(r.upper) /\ StrLeq(r.upper.value, b.upper.value)
  BY BoundValues, StringOrder DEF CompareRanges
<1>3. QED
  BY <1>1, <1>2 DEF CompareRanges

Kinds == {"atom", "list", "set", "wildcard", "range", "prefix", "suffix"}

LEMMA Shapes ==
  ASSUME NEW e \in Universe
  PROVE  /\ e.kind \in Kinds /\ SizeOf(e) \in Nat
         /\ e.kind = "atom" => e = Atom(e.value) /\ e.value \in Value
         /\ e.kind = "list" => e = List(e.tag, e.elems)
         /\ e.kind = "set" => e = SetOf(e.elems)
         /\ e.kind = "wildcard" => e = Wildcard
         /\ e.kind = "range" => e \in RangeForm
         /\ e.kind = "prefix" => e \in PrefixForm
         /\ e.kind = "suffix" => e \in SuffixForm
BY ElementsAreBuilt DEF Atom, List, SetOf, Wildcard, RangeForm, PrefixForm, SuffixForm, Kinds

LEMMA Parts ==
  ASSUME NEW e \in Universe, HasParts(e)
  PROVE  /\ e.elems \in Seq(Universe) /\ Len(e.elems) \in Nat /\ DOMAIN e.elems = 1..Len(e.elems)
         /\ \A i \in DOMAIN e.elems : e.elems[i] \in Universe /\ SizeOf(e.elems[i]) < SizeOf(e)
<1>1. e.elems \in Seq(Universe)
  BY ElementsAreBuilt DEF Atom, List, SetOf, Wildcard, RangeForm, PrefixForm, SuffixForm, HasParts
<1>2. QED
  BY <1>1, ElementsAreBuilt

LEMMA BelowByRules ==
  ASSUME NEW e \in Universe, NEW f \in Universe
  PROVE  Below(e, f) <=>
           \/ f.kind = "wildcard"
           \/ IsAtom(e) /\ IsAtom(f) /\ e.value = f.value
           \/ IsAtom(e) /\ f.kind = "set" /\ \E i \in DOMAIN f.elems : Same(e, f.elems[i])
           \/ IsAtom(e) /\ f.kind = "range" /\ MatchRange(f, e.value)
           \/ IsAtom(e) /\ f.kind = "prefix" /\ MatchPrefix(f, e.value)
           \/ IsAtom(e) /\ f.kind = "suffix" /\ MatchSuffix(f, e.value)
           \/ e.kind = "range" /\ f.kind = "range" /\ CompareRanges(e, f)
           \/ e.kind = "prefix" /\ f.kind = "prefix" /\ ComparePrefixes(e, f)
           \/ e.kind = "suffix" /\ f.kind = "suffix" /\ CompareSuffixes(e, f)
           \/ /\ IsList(e) /\ IsList(f) /\ Covers(e, f)
              /\ \A i \in DOMAIN f.elems : Below(e.elems[i], f.elems[i])
           \/ e.kind = "set" /\ ~IsStarForm(f) /\ \A i \in DOMAIN e.elems : Below(e.elems[i], f)
           \/ f.kind = "set" /\ ~IsStarForm(e) /\ \E i \in DOMAIN f.elems : Below(e, f.elems[i])
<1>1. Below(e, f) <=> LessPermissive(e, f)
  BY CallsAreMade
<1>2. QED
  BY <1>1 DEF LessPermissive, CompareLists, CompareStarForms, Match, IsAtom, IsList, IsStarForm

(* What the index of the engine relies on (spocp.go:100): no rule of       *)
(* compare.go relates a list to an atom, or lists under different tags.    *)
THEOREM OnlyStarFormsCrossTags ==
  ASSUME NEW e \in Universe, NEW f \in Universe, ~IsStarForm(e), ~IsStarForm(f), LessPermissive(e, f)
  PROVE  /\ IsList(e) <=> IsList(f)
         /\ IsList(e) => e.tag = f.tag
BY CallsAreMade, BelowByRules DEF IsAtom, IsList, IsStarForm, Covers

LEMMA SetAbove ==
  ASSUME NEW e \in Universe, NEW f \in Universe, f.kind = "set", ~IsStarForm(e)
  PROVE  Below(e, f) <=> \E i \in DOMAIN f.elems : Below(e, f.elems[i])
<1>1. ASSUME NEW i \in DOMAIN f.elems, IsAtom(e), Same(e, f.elems[i]) PROVE Below(e, f.elems[i])
  <2>1. f.elems[i] \in Universe
    BY Parts DEF HasParts
  <2>2. ElementsEqual(e, f.elems[i])
    BY <1>1, <2>1, CallsAreMade
  <2>3. IsAtom(f.elems[i]) /\ e.value = f.elems[i].value
    BY <1>1, <2>2 DEF ElementsEqual, IsAtom, IsList
  <2>4. QED
    BY <1>1, <2>1, <2>3, BelowByRules
<1>2. QED
  BY <1>1, BelowByRules DEF IsAtom, IsList, IsStarForm

LEMMA GrantsByRules ==
  ASSUME NEW g \in Requests, NEW f \in Universe
  PROVE  Grants(f, g) <=>
           \/ f.kind = "wildcard"
           \/ f.kind = "atom" /\ g = f
           \/ f.kind = "set" /\ \E i \in DOMAIN f.elems : Grants(f.elems[i], g)
           \/ f.kind = "range" /\ IsAtom(g) /\ WithinRange(f, g.value)
           \/ f.kind = "prefix" /\ IsAtom(g) /\ HasPrefix(g.value, f.value)
           \/ f.kind = "suffix" /\ IsAtom(g) /\ HasSuffix(g.value, f.value)
           \/ /\ f.kind = "list" /\ IsList(g) /\ g.tag = f.tag /\ Len(f.elems) <= Len(g.elems)
              /\ \A i \in DOMAIN f.elems : Grants(f.elems[i], g.elems[i])
<1>1. Grants(f, g) <=> Permits(f, g)
  BY CallsAreMade
<1>2. f.kind \in Kinds
  BY Shapes
<1>3. QED
  BY <1>1, <1>2 DEF Permits, Kinds

LEMMA MatchingIsMeaning ==
  ASSUME NEW r \in Universe, r.kind = "range", NEW v \in Value
  PROVE  MatchRange(r, v) <=> WithinRange(r, v)
<1>1. /\ r \in RangeForm /\ r.type \in RangeType
      /\ r.lower \in LowerBound /\ r.upper \in UpperBound
      /\ IsSet(r.lower) => r.lower.value \in Value
      /\ IsSet(r.upper) => r.upper.value \in Value
  BY Shapes DEF RangeForm, LowerBound, UpperBound, NoBound, IsSet
<1>2. CASE r.type \in StringTypes
  BY <1>1, <1>2, OrdersAgree, StringOrder
  DEF MatchRange, MatchString, WithinRange, StringTypes, AddressTypes
<1>3. CASE r.type \in AddressTypes
  BY <1>1, <1>3, OrdersAgree, StringOrder
  DEF MatchRange, MatchAddress, WithinRange, StringTypes, AddressTypes
<1>4. CASE r.type = "date"
  BY <1>1, <1>4, OrdersAgree, DatesHaveInstants
  DEF MatchRange, MatchDate, WithinRange, StringTypes, AddressTypes
<1>5. QED
  BY <1>1, <1>2, <1>3, <1>4 DEF RangeType

LEMMA GroundStep ==
  ASSUME NEW g \in Requests, NEW f \in Universe,
         \A h \in Requests, e \in Universe :
           SizeOf(h) + SizeOf(e) < SizeOf(g) + SizeOf(f) => (Below(h, e) <=> Grants(e, h))
  PROVE  Below(g, f) <=> Grants(f, g)
<1>1. g \in Universe /\ ~IsStarForm(g) /\ f.kind \in Kinds
  BY PartsOfUniverse, RequestsAreGround, Shapes
<1>2. CASE f.kind = "set"
  <2>1. \A i \in DOMAIN f.elems : Below(g, f.elems[i]) <=> Grants(f.elems[i], g)
    BY <1>1, <1>2, Parts, Shapes DEF HasParts
  <2>2. QED
    BY <1>1, <1>2, <2>1, SetAbove, GrantsByRules
<1>3. CASE f.kind = "list"
  <2>1. CASE IsList(g) /\ Covers(g, f)
    <3>1. ASSUME NEW i \in DOMAIN f.elems
          PROVE  Below(g.elems[i], f.elems[i]) <=> Grants(f.elems[i], g.elems[i])
      <4>1. i \in DOMAIN g.elems
        BY <1>1, <1>3, <2>1, Parts DEF HasParts, IsList, Covers
      <4>2. g.elems[i] \in Requests /\ f.elems[i] \in Universe
        BY <1>3, <2>1, <4>1, ClosedUnderParts, Parts DEF HasParts, IsList
      <4>3. SizeOf(g.elems[i]) < SizeOf(g) /\ SizeOf(f.elems[i]) < SizeOf(f)
        BY <1>1, <1>3, <2>1, <4>1, Parts DEF HasParts, IsList
      <4>4. QED
        BY <1>1, <4>2, <4>3, PartsOfUniverse, Shapes
    <3>2. QED
      BY <1>1, <1>3, <2>1, <3>1, BelowByRules, GrantsByRules DEF Covers, IsList, IsStarForm, IsAtom
  <2>2. CASE ~(IsList(g) /\ Covers(g, f))
    BY <1>1, <1>3, <2>2, BelowByRules, GrantsByRules DEF Covers, IsList, IsStarForm, IsAtom
  <2>3. QED
    BY <2>1, <2>2
<1>4. CASE f.kind = "range"
  <2>1. IsAtom(g) => g.value \in Value
    BY <1>1, Shapes DEF IsAtom
  <2>2. QED
    BY <1>1, <1>4, <2>1, MatchingIsMeaning, BelowByRules, GrantsByRules
    DEF IsList, IsStarForm, IsAtom
<1>5. CASE f.kind \in {"prefix", "suffix", "wildcard"}
  BY <1>1, <1>5, BelowByRules, GrantsByRules
  DEF IsList, IsStarForm, IsAtom, MatchPrefix, MatchSuffix
<1>6. CASE f.kind = "atom"
  BY <1>1, <1>6, Shapes, BelowByRules, GrantsByRules DEF IsList, IsStarForm, IsAtom, Atom
<1>7. QED
  BY <1>1, <1>2, <1>3, <1>4, <1>5, <1>6 DEF Kinds

\* Pairs of numbers, the first of which is the less.
Less == {p \in Nat \X Nat : p[1] < p[2]}

LEMMA Smallest ==
  ASSUME NEW T \in SUBSET Nat, T # {}
  PROVE  \E n \in T : \A m \in T : n <= m
<1>1. IsWellFoundedOn(Less, Nat)
  BY NatLessThanWellFounded DEF OpToRel, Less
<1>2. PICK n \in T : \A m \in T : <<m, n>> \notin Less
  BY <1>1, WFMin
<1>3. \A m \in T : ~(m < n)
  BY <1>2 DEF Less
<1>4. QED
  BY <1>3

LEMMA GroundAgrees == \A g \in Requests, f \in Universe : Below(g, f) <=> Grants(f, g)
<1> DEFINE Wrong(g, f) == ~(Below(g, f) <=> Grants(f, g))
           Sizes == {n \in Nat : \E g \in Requests, f \in Universe :
                                   n = SizeOf(g) + SizeOf(f) /\ Wrong(g, f)}
<1>1. SUFFICES ASSUME Sizes # {} PROVE FALSE
  BY PartsOfUniverse, Shapes
<1>2. PICK n \in Sizes : \A m \in Sizes : n <= m
  BY <1>1, Smallest
<1>3. PICK g \in Requests, f \in Universe : n = SizeOf(g) + SizeOf(f) /\ Wrong(g, f)
  BY <1>2
<1>4. ASSUME NEW h \in Requests, NEW e \in Universe,
             SizeOf(h) + SizeOf(e) < SizeOf(g) + SizeOf(f), Wrong(h, e)
      PROVE  FALSE
  <2>1. SizeOf(h) + SizeOf(e) \in Sizes
    BY <1>4, PartsOfUniverse, Shapes
  <2>2. n <= SizeOf(h) + SizeOf(e)
    BY <1>2, <2>1
  <2>3. SizeOf(h) \in Nat /\ SizeOf(e) \in Nat /\ SizeOf(g) \in Nat /\ SizeOf(f) \in Nat
    BY PartsOfUniverse, Shapes
  <2>4. QED
    BY <1>3, <1>4, <2>2, <2>3
<1>5. QED
  BY <1>3, <1>4, GroundStep

(* For a query without star forms LessPermissive (compare.go:10-83), which *)
(* looks at star forms on both sides and at lists from left to right,      *)
(* decides exactly what the rule is meant to permit.                       *)
THEOREM GroundRequestsAreExact == Spec => []GroundExact
<1>1. Init => t \in Universe
  BY DEF Init
<1>2. t \in Universe /\ [Next]_<<s, t>> => (t \in Universe)'
  BY DEF Next
<1>3. t \in Universe => GroundExact
  BY GroundAgrees, CallsAreMade, PartsOfUniverse DEF GroundExact
<1>4. QED
  BY <1>1, <1>2, <1>3, PTL DEF Spec

-----------------------------------------------------------------------------
LEMMA InclusiveRangesContain ==
  ASSUME NEW e \in Contained \union Ordered, NEW f \in Contained \union Ordered, NEW v \in Value,
         e.kind = "range", f.kind = "range", CompareRanges(e, f), MatchRange(e, v)
  PROVE  MatchRange(f, v)
<1>1. /\ e \in RangeForm /\ f \in RangeForm /\ e.type = f.type
      /\ e.type \in StringTypes \union AddressTypes
      /\ f.lower.op \notin Strict /\ f.upper.op \notin Strict
  BY PartsOfUniverse, Shapes, InclusiveRanges DEF RangeForm, RangeType, CompareRanges
<1>2. CASE e.type \in StringTypes
  BY <1>1, <1>2, StringRangeContainmentSound DEF KeepsStrictness
<1>3. CASE e.type \in AddressTypes
  BY <1>1, <1>3, BoundValues, StringOrder
  DEF MatchRange, MatchAddress, CompareRanges, StringTypes, AddressTypes
<1>4. QED
  BY <1>1, <1>2, <1>3

LEMMA AffixesContain ==
  ASSUME NEW e \in Universe, NEW f \in Universe
  PROVE  /\ e.kind = "prefix" /\ f.kind = "prefix" /\ ComparePrefixes(e, f) =>
              \A v \in Value : MatchPrefix(e, v) => MatchPrefix(f, v)
         /\ e.kind = "suffix" /\ f.kind = "suffix" /\ CompareSuffixes(e, f) =>
              \A v \in Value : MatchSuffix(e, v) => MatchSuffix(f, v)
BY Shapes, PrefixContainmentSound, SuffixContainmentSound

LEMMA ContainedStep ==
  ASSUME NEW g \in Requests, NEW e \in Contained, NEW f \in Contained, Below(g, e), Below(e, f),
         \A h \in Requests, a \in Contained, b \in Contained :
           /\ SizeOf(h) + SizeOf(a) + SizeOf(b) < SizeOf(g) + SizeOf(e) + SizeOf(f)
           /\ Below(h, a) /\ Below(a, b)
           => Below(h, b)
  PROVE  Below(g, f)
<1>1. /\ g \in Universe /\ e \in Universe /\ f \in Universe /\ ~IsStarForm(g)
      /\ e.kind \in Kinds /\ f.kind \in Kinds
      /\ SizeOf(g) \in Nat /\ SizeOf(e) \in Nat /\ SizeOf(f) \in Nat
  BY PartsOfUniverse, RequestsAreGround, Shapes
<1>2. CASE f.kind = "wildcard"
  BY <1>1, <1>2, BelowByRules
<1>3. CASE f.kind = "set" /\ ~IsStarForm(e)
  <2>1. PICK i \in DOMAIN f.elems : Below(e, f.elems[i])
    BY <1>1, <1>3, SetAbove
  <2>2. f.elems[i] \in Contained /\ SizeOf(f.elems[i]) \in Nat /\ SizeOf(f.elems[i]) < SizeOf(f)
    BY <1>1, <1>3, ClosedUnderParts, Parts, Shapes DEF HasParts
  <2>3. Below(g, f.elems[i])
    BY <1>1, <2>1, <2>2
  <2>4. QED
    BY <1>1, <1>3, <2>3, SetAbove
<1>4. CASE e.kind = "set" /\ ~IsStarForm(f)
  <2>1. PICK i \in DOMAIN e.elems : Below(g, e.elems[i])
    BY <1>1, <1>4, SetAbove
  <2>2. e.elems[i] \in Contained /\ SizeOf(e.elems[i]) \in Nat /\ SizeOf(e.elems[i]) < SizeOf(e)
    BY <1>1, <1>4, ClosedUnderParts, Parts, Shapes DEF HasParts
  <2>3. Below(e.elems[i], f)
    BY <1>1, <1>4, BelowByRules DEF IsAtom, IsList, IsStarForm
  <2>4. QED
    BY <1>1, <2>1, <2>2, <2>3
<1>5. CASE IsAtom(e) /\ f.kind # "set"
  <2>1. IsAtom(g) /\ g.value = e.value
    BY <1>1, <1>5, BelowByRules DEF IsAtom, IsList, IsStarForm
  <2>2. g = e
    BY <1>1, <1>5, <2>1, Shapes DEF IsAtom, Atom
  <2>3. QED
    BY <2>2
<1>6. CASE IsList(e) /\ IsList(f)
  <2>1. /\ IsList(g) /\ Covers(g, e) /\ Covers(e, f)
        /\ \A i \in DOMAIN e.elems : Below(g.elems[i], e.elems[i])
        /\ \A i \in DOMAIN f.elems : Below(e.elems[i], f.elems[i])
    BY <1>1, <1>6, BelowByRules DEF IsAtom, IsList, IsStarForm
  <2>2. /\ Len(g.elems) \in Nat /\ DOMAIN g.elems = 1..Len(g.elems)
        /\ Len(e.elems) \in Nat /\ DOMAIN e.elems = 1..Len(e.elems)
        /\ Len(f.elems) \in Nat /\ DOMAIN f.elems = 1..Len(f.elems)
    BY <1>1, <1>6, <2>1, Parts DEF HasParts, IsList
  <2>3. Covers(g, f)
    BY <2>1, <2>2 DEF Covers
  <2>4. ASSUME NEW i \in DOMAIN f.elems PROVE Below(g.elems[i], f.elems[i])
    <3>1. i \in DOMAIN e.elems /\ i \in DOMAIN g.elems
      BY <2>1, <2>2 DEF Covers
    <3>2. /\ g.elems[i] \in Requests /\ e.elems[i] \in Contained /\ f.elems[i] \in Contained
          /\ SizeOf(g.elems[i]) < SizeOf(g) /\ SizeOf(e.elems[i]) < SizeOf(e)
          /\ SizeOf(f.elems[i]) < SizeOf(f)
      BY <1>1, <1>6, <2>1, <3>1, ClosedUnderParts, Parts DEF HasParts, IsList
    <3>3. SizeOf(g.elems[i]) \in Nat /\ SizeOf(e.elems[i]) \in Nat /\ SizeOf(f.elems[i]) \in Nat
      BY <3>2, PartsOfUniverse, Shapes
    <3>4. Below(g.elems[i], e.elems[i]) /\ Below(e.elems[i], f.elems[i])
      BY <2>1, <3>1
    <3>5. QED
      BY <1>1, <3>2, <3>3, <3>4
  <2>5. QED
    BY <1>1, <1>6, <2>1, <2>3, <2>4, BelowByRules
<1>7. CASE e.kind \in {"range", "prefix", "suffix"} /\ f.kind # "wildcard"
  <2>1. /\ f.kind = e.kind /\ CompareStarForms(e, f)
    BY <1>1, <1>7, BelowByRules DEF IsAtom, IsList, IsStarForm, CompareStarForms
  <2>2. IsAtom(g) /\ g.value \in Value
    BY <1>1, <1>7, BelowByRules, Shapes DEF IsAtom, IsList, IsStarForm
  <2>3. CASE e.kind = "range"
    BY <1>1, <2>1, <2>2, <2>3, BelowByRules, InclusiveRangesContain
    DEF CompareStarForms, IsAtom, IsList, IsStarForm
  <2>4. CASE e.kind \in {"prefix", "suffix"}
    BY <1>1, <2>1, <2>2, <2>4, BelowByRules, AffixesContain
    DEF CompareStarForms, IsAtom, IsList, IsStarForm
  <2>5. QED
    BY <1>7, <2>3, <2>4
<1>8. CASE e.kind = "wildcard" \/ (e.kind = "set" /\ IsStarForm(f)) \/ (IsList(e) /\ f.kind # "set")
  BY <1>1, <1>2, <1>6, <1>8, BelowByRules DEF IsAtom, IsList, IsStarForm
<1>9. QED
  BY <1>1, <1>2, <1>3, <1>4, <1>5, <1>6, <1>7, <1>8 DEF Kinds, IsAtom, IsList, IsStarForm

LEMMA ContainedTransitive ==
  \A g \in Requests, e, f \in Contained : Below(g, e) /\ Below(e, f) => Below(g, f)
<1> DEFINE Wrong(g, e, f) == Below(g, e) /\ Below(e, f) /\ ~Below(g, f)
           Weight(g, e, f) == SizeOf(g) + SizeOf(e) + SizeOf(f)
           Sizes == {n \in Nat : \E g \in Requests, e, f \in Contained :
                                   n = Weight(g, e, f) /\ Wrong(g, e, f)}
<1>1. \A g \in Requests, e, f \in Contained : Weight(g, e, f) \in Nat
  BY PartsOfUniverse, Shapes
<1>2. SUFFICES ASSUME Sizes # {} PROVE FALSE
  BY <1>1
<1>3. PICK n \in Sizes : \A m \in Sizes : n <= m
  BY <1>2, Smallest
<1>4. PICK g \in Requests, e \in Contained, f \in Contained :
        n = Weight(g, e, f) /\ Wrong(g, e, f)
  BY <1>3
<1>5. ASSUME NEW h \in Requests, NEW a \in Contained, NEW b \in Contained,
             Weight(h, a, b) < Weight(g, e, f), Below(h, a) /\ Below(a, b)
      PROVE  Below(h, b)
  <2>1. ~Below(h, b) => Weight(h, a, b) \in Sizes
    BY <1>1, <1>5
  <2>2. ~(n <= Weight(h, a, b))
    BY <1>1, <1>4, <1>5
  <2>3. QED
    BY <1>3, <2>1, <2>2
<1>6. QED
  BY <1>4, <1>5, ContainedStep

(* LessPermissive (compare.go:10-83) never lets a query with star forms    *)
(* obtain more than the rule grants: what it decides by bounds, affixes    *)
(* and elements is containment of what is permitted.                       *)
THEOREM ContainmentIsSound == Spec => []ContainmentSound
<1>1. ContainmentSound
  <2>1. SUFFICES ASSUME s \in Contained, t \in Contained, LessPermissive(s, t)
                 PROVE  \A g \in Requests : Permits(s, g) => Permits(t, g)
    BY DEF ContainmentSound, Permitted
  <2>2. s \in Universe /\ t \in Universe /\ Below(s, t)
    BY <2>1, PartsOfUniverse, CallsAreMade
  <2>3. \A g \in Requests : Grants(s, g) => Grants(t, g)
    BY <2>1, <2>2, GroundAgrees, ContainedTransitive
  <2>4. QED
    BY <2>2, <2>3, CallsAreMade
<1>2. QED
  BY <1>1, PTL

-----------------------------------------------------------------------------
LEMMA TransitiveStep ==
  ASSUME NEW d \in Ordered, NEW e \in Ordered, NEW f \in Ordered, Below(d, e), Below(e, f),
         \A a, b, c \in Ordered :
           /\ SizeOf(a) + SizeOf(b) + SizeOf(c) < SizeOf(d) + SizeOf(e) + SizeOf(f)
           /\ Below(a, b) /\ Below(b, c)
           => Below(a, c)
  PROVE  Below(d, f)
<1>1. /\ d \in Universe /\ e \in Universe /\ f \in Universe
      /\ d.kind \in Kinds \ {"set"} /\ e.kind \in Kinds \ {"set"} /\ f.kind \in Kinds \ {"set"}
      /\ SizeOf(d) \in Nat /\ SizeOf(e) \in Nat /\ SizeOf(f) \in Nat
  BY PartsOfUniverse, OrderedHasNoSets, Shapes
<1>2. CASE f.kind = "wildcard"
  BY <1>1, <1>2, BelowByRules
<1>3. CASE e.kind = "wildcard" /\ f.kind # "wildcard"
  BY <1>1, <1>3, BelowByRules DEF IsAtom, IsList, IsStarForm
<1>4. CASE IsAtom(e)
  <2>1. IsAtom(d) /\ d.value = e.value
    BY <1>1, <1>4, BelowByRules DEF IsAtom, IsList, IsStarForm
  <2>2. d = e
    BY <1>1, <1>4, <2>1, Shapes DEF IsAtom
  <2>3. QED
    BY <2>2
<1>5. CASE IsList(e) /\ IsList(f)
  <2>1. /\ IsList(d) /\ Covers(d, e) /\ Covers(e, f)
        /\ \A i \in DOMAIN e.elems : Below(d.elems[i], e.elems[i])
        /\ \A i \in DOMAIN f.elems : Below(e.elems[i], f.elems[i])
    BY <1>1, <1>5, BelowByRules DEF IsAtom, IsList, IsStarForm
  <2>2. /\ Len(d.elems) \in Nat /\ DOMAIN d.elems = 1..Len(d.elems)
        /\ Len(e.elems) \in Nat /\ DOMAIN e.elems = 1..Len(e.elems)
        /\ Len(f.elems) \in Nat /\ DOMAIN f.elems = 1..Len(f.elems)
    BY <1>1, <1>5, <2>1, Parts DEF HasParts, IsList
  <2>3. Covers(d, f)
    BY <2>1, <2>2 DEF Covers
  <2>4. ASSUME NEW i \in DOMAIN f.elems PROVE Below(d.elems[i], f.elems[i])
    <3>1. i \in DOMAIN e.elems /\ i \in DOMAIN d.elems
      BY <2>1, <2>2 DEF Covers
    <3>2. /\ d.elems[i] \in Ordered /\ e.elems[i] \in Ordered /\ f.elems[i] \in Ordered
          /\ SizeOf(d.elems[i]) < SizeOf(d) /\ SizeOf(e.elems[i]) < SizeOf(e)
          /\ SizeOf(f.elems[i]) < SizeOf(f)
      BY <1>1, <1>5, <2>1, <3>1, ClosedUnderParts, Parts DEF HasParts, IsList
    <3>3. SizeOf(d.elems[i]) \in Nat /\ SizeOf(e.elems[i]) \in Nat /\ SizeOf(f.elems[i]) \in Nat
      BY <3>2, PartsOfUniverse, Shapes
    <3>4. Below(d.elems[i], e.elems[i]) /\ Below(e.elems[i], f.elems[i])
      BY <2>1, <3>1
    <3>5. QED
      BY <1>1, <3>2, <3>3, <3>4
  <2>5. QED
    BY <1>1, <1>5, <2>1, <2>3, <2>4, BelowByRules
<1>6. CASE IsList(e) /\ ~IsList(f) /\ f.kind # "wildcard"
  BY <1>1, <1>6, BelowByRules DEF IsAtom, IsList, IsStarForm
<1>7. CASE e.kind \in {"range", "prefix", "suffix"} /\ f.kind # "wildcard"
  <2>1. /\ f.kind = e.kind /\ CompareStarForms(e, f)
        /\ \/ IsAtom(d) /\ d.value \in Value
           \/ d.kind = e.kind /\ CompareStarForms(d, e)
    BY <1>1, <1>7, BelowByRules, Shapes DEF IsAtom, IsList, IsStarForm, CompareStarForms
  <2>2. CASE e.kind = "range" /\ IsAtom(d)
    BY <1>1, <2>1, <2>2, BelowByRules, InclusiveRangesContain
    DEF CompareStarForms, IsAtom, IsList, IsStarForm
  <2>3. CASE e.kind \in {"prefix", "suffix"} /\ IsAtom(d)
    BY <1>1, <2>1, <2>3, BelowByRules, AffixesContain
    DEF CompareStarForms, IsAtom, IsList, IsStarForm
  <2>4. CASE e.kind = "range" /\ d.kind = e.kind
    <3>1. d \in RangeForm /\ e \in RangeForm /\ f \in RangeForm
      BY <1>1, <2>1, <2>4, Shapes
    <3>2. CompareRanges(d, e) /\ CompareRanges(e, f)
      BY <1>1, <1>7, <2>1, <2>4 DEF CompareStarForms, IsAtom
    <3>3. CompareRanges(d, f)
      BY <3>1, <3>2, CompareRangesTransitive
    <3>4. QED
      BY <1>1, <2>1, <2>4, <3>3, BelowByRules
  <2>5. CASE e.kind \in {"prefix", "suffix"} /\ d.kind = e.kind
    <3>1. d.value \in Value /\ e.value \in Value /\ f.value \in Value
      BY <1>1, <2>1, <2>5, Shapes DEF PrefixForm, SuffixForm
    <3>2. CASE e.kind = "prefix"
      <4>1. ComparePrefixes(d, e) /\ ComparePrefixes(e, f)
        BY <2>1, <2>5, <3>2 DEF CompareStarForms, IsAtom
      <4>2. ComparePrefixes(d, f)
        BY <3>1, <4>1, AffixOrder DEF ComparePrefixes
      <4>3. QED
        BY <1>1, <2>1, <2>5, <3>2, <4>2, BelowByRules
    <3>3. CASE e.kind = "suffix"
      <4>1. CompareSuffixes(d, e) /\ CompareSuffixes(e, f)
        BY <2>1, <2>5, <3>3 DEF CompareStarForms, IsAtom
      <4>2. CompareSuffixes(d, f)
        BY <3>1, <4>1, AffixOrder DEF CompareSuffixes
      <4>3. QED
        BY <1>1, <2>1, <2>5, <3>3, <4>2, BelowByRules
    <3>4. QED
      BY <2>5, <3>2, <3>3
  <2>6. QED
    BY <1>7, <2>1, <2>2, <2>3, <2>4, <2>5 DEF IsAtom
<1>8. QED
  BY <1>1, <1>2, <1>3, <1>4, <1>5, <1>6, <1>7 DEF Kinds, IsAtom, IsList

LEMMA OrderedTransitive ==
  \A d, e, f \in Ordered : Below(d, e) /\ Below(e, f) => Below(d, f)
<1> DEFINE Wrong(d, e, f) == Below(d, e) /\ Below(e, f) /\ ~Below(d, f)
           Weight(d, e, f) == SizeOf(d) + SizeOf(e) + SizeOf(f)
           Sizes == {n \in Nat : \E d, e, f \in Ordered : n = Weight(d, e, f) /\ Wrong(d, e, f)}
<1>1. \A d, e, f \in Ordered : Weight(d, e, f) \in Nat
  BY PartsOfUniverse, Shapes
<1>2. SUFFICES ASSUME Sizes # {} PROVE FALSE
  BY <1>1
<1>3. PICK n \in Sizes : \A m \in Sizes : n <= m
  BY <1>2, Smallest
<1>4. PICK d \in Ordered, e \in Ordered, f \in Ordered : n = Weight(d, e, f) /\ Wrong(d, e, f)
  BY <1>3
<1>5. ASSUME NEW a \in Ordered, NEW b \in Ordered, NEW c \in Ordered,
             Weight(a, b, c) < Weight(d, e, f), Below(a, b) /\ Below(b, c)
      PROVE  Below(a, c)
  <2>1. ~Below(a, c) => Weight(a, b, c) \in Sizes
    BY <1>1, <1>5
  <2>2. ~(n <= Weight(a, b, c))
    BY <1>1, <1>4, <1>5
  <2>3. QED
    BY <1>3, <2>1, <2>2
<1>6. QED
  BY <1>4, <1>5, TransitiveStep

(* LessPermissive (compare.go:10-83) is transitive on elements without     *)
(* sets, dates or strict bounds: a chain of ever wider rules is a chain.   *)
THEOREM OrderIsTransitive == Spec => []Transitive
<1>1. Transitive
  BY OrderedTransitive, PartsOfUniverse, CallsAreMade DEF Transitive
<1>2. QED
  BY <1>1, PTL

-----------------------------------------------------------------------------
LEMMA SameRanges ==
  ASSUME NEW e \in Ordered, NEW f \in Ordered, e.kind = "range", f.kind = "range",
         CompareRanges(e, f), CompareRanges(f, e)
  PROVE  e = f
<1>1. /\ e \in RangeForm /\ f \in RangeForm /\ e.type = f.type
      /\ e.lower.op \notin Strict /\ e.upper.op \notin Strict
      /\ f.lower.op \notin Strict /\ f.upper.op \notin Strict
  BY PartsOfUniverse, Shapes, InclusiveRanges DEF CompareRanges
<1>2. e.lower = f.lower
  <2>1. IsSet(e.lower) <=> IsSet(f.lower)
    BY DEF CompareRanges
  <2>2. CASE IsSet(e.lower)
    <3>1. e.lower.value = f.lower.value
      BY <1>1, <2>1, <2>2, BoundValues, StringOrder DEF CompareRanges
    <3>2. e.lower \in [op : {"ge", "gt"}, value : Value] /\ f.lower \in [op : {"ge", "gt"}, value : Value]
      BY <1>1, <2>1, <2>2, BoundValues DEF LowerBound, NoBound, IsSet
    <3>3. QED
      BY <1>1, <3>1, <3>2 DEF Strict
  <2>3. CASE ~IsSet(e.lower)
    BY <1>1, <2>1, <2>3, BoundValues DEF LowerBound, IsSet
  <2>4. QED
    BY <2>2, <2>3
<1>3. e.upper = f.upper
  <2>1. IsSet(e.upper) <=> IsSet(f.upper)
    BY DEF CompareRanges
  <2>2. CASE IsSet(e.upper)
    <3>1. e.upper.value = f.upper.value
      BY <1>1, <2>1, <2>2, BoundValues, StringOrder DEF CompareRanges
    <3>2. e.upper \in [op : {"le", "lt"}, value : Value] /\ f.upper \in [op : {"le", "lt"}, value : Value]
      BY <1>1, <2>1, <2>2, BoundValues DEF UpperBound, NoBound, IsSet
    <3>3. QED
      BY <1>1, <3>1, <3>2 DEF Strict
  <2>3. CASE ~IsSet(e.upper)
    BY <1>1, <2>1, <2>3, BoundValues DEF UpperBound, IsSet
  <2>4. QED
    BY <2>2, <2>3
<1>4. QED
  BY <1>1, <1>2, <1>3 DEF RangeForm

LEMMA AntisymmetricStep ==
  ASSUME NEW e \in Ordered, NEW f \in Ordered, Below(e, f), Below(f, e),
         \A a, b \in Ordered :
           SizeOf(a) + SizeOf(b) < SizeOf(e) + SizeOf(f) /\ Below(a, b) /\ Below(b, a) => a = b
  PROVE  e = f
<1>1. /\ e \in Universe /\ f \in Universe
      /\ e.kind \in Kinds \ {"set"} /\ f.kind \in Kinds \ {"set"}
      /\ SizeOf(e) \in Nat /\ SizeOf(f) \in Nat
  BY PartsOfUniverse, OrderedHasNoSets, Shapes
<1>2. e.kind = f.kind
  BY <1>1, BelowByRules DEF Kinds, IsAtom, IsList, IsStarForm
<1>3. CASE e.kind = "wildcard"
  BY <1>1, <1>2, <1>3, Shapes
<1>4. CASE e.kind = "atom"
  <2>1. e.value = f.value
    BY <1>1, <1>2, <1>4, BelowByRules DEF IsAtom, IsList, IsStarForm
  <2>2. e = Atom(e.value) /\ f = Atom(f.value)
    BY <1>1, <1>2, <1>4, Shapes
  <2>3. QED
    BY <2>1, <2>2
<1>5. CASE e.kind = "range"
  BY <1>1, <1>2, <1>5, BelowByRules, SameRanges DEF IsAtom, IsList, IsStarForm
<1>6. CASE e.kind \in {"prefix", "suffix"}
  <2>1. e.value \in Value /\ f.value \in Value
    BY <1>1, <1>2, <1>6, Shapes DEF PrefixForm, SuffixForm
  <2>2. e.value = f.value
    BY <1>1, <1>2, <1>6, <2>1, BelowByRules, AffixOrder
    DEF IsAtom, IsList, IsStarForm, ComparePrefixes, CompareSuffixes
  <2>3. QED
    BY <1>1, <1>2, <1>6, <2>2, Shapes DEF PrefixForm, SuffixForm
<1>7. CASE e.kind = "list"
  <2>1. /\ Covers(e, f) /\ Covers(f, e)
        /\ \A i \in DOMAIN f.elems : Below(e.elems[i], f.elems[i])
        /\ \A i \in DOMAIN e.elems : Below(f.elems[i], e.elems[i])
    BY <1>1, <1>2, <1>7, BelowByRules DEF IsAtom, IsList, IsStarForm
  <2>2. /\ e.elems \in Seq(Universe) /\ f.elems \in Seq(Universe)
        /\ Len(e.elems) \in Nat /\ DOMAIN e.elems = 1..Len(e.elems)
        /\ Len(f.elems) \in Nat /\ DOMAIN f.elems = 1..Len(f.elems)
    BY <1>1, <1>2, <1>7, Parts DEF HasParts
  <2>3. e.tag = f.tag /\ Len(e.elems) = Len(f.elems)
    BY <2>1, <2>2 DEF Covers
  <2>4. ASSUME NEW i \in DOMAIN e.elems PROVE e.elems[i] = f.elems[i]
    <3>1. i \in DOMAIN f.elems
      BY <2>2, <2>3
    <3>2. /\ e.elems[i] \in Ordered /\ f.elems[i] \in Ordered
          /\ SizeOf(e.elems[i]) < SizeOf(e) /\ SizeOf(f.elems[i]) < SizeOf(f)
      BY <1>1, <1>2, <1>7, <3>1, ClosedUnderParts, Parts DEF HasParts
    <3>3. SizeOf(e.elems[i]) \in Nat /\ SizeOf(f.elems[i]) \in Nat
      BY <3>2, PartsOfUniverse, Shapes
    <3>4. QED
      BY <1>1, <2>1, <3>1, <3>2, <3>3
  <2>5. e.elems = f.elems
    BY <2>2, <2>3, <2>4
  <2>6. QED
    BY <1>1, <1>2, <1>7, <2>3, <2>5, Shapes
<1>8. QED
  BY <1>1, <1>3, <1>4, <1>5, <1>6, <1>7 DEF Kinds

LEMMA OrderedAntisymmetric ==
  \A e, f \in Ordered : Below(e, f) /\ Below(f, e) => e = f
<1> DEFINE Wrong(e, f) == Below(e, f) /\ Below(f, e) /\ e # f
           Weight(e, f) == SizeOf(e) + SizeOf(f)
           Sizes == {n \in Nat : \E e, f \in Ordered : n = Weight(e, f) /\ Wrong(e, f)}
<1>1. \A e, f \in Ordered : Weight(e, f) \in Nat
  BY PartsOfUniverse, Shapes
<1>2. SUFFICES ASSUME Sizes # {} PROVE FALSE
  BY <1>1
<1>3. PICK n \in Sizes : \A m \in Sizes : n <= m
  BY <1>2, Smallest
<1>4. PICK e \in Ordered, f \in Ordered : n = Weight(e, f) /\ Wrong(e, f)
  BY <1>3
<1>5. ASSUME NEW a \in Ordered, NEW b \in Ordered,
             Weight(a, b) < Weight(e, f), Below(a, b) /\ Below(b, a)
      PROVE  a = b
  <2>1. a # b => Weight(a, b) \in Sizes
    BY <1>1, <1>5
  <2>2. ~(n <= Weight(a, b))
    BY <1>1, <1>4, <1>5
  <2>3. QED
    BY <1>3, <2>1, <2>2
<1>6. QED
  BY <1>4, <1>5, AntisymmetricStep

(* No two different elements without sets, dates or strict bounds are <=   *)
(* each other in LessPermissive (compare.go:10-83): compareLists compares  *)
(* tags and lengths, compareRanges both bounds.                            *)
THEOREM OrderIsAntisymmetric == Spec => []Antisymmetric
<1>1. Antisymmetric
  BY OrderedAntisymmetric, PartsOfUniverse, CallsAreMade DEF Antisymmetric
<1>2. QED
  BY <1>1, PTL
================================================================================

---------------------------- MODULE CompareSpec ----------------------------
(***************************************************************************)
(* What LessPermissive must satisfy, over every pair of elements of a      *)
(* universe.  The behaviour is one question per initial state: is s <= t?  *)
(* The third element of a property is quantified in it.                    *)
(***************************************************************************)
EXTENDS Compare

CONSTANTS
  Universe,             \* the elements compared
  Contained,            \* those whose containment is decided as matching is
  Ordered,              \* those on which <= is a partial order
  Requests,             \* the ground elements a rule may or may not permit
  Grants(_, _),         \* Permits, where it calls itself
  ValueOrder(_, _, _),  \* ValueOrder(type, a, b): a <= b as values of a range type
  SizeOf(_)             \* the size of an element

-----------------------------------------------------------------------------
(***************************************************************************)
(* What the relation is for: the meaning that the specification documents  *)
(* give to a rule, written without looking at the algorithm.  g is ground: *)
(* no star form is in it, and it is a request for one thing.  Numbers,     *)
(* addresses and instants are not ordered as their texts are.              *)
(***************************************************************************)
WithinRange(r, v) ==
  /\ r.type = "date" => v \in Dates
  /\ IsSet(r.lower) => /\ ValueOrder(r.type, r.lower.value, v)
                       /\ r.lower.op \in Strict => ~ValueOrder(r.type, v, r.lower.value)
  /\ IsSet(r.upper) => /\ ValueOrder(r.type, v, r.upper.value)
                       /\ r.upper.op \in Strict => ~ValueOrder(r.type, r.upper.value, v)

Permits(t, g) ==
  CASE t.kind = "wildcard" -> TRUE
    [] t.kind = "atom"   -> g = t
    [] t.kind = "set"    -> \E i \in DOMAIN t.elems : Grants(t.elems[i], g)
    [] t.kind = "range"  -> IsAtom(g) /\ WithinRange(t, g.value)
    [] t.kind = "prefix" -> IsAtom(g) /\ HasPrefix(g.value, t.value)
    [] t.kind = "suffix" -> IsAtom(g) /\ HasSuffix(g.value, t.value)
    [] t.kind = "list"   ->
         /\ IsList(g) /\ g.tag = t.tag
         /\ Len(t.elems) <= Len(g.elems)
         /\ \A i \in DOMAIN t.elems : Grants(t.elems[i], g.elems[i])

-----------------------------------------------------------------------------
ASSUME PartsOfUniverse ==
  Ordered \subseteq Universe /\ Contained \subseteq Universe /\ Requests \subseteq Universe

HasParts(e) == e.kind \in {"list", "set"}

\* What a parser or a program can build: parts belong to the universe as well.
ASSUME ElementsAreBuilt ==
  \A e \in Universe :
    /\ SizeOf(e) \in Nat
    /\ \/ e.kind = "atom" /\ e = Atom(e.value) /\ e.value \in Value
       \/ e.kind = "list" /\ e = List(e.tag, e.elems) /\ e.elems \in Seq(Universe)
       \/ e.kind = "set" /\ e = SetOf(e.elems) /\ e.elems \in Seq(Universe)
       \/ e = Wildcard
       \/ e \in RangeForm \union PrefixForm \union SuffixForm
    /\ HasParts(e) => \A i \in DOMAIN e.elems : SizeOf(e.elems[i]) < SizeOf(e)

ASSUME ClosedUnderParts ==
  /\ \A e \in Contained : HasParts(e) => \A i \in DOMAIN e.elems : e.elems[i] \in Contained
  /\ \A e \in Ordered : HasParts(e) => \A i \in DOMAIN e.elems : e.elems[i] \in Ordered
  /\ \A e \in Requests : HasParts(e) => \A i \in DOMAIN e.elems : e.elems[i] \in Requests

ASSUME RequestsAreGround == \A g \in Requests : ~IsStarForm(g)

\* A call of a function gives what the function gives.
ASSUME CallsAreMade ==
  /\ \A e, f \in Universe : Below(e, f) <=> LessPermissive(e, f)
  /\ \A e, f \in Universe : Same(e, f) <=> ElementsEqual(e, f)
  /\ \A e \in Universe, g \in Requests : Grants(e, g) <=> Permits(e, g)

\* The values of a range type are ordered as the code orders them; addresses
\* have no strict bounds, and date ranges have dates.
ASSUME OrdersAgree ==
  \A r \in Universe : r.kind = "range" =>
    \A b \in {r.lower, r.upper} : IsSet(b) =>
      /\ r.type \in AddressTypes => b.op \notin Strict
      /\ r.type = "date" => b.value \in Dates
      /\ \A v \in IF r.type = "date" THEN Dates ELSE Value :
           /\ ValueOrder(r.type, b.value, v) <=>
                IF r.type = "date" THEN Instant(b.value) <= Instant(v) ELSE StrLeq(b.value, v)
           /\ ValueOrder(r.type, v, b.value) <=>
                IF r.type = "date" THEN Instant(v) <= Instant(b.value) ELSE StrLeq(v, b.value)

\* compareRanges reads neither operators nor dates.
ASSUME InclusiveRanges ==
  \A e \in Contained \union Ordered : e.kind = "range" =>
    e.type # "date" /\ e.lower.op \notin Strict /\ e.upper.op \notin Strict

\* A set is not <= itself.
ASSUME OrderedHasNoSets == \A e \in Ordered : e.kind # "set"

VARIABLES s, t

Init == s \in Universe /\ t \in Universe
Next == UNCHANGED <<s, t>>
Spec == Init /\ [][Next]_<<s, t>>

Permitted(e) == {g \in Requests : Permits(e, g)}

-----------------------------------------------------------------------------
(* What the engine answers for a request for one thing is what the rule    *)
(* means: LessPermissive decides membership for ground queries.            *)
GroundExact ==
  \A g \in Requests : LessPermissive(g, t) <=> Permits(t, g)

(* S <= T only if every request S permits is permitted by T as well: a     *)
(* query with star forms never obtains more than the rule grants.          *)
ContainmentSound ==
  {s, t} \subseteq Contained /\ LessPermissive(s, t) => Permitted(s) \subseteq Permitted(t)

(* A rule that permits what a second one permits, which permits what a     *)
(* third one permits, is answered consistently: <= is transitive.          *)
Transitive ==
  {s, t} \subseteq Ordered /\ LessPermissive(s, t) =>
    \A u \in Ordered : LessPermissive(t, u) => LessPermissive(s, u)

(* Two rules that permit each other's requests are one rule: no two        *)
(* different elements are <= each other.                                   *)
Antisymmetric ==
  {s, t} \subseteq Ordered /\ LessPermissive(s, t) /\ LessPermissive(t, s) => s = t
=============================================================================

------------------------------ MODULE Compare ------------------------------
(***************************************************************************)
(* The relation S <= T of pkg/compare over elements: atoms, lists, and the *)
(* star forms of StarForms together with the wildcard and sets.            *)
(*                                                                         *)
(* Elements have parts, for which the functions call themselves.  The      *)
(* calls are constants here, which every configuration gives the functions *)
(* that they call: a theorem then knows no more of a recursive function    *)
(* than its equation.                                                      *)
(*                                                                         *)
(* An element is a record whose kind says which Go type it stands for:     *)
(*   [kind |-> "atom", value |-> v]             sexp.Atom                  *)
(*   [kind |-> "list", tag |-> t, elems |-> q]  sexp.List                  *)
(*   [kind |-> "wildcard"]                      starform.Wildcard          *)
(*   [kind |-> "set", elems |-> q]              starform.Set               *)
(*   and the RangeForm, PrefixForm and SuffixForm of StarForms.            *)
(***************************************************************************)
EXTENDS StarForms, Sequences

CONSTANTS
  Below(_, _),  \* LessPermissive, where it and compareLists call it
  Same(_, _)    \* elementsEqual, where it and Set.Match call it

Atom(v)    == [kind |-> "atom", value |-> v]
List(t, q) == [kind |-> "list", tag |-> t, elems |-> q]
Wildcard   == [kind |-> "wildcard"]
SetOf(q)   == [kind |-> "set", elems |-> q]

IsAtom(e)     == e.kind = "atom"
IsList(e)     == e.kind = "list"
IsStarForm(e) == ~IsAtom(e) /\ ~IsList(e)

\* elementsEqual: star forms are equal to nothing, themselves included.
ElementsEqual(a, b) ==
  \/ IsAtom(a) /\ IsAtom(b) /\ a.value = b.value
  \/ /\ IsList(a) /\ IsList(b)
     /\ a.tag = b.tag
     /\ Len(a.elems) = Len(b.elems)
     /\ \A i \in DOMAIN a.elems : Same(a.elems[i], b.elems[i])

\* The Match method of each star form; only a wildcard or a set can match a
\* value that is not an atom.
Match(t, e) ==
  \/ t.kind = "wildcard"
  \/ t.kind = "set" /\ \E i \in DOMAIN t.elems : Same(e, t.elems[i])
  \/ t.kind = "range" /\ IsAtom(e) /\ MatchRange(t, e.value)
  \/ t.kind = "prefix" /\ IsAtom(e) /\ MatchPrefix(t, e.value)
  \/ t.kind = "suffix" /\ IsAtom(e) /\ MatchSuffix(t, e.value)

\* compareStarForms: forms of different types are unrelated, and so are two
\* sets.
CompareStarForms(s, t) ==
  \/ t.kind = "wildcard"
  \/ s.kind = "range" /\ t.kind = "range" /\ CompareRanges(s, t)
  \/ s.kind = "prefix" /\ t.kind = "prefix" /\ ComparePrefixes(s, t)
  \/ s.kind = "suffix" /\ t.kind = "suffix" /\ CompareSuffixes(s, t)

\* A rule that forgets about the tag.
CoversAnyTag(s, t) == Len(t.elems) <= Len(s.elems)

\* compareLists: T constrains a leading part of S.
Covers(s, t) == s.tag = t.tag /\ Len(t.elems) <= Len(s.elems)

CompareLists(s, t) ==
  Covers(s, t) /\ \A i \in DOMAIN t.elems : Below(s.elems[i], t.elems[i])

\* The rules of compare.go, one disjunct each, with the early returns of
\* the earlier rules as guards of the later ones.
LessPermissive(s, t) ==
  \/ t.kind = "wildcard"
  \/ IsAtom(s) /\ IsAtom(t) /\ s.value = t.value
  \/ IsAtom(s) /\ IsStarForm(t) /\ Match(t, s)
  \/ IsStarForm(s) /\ IsStarForm(t) /\ CompareStarForms(s, t)
  \/ IsList(s) /\ IsList(t) /\ CompareLists(s, t)
  \/ /\ s.kind = "set" /\ ~IsStarForm(t)
     /\ \A i \in DOMAIN s.elems : Below(s.elems[i], t)
  \/ /\ t.kind = "set" /\ ~IsStarForm(s)
     /\ \E i \in DOMAIN t.elems : Below(s, t.elems[i])
=============================================================================

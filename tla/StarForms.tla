----------------------------- MODULE StarForms -----------------------------
(***************************************************************************)
(* The star forms of restricted S-expressions (pkg/starform) and the       *)
(* containment tests between star forms of the same type (pkg/compare).    *)
(* A star form denotes a set of octet strings; Match says which, and the   *)
(* Compare operators decide whether one form is contained in another.      *)
(*                                                                         *)
(* Octet strings are abstract: all the code asks of them is their          *)
(* lexicographic order, whether one starts or ends with another, and, for  *)
(* date ranges, whether they parse as RFC 3339 and to which instant.       *)
(***************************************************************************)
EXTENDS Integers

CONSTANTS
  Value,            \* octet strings
  StrLeq(_, _),     \* the order of Go's <= on strings
  HasPrefix(_, _),  \* HasPrefix(v, p): v starts with p
  HasSuffix(_, _),  \* HasSuffix(v, p): v ends with p
  Dates,            \* the strings time.Parse(time.RFC3339, .) accepts
  Instant(_)        \* the instant such a string denotes

ASSUME StringOrder ==
  /\ \A v \in Value : StrLeq(v, v)
  /\ \A v, w \in Value : StrLeq(v, w) \/ StrLeq(w, v)
  /\ \A v, w \in Value : StrLeq(v, w) /\ StrLeq(w, v) => v = w
  /\ \A u, v, w \in Value : StrLeq(u, v) /\ StrLeq(v, w) => StrLeq(u, w)

ASSUME AffixOrder ==
  /\ \A u, v, w \in Value : HasPrefix(u, v) /\ HasPrefix(v, w) => HasPrefix(u, w)
  /\ \A u, v, w \in Value : HasSuffix(u, v) /\ HasSuffix(v, w) => HasSuffix(u, w)
  /\ \A v, w \in Value : HasPrefix(v, w) /\ HasPrefix(w, v) => v = w
  /\ \A v, w \in Value : HasSuffix(v, w) /\ HasSuffix(w, v) => v = w

ASSUME DatesHaveInstants ==
  /\ Dates \subseteq Value
  /\ \A d \in Dates : Instant(d) \in Int

-----------------------------------------------------------------------------
(***************************************************************************)
(* Ranges.  A missing bound is the nil pointer of the code.                *)
(***************************************************************************)
StringTypes  == {"alpha", "numeric", "time"}
AddressTypes == {"ipv4", "ipv6"}
RangeType    == StringTypes \union AddressTypes \union {"date"}

NoBound  == [op |-> "none"]
IsSet(b) == b.op # "none"
Strict   == {"gt", "lt"}

LowerBound == {NoBound} \union [op : {"ge", "gt"}, value : Value]
UpperBound == {NoBound} \union [op : {"le", "lt"}, value : Value]

RangeForm == [kind : {"range"}, type : RangeType, lower : LowerBound, upper : UpperBound]

\* String matching that takes every bound to be inclusive.
MatchStringInclusive(r, v) ==
  /\ IsSet(r.lower) => StrLeq(r.lower.value, v)
  /\ IsSet(r.upper) => StrLeq(v, r.upper.value)

\* matchAlpha and matchNumeric, which compare in the same way, and the time
\* branch of matchDateTime, which calls matchAlpha.
MatchString(r, v) ==
  /\ IsSet(r.lower) => /\ StrLeq(r.lower.value, v)
                       /\ r.lower.op \in Strict => v # r.lower.value
  /\ IsSet(r.upper) => /\ StrLeq(v, r.upper.value)
                       /\ r.upper.op \in Strict => v # r.upper.value

\* The date branch of matchDateTime: a value or a bound that does not parse
\* matches nothing.
MatchDate(r, v) ==
  /\ v \in Dates
  /\ IsSet(r.lower) => /\ r.lower.value \in Dates
                       /\ Instant(r.lower.value) <= Instant(v)
                       /\ r.lower.op \in Strict => Instant(v) # Instant(r.lower.value)
  /\ IsSet(r.upper) => /\ r.upper.value \in Dates
                       /\ Instant(v) <= Instant(r.upper.value)
                       /\ r.upper.op \in Strict => Instant(v) # Instant(r.upper.value)

\* matchIP compares the text of the addresses and never looks at the operator.
MatchAddress(r, v) ==
  /\ IsSet(r.lower) => StrLeq(r.lower.value, v)
  /\ IsSet(r.upper) => StrLeq(v, r.upper.value)

MatchRange(r, v) ==
  \/ r.type \in StringTypes /\ MatchString(r, v)
  \/ r.type = "date" /\ MatchDate(r, v)
  \/ r.type \in AddressTypes /\ MatchAddress(r, v)

\* A containment test that forgets that a missing bound of S is no bound.
CompareRangesNilBlind(s, t) ==
  /\ s.type = t.type
  /\ IsSet(t.lower) /\ IsSet(s.lower) => StrLeq(t.lower.value, s.lower.value)
  /\ IsSet(t.upper) /\ IsSet(s.upper) => StrLeq(s.upper.value, t.upper.value)

\* compareRanges: bounds of every type are compared as strings, and their
\* operators are not compared at all.
CompareRanges(s, t) ==
  /\ s.type = t.type
  /\ IsSet(t.lower) => IsSet(s.lower) /\ StrLeq(t.lower.value, s.lower.value)
  /\ IsSet(t.upper) => IsSet(s.upper) /\ StrLeq(s.upper.value, t.upper.value)

-----------------------------------------------------------------------------
(***************************************************************************)
(* Prefixes and suffixes.                                                  *)
(***************************************************************************)
PrefixForm == [kind : {"prefix"}, value : Value]
SuffixForm == [kind : {"suffix"}, value : Value]

MatchPrefix(p, v) == HasPrefix(v, p.value)
MatchSuffix(p, v) == HasSuffix(v, p.value)

ComparePrefixes(s, t) == HasPrefix(s.value, t.value)

\* The containment test with its arguments swapped.
CompareSuffixesSwapped(s, t) == HasSuffix(t.value, s.value)

CompareSuffixes(s, t) == HasSuffix(s.value, t.value)
=============================================================================

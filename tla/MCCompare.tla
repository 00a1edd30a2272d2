----------------------------- MODULE MCCompare -----------------------------
(***************************************************************************)
(* CompareSpec on octet strings of one or two digits, a few of which stand *)
(* for dates.  Digits are enough to tell the orders of the code apart:     *)
(* "12" is before "2" as text and after it as a number, and date 8 is      *)
(* after date 7 as text and before it as an instant, as texts with         *)
(* different zone offsets are.                                             *)
(***************************************************************************)
EXTENDS CompareSpec, MCCalls, FiniteSets

LOCAL INSTANCE SequencesExt

MCValue == {<<1>>, <<2>>, <<1, 2>>, <<2, 1>>, <<7>>, <<8>>, <<9>>}

MCStrLeq(v, w) ==
  \/ IsPrefix(v, w)
  \/ \E i \in DOMAIN v \intersect DOMAIN w :
       SubSeq(v, 1, i - 1) = SubSeq(w, 1, i - 1) /\ v[i] < w[i]

MCHasPrefix(v, p) == IsPrefix(p, v)
MCHasSuffix(v, p) == IsSuffix(p, v)

MCDates == {<<7>>, <<8>>, <<9>>}
MCInstant(v) == CASE v = <<7>> -> 2 [] v = <<8>> -> 1 [] OTHER -> 3

Number(v) == IF Len(v) = 1 THEN v[1] ELSE 10 * v[1] + v[2]

\* The meaning of a range type: text, number or instant.
MCValueOrder(type, v, w) ==
  CASE type = "numeric" -> Number(v) <= Number(w)
    [] type = "date"    -> Instant(v) <= Instant(w)
    [] OTHER            -> StrLeq(v, w)

MCGrants(rule, g) == LET answer == Permits(rule, g) IN answer

\* The number of elements in an element.
RECURSIVE Size(_)
Size(e) ==
  IF HasParts(e) THEN FoldLeft(LAMBDA n, part : n + Size(part), 1, e.elems) ELSE 1

-----------------------------------------------------------------------------
Texts == MCValue \ MCDates

Bounds(ops, values) == {NoBound} \union [op : ops, value : values]

Ranges(type, lowerOps, upperOps, values) ==
  [kind : {"range"}, type : {type},
   lower : Bounds(lowerOps, values), upper : Bounds(upperOps, values)]

Atoms    == {Atom(v) : v \in MCValue}
Affixes  == [kind : {"prefix", "suffix"}, value : Texts]
AlphaIncl  == Ranges("alpha", {"ge"}, {"le"}, {<<1>>, <<1, 2>>, <<2>>})
Alpha      == Ranges("alpha", {"ge", "gt"}, {"le", "lt"}, {<<1>>, <<1, 2>>, <<2>>})
Others     == UNION {Ranges(type, {"ge"}, {"le"}, {<<1>>}) : type \in {"numeric", "time", "ipv4"}}
DateRanges == Ranges("date", {"ge", "gt"}, {"le", "lt"}, MCDates)

\* Lists of up to two elements of E, under two tags.
ListsOf(E) ==
  {List(g, q) : g \in {"a", "b"},
                q \in {<<>>} \union {<<x>> : x \in E} \union {<<x, y>> : x \in E, y \in E}}

AtomPair == {Atom(<<1>>), Atom(<<2>>)}
SmallSets ==
  {SetOf(q) : q \in {<<>>, <<Atom(<<1>>)>>, <<Atom(<<1>>), Atom(<<2, 1>>)>>,
                     <<[kind |-> "prefix", value |-> <<1>>], Atom(<<2>>)>>,
                     <<List("a", <<Atom(<<1>>)>>), Atom(<<2>>)>>}}

MCRequests ==
  Atoms \union ListsOf(AtomPair)
        \union {List("a", <<List("b", <<Atom(<<1>>)>>)>>)}

\* Everything the parser produces: atoms and lists, nested.
Parsed ==
  Atoms \union ListsOf(AtomPair \union {List("b", <<Atom(<<1>>)>>), List("b", <<>>)})

\* No sets and no strict bounds: where <= is a partial order.
Setless ==
  Parsed \union Affixes \union AlphaIncl \union Others \union {Wildcard}
    \union ListsOf({Atom(<<1>>), Wildcard})

\* Every star form except ranges with bounds that compareRanges does not read
\* as Match does: strict bounds and dates.
Inclusive ==
  Setless \union SmallSets \union ListsOf({Atom(<<1>>), [kind |-> "prefix", value |-> <<1>>]})

\* Every star form that a ground value is tested against in the right order.
Exact == Inclusive \union Alpha \union DateRanges
=============================================================================

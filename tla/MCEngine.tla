------------------------------ MODULE MCEngine ------------------------------
(***************************************************************************)
(* The engine over real elements, related by the LessPermissive of         *)
(* Compare.  Octet strings are the numbers 1 and 2; nothing here depends   *)
(* on their texts.                                                         *)
(***************************************************************************)
EXTENDS Engine, MCCalls

MCValue == {1, 2}
MCStrLeq(v, w) == v <= w
MCAffix(v, w) == v = w
MCInstant(v) == v

a   == List("a", <<>>)
a1  == List("a", <<Atom(1)>>)
b1  == List("b", <<Atom(1)>>)
one == Atom(1)

\* What the parser can produce: atoms and lists.
Parsed == {a, a1, b1, one}

\* With star forms, which programs build and hand to AddRuleElement.
StarForms == {Wildcard, SetOf(<<one, b1>>)}
WithStars == Parsed \union StarForms
NoStars   == {}

ElementTag(e) == e.tag
MCTag == {"a", "b"}

ParsedBatches == {<<a1>>, <<b1, one, a>>}
EngineBatches == {<<a1, Wildcard>>, <<b1, one, a>>}
=============================================================================

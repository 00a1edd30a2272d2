---------------------------- MODULE MCRuleFiles ----------------------------
(***************************************************************************)
(* RuleFiles with the rules that the formats treat differently.            *)
(***************************************************************************)
EXTENDS RuleFiles

LOCAL INSTANCE SequencesExt

a == <<97>>
b == <<98>>

\* Atoms: plain, empty, with a space at the end, with a line that is a rule of
\* its own, with octets that mean something to one of the parsers, and of ten
\* octets.
MCAtoms ==
  {Atom(v) : v \in {a, <<>>, <<97, Space>>, <<Newline, 49, Colon, 97, Newline>>,
                    <<49, Colon, Open, Close>>, <<Quote>>, [i \in 1..10 |-> 97]}}

MCLists ==
  {List(a, q) :
     q \in {<<>>, <<Atom(b)>>, <<Atom(<<>>)>>, <<Atom(b), Atom(<<Newline>>)>>,
            <<List(b, <<>>)>>, <<List(b, <<Atom(a)>>), Atom(a)>>,
            <<List(b, <<List(a, <<Atom(b)>>)>>)>>, <<Wildcard>>, <<SetOf(<<Atom(b)>>)>>}}

MCRules == MCAtoms \union MCLists

\* The rules and their parts.
PartsOf(S) == UNION {ToSet(e.elems) : e \in {x \in S : HasParts(x)}}

MCElements == MCRules \union PartsOf(MCRules) \union PartsOf(PartsOf(MCRules))

\* The number of elements in an element.
RECURSIVE Size(_)
Size(e) ==
  IF HasParts(e) THEN FoldLeft(LAMBDA n, part : n + Size(part), 1, e.elems) ELSE 1

\* Every rule alone, and two or three of them before or after others.
MCRuleLists ==
  LET two == <<List(a, <<Atom(b)>>), Atom(a)>>
  IN  {<<>>, two} \union {<<e>> : e \in MCRules} \union {<<e, List(a, <<Atom(b)>>)>> : e \in MCRules}
        \union {Append(two, e) : e \in MCLists}
=============================================================================

-------------------------------- MODULE SExp --------------------------------
(***************************************************************************)
(* Canonical S-expressions as octets (pkg/sexp): the printers and the      *)
(* parser, which keeps what it has not read yet instead of a position.     *)
(***************************************************************************)
EXTENDS Wire

CONSTANTS
  Elements,   \* the elements that are printed
  SizeOf(_)   \* the size of an element

Open  == 40
Close == 41
Space == 32
Star  == 42

-----------------------------------------------------------------------------
(***************************************************************************)
(* Elements and their printed forms.  Of the star forms, the wildcard and  *)
(* the set stand for all: the others print as lists under the tag * too.   *)
(***************************************************************************)
Atom(v)        == [kind |-> "atom", value |-> v]
List(g, elems) == [kind |-> "list", tag |-> g, elems |-> elems]
Wildcard       == [kind |-> "wildcard"]
SetOf(elems)   == [kind |-> "set", elems |-> elems]

HasParts(e) == e.kind \in {"list", "set"}
Parts(e)    == IF HasParts(e) THEN e.elems ELSE <<>>

\* What a parser or a program can build: parts are elements as well.
ASSUME ElementsAreBuilt ==
  \A e \in Elements :
    /\ SizeOf(e) \in Nat
    /\ \/ e.kind = "atom" /\ e = Atom(e.value) /\ e.value \in Octets
       \/ /\ e.kind = "list" /\ e = List(e.tag, e.elems)
          /\ e.tag \in Octets /\ e.elems \in Seq(Elements)
       \/ e.kind = "set" /\ e = SetOf(e.elems) /\ e.elems \in Seq(Elements)
       \/ e = Wildcard
    /\ \A i \in DOMAIN Parts(e) : SizeOf(Parts(e)[i]) < SizeOf(e)

SetName == <<115, 101, 116>>

ListString(g, parts) == <<Open>> \o LengthValue(g) \o Concat(parts) \o <<Close>>

\* An element of which the parts are printed already.
Printed(e, parts) ==
  CASE e.kind = "atom"     -> LengthValue(e.value)
    [] e.kind = "list"     -> ListString(e.tag, parts)
    [] e.kind = "wildcard" -> ListString(<<Star>>, <<>>)
    [] e.kind = "set"      -> ListString(<<Star>>, <<LengthValue(SetName)>> \o parts)

String[e \in Elements] == Printed(e, [i \in DOMAIN Parts(e) |-> String[Parts(e)[i]]])

\* The form for human readers, in which a star form is nothing.
Advanced(e, parts) ==
  CASE e.kind = "atom" -> e.value
    [] e.kind = "list" ->
         <<Open>> \o e.tag \o Concat([i \in DOMAIN parts |-> <<Space>> \o parts[i]]) \o <<Close>>
    [] OTHER           -> <<>>

AdvancedForm[e \in Elements] ==
  Advanced(e, [i \in DOMAIN Parts(e) |-> AdvancedForm[Parts(e)[i]]])

-----------------------------------------------------------------------------
(***************************************************************************)
(* The parser.  It never makes a star form, and leaves what follows the    *)
(* element to its caller, who ignores it.                                  *)
(***************************************************************************)
Failure         == [kind |-> "failure"]
Panic           == [kind |-> "panic"]       \* a slice that ends before it begins
Parsed(e, rest) == [kind |-> "parsed", elem |-> e, rest |-> rest]

ParseAtom(input) ==
  LET colon  == IndexByte(input, Colon)
      digits == SubSeq(input, 1, colon - 1)
      rest   == SubSeq(input, colon + 1, Len(input))
      length == Atoi(digits)
  IN  IF colon = 0 \/ ~IsNumber(digits) \/ Len(rest) < length THEN Failure
      ELSE IF length < 0 THEN Panic
      ELSE Parsed(Atom(SubSeq(rest, 1, length)), SubSeq(rest, length + 1, Len(rest)))

\* A list of which the tag and some elements are read, and one round of the loop
\* of parseList, which calls parse for an element.
Unclosed(g, elems, rest) == [kind |-> "unclosed", tag |-> g, elems |-> elems, rest |-> rest]

AddElement(list, next) ==
  IF next.kind = "parsed" THEN Unclosed(list.tag, Append(list.elems, next.elem), next.rest)
  ELSE next

ReadElement(list, parse) ==
  CASE list.kind # "unclosed" -> list
    [] list.kind = "unclosed" /\ list.rest = <<>> -> Failure
    [] list.kind = "unclosed" /\ list.rest # <<>> /\ Head(list.rest) = Close ->
         Parsed(List(list.tag, list.elems), Tail(list.rest))
    [] OTHER -> AddElement(list, parse[list.rest])

\* Every round but the last reads an octet or more, so that the loop has ended
\* when it has gone round as often as there are octets.
ReadElements(list, n, parse) ==
  LET loop[i \in 0..n] == IF i = 0 THEN list ELSE ReadElement(loop[i - 1], parse)
  IN  loop

ParseList(input, parse) ==
  LET tag == ParseAtom(Tail(input))
  IN  IF tag.kind = "parsed"
      THEN ReadElements(Unclosed(tag.elem.value, <<>>, tag.rest), Len(input), parse)[Len(input)]
      ELSE tag

Parse[input \in Octets] ==
  IF input = <<>> THEN Failure
  ELSE IF Head(input) = Open THEN ParseList(input, Parse) ELSE ParseAtom(input)
=============================================================================

------------------------------ MODULE AuthZen ------------------------------
(***************************************************************************)
(* AuthZEN evaluation requests and the queries they are turned into        *)
(* (pkg/authzen).                                                          *)
(*                                                                         *)
(* A value of a property, as decoded from JSON, is a text (a string, or    *)
(* what a number, a boolean or null is printed as), an array of such       *)
(* texts, or an object.  An object, the properties and the context are     *)
(* functions from their keys.  Go visits the entries of a map in any       *)
(* order, so that a request has a set of queries, one for every order.     *)
(*                                                                         *)
(* Values have parts, for which the functions call themselves.  As in      *)
(* Compare, the calls are constants, which a configuration gives the       *)
(* functions that they call.                                               *)
(***************************************************************************)
EXTENDS Compare, FiniteSets, Functions

CONSTANTS
  Requests,      \* evaluation requests
  Values,        \* the values of their properties, and the values inside those
  NestingOf(_),  \* how deep a value is nested
  Written(_),    \* PropertyParts, where propertyToSExp calls itself
  Held(_)        \* ValuesOf, where it calls itself

Text(t)        == [kind |-> "text", text |-> t]
Array(items)   == [kind |-> "array", items |-> items]
Object(fields) == [kind |-> "object", fields |-> fields]

NoEntries == <<>>   \* the function without arguments

IsMap(map) == IsFiniteSet(DOMAIN map) /\ map \in [DOMAIN map -> Values]

\* What the decoder of JSON builds.
ASSUME ValuesAreDecoded ==
  \A v \in Values :
    /\ NestingOf(v) \in Nat
    /\ \/ v.kind = "text" /\ v = Text(v.text)
       \/ v.kind = "array" /\ v = Array(v.items) /\ v.items \in Seq(STRING)
       \/ /\ v.kind = "object" /\ v = Object(v.fields) /\ IsMap(v.fields)
          /\ \A k \in DOMAIN v.fields : NestingOf(v.fields[k]) < NestingOf(v)

Maps(r) == {r.resource.properties, r.action.properties, r.subject.properties, r.context}

ASSUME RequestsAreDecoded ==
  \A r \in Requests :
    /\ r = [resource |-> r.resource, action |-> r.action, subject |-> r.subject,
            context |-> r.context]
    /\ \A x \in {r.resource, r.subject} :
         x = [type |-> x.type, id |-> x.id, properties |-> x.properties]
    /\ r.action = [name |-> r.action.name, properties |-> r.action.properties]
    /\ \A map \in Maps(r) : IsMap(map)

-----------------------------------------------------------------------------
Entry(key, text) == List(key, <<Atom(text)>>)

\* The orders in which a loop may visit the keys of a map, and what may come of
\* their values.
Orders(map) == Bijection(1..Cardinality(DOMAIN map), DOMAIN map)

Choices(map) ==
  {parts \in [DOMAIN map -> UNION {Written(map[k]) : k \in DOMAIN map}] :
     \A k \in DOMAIN map : parts[k] \in Written(map[k])}

\* The loop of propertyToSExp or ToSExpression over a map: the lists that its
\* entries become, one after the other.
Visits(map) ==
  {[i \in DOMAIN keys |-> List(keys[i], parts[keys[i]])] :
     keys \in Orders(map), parts \in Choices(map)}

\* propertyToSExp: what stands behind the key in the list that a value becomes.
PropertyParts(v) ==
  CASE v.kind = "text"   -> {<<Atom(v.text)>>}
    [] v.kind = "array"  -> {[i \in DOMAIN v.items |-> Atom(v.items[i])]}
    [] v.kind = "object" -> Visits(v.fields)

\* What is empty is left out.
Present(key, text) == IF text = "" THEN <<>> ELSE <<Entry(key, text)>>

Identity(s) == Present("type", s.type) \o Present("id", s.id)

\* Subjects without the words that tell the type from the id.
SubjectsWithoutWords(s) ==
  {List("subject", [i \in DOMAIN Identity(s) |-> Identity(s)[i].elems[1]] \o q) :
     q \in Visits(s.properties)}

Subjects(s) == {List("subject", Identity(s) \o q) : q \in Visits(s.properties)}

Actions(a) == {List("action", <<Atom(a.name)>> \o q) : q \in Visits(a.properties)}

Contexts(c) ==
  IF DOMAIN c = {} THEN {<<>>} ELSE {<<List("context", q)>> : q \in Visits(c)}

ToSExpression(r) ==
  {List(r.resource.type, Present("id", r.resource.id) \o q \o <<action, subject>> \o context) :
     q \in Visits(r.resource.properties), action \in Actions(r.action),
     subject \in Subjects(r.subject), context \in Contexts(r.context)}

-----------------------------------------------------------------------------
(***************************************************************************)
(* The requests that the conversion treats as one would expect.            *)
(***************************************************************************)
\* The values in a map, and those in a value: itself and the values inside it.
ValuesIn(map) == UNION {Held(map[k]) : k \in DOMAIN map}

ValuesOf(v) == {v} \union (IF v.kind = "object" THEN ValuesIn(v.fields) ELSE {})

\* A call of a function gives what the function gives.
ASSUME ValuesAreVisited ==
  \A v \in Values : Written(v) = PropertyParts(v) /\ Held(v) = ValuesOf(v)

\* There is one order only.
FewEntries(map) == Cardinality(DOMAIN map) <= 1

HasOneOrder(map) ==
  FewEntries(map) /\ \A v \in ValuesIn(map) : v.kind = "object" => FewEntries(v.fields)

Settled(r) == \A map \in Maps(r) : HasOneOrder(map)

\* No property has the name of what stands beside it, and no value is an array
\* that reads like another value.
ReadsUniquely(v) ==
  /\ v.kind = "array" => Len(v.items) >= 2
  /\ v.kind = "object" => DOMAIN v.fields # {}

Plain(r) ==
  /\ "id" \notin DOMAIN r.resource.properties
  /\ DOMAIN r.subject.properties \intersect {"type", "id"} = {}
  /\ \A map \in Maps(r) : \A v \in ValuesIn(map) : ReadsUniquely(v)
=============================================================================

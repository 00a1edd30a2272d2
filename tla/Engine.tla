------------------------------- MODULE Engine -------------------------------
(***************************************************************************)
(* The policy engine (type Engine, spocp.go): the rules, and an index from *)
(* the tag of a list to the places of the rules with that tag.  A rule     *)
(* that is not a list is kept in a second index, atomRules.                *)
(*                                                                         *)
(* The engine has no lock of its own; whoever shares it serializes the     *)
(* calls.  The operations that add many rules are loops over               *)
(* AddRuleElement: pending holds what is left of the loop that is running, *)
(* and no other operation starts before it is empty.                       *)
(*                                                                         *)
(* Indices start at 1 here and at 0 in the code.                           *)
(***************************************************************************)
EXTENDS Integers, Sequences, FiniteSets

LOCAL SX == INSTANCE SequencesExt

CONSTANTS
  Element,        \* rules and queries
  StarForm,       \* those that are star forms themselves
  IsListRule(_),  \* is the element a *sexp.List?
  TagOf(_),       \* the tag of a list
  Tag,            \* all tags
  Leq(_, _),      \* compare.LessPermissive
  Batches,        \* sequences of rules: the contents of files, and imports
  MaxRules        \* bound on the number of rules

ASSUME ElementsHaveTags ==
  /\ StarForm \subseteq Element
  /\ \A e \in StarForm : ~IsListRule(e)
  /\ \A e \in Element : IsListRule(e) \in BOOLEAN
  /\ \A e \in Element : IsListRule(e) => TagOf(e) \in Tag
  /\ \A e, f \in Element : Leq(e, f) \in BOOLEAN

\* Only a star form relates a list to something that is not a list, and lists
\* are related only under the same tag.
ASSUME LeqRespectsTags ==
  \A e, f \in Element \ StarForm :
    Leq(e, f) => /\ IsListRule(e) <=> IsListRule(f)
                 /\ IsListRule(e) => TagOf(e) = TagOf(f)

ASSUME BatchesAreRules == Batches \subseteq Seq(Element)

ASSUME MaxRulesIsNat == MaxRules \in Nat

VARIABLES
  rules,         \* the rules, in insertion order
  tagIndex,      \* tag -> places of its rules; <<>> for a tag not in the map
  atomRules,     \* places of the rules that are not lists
  indexEnabled,  \* whether queries use the index
  pending        \* rules the running load or import has still to add

vars == <<rules, tagIndex, atomRules, indexEnabled, pending>>

-----------------------------------------------------------------------------
EmptyIndex == /\ tagIndex = [g \in Tag |-> <<>>]
              /\ atomRules = <<>>

\* NewEngine (indexed) and NewEngineWithIndexing.
Init ==
  /\ rules = <<>>
  /\ EmptyIndex
  /\ indexEnabled \in BOOLEAN
  /\ pending = <<>>

Idle == pending = <<>>

\* Indexing that counts from 0 where its readers count from 1.
IndexRuleOffByOne(r) ==
  IF IsListRule(r)
    THEN /\ tagIndex' = [tagIndex EXCEPT ![TagOf(r)] = Append(@, Len(rules))]
         /\ UNCHANGED atomRules
    ELSE /\ atomRules' = Append(atomRules, Len(rules))
         /\ UNCHANGED tagIndex

\* Indexing that keeps one rule per tag.
IndexRuleLastOnly(r) ==
  IF IsListRule(r)
    THEN /\ tagIndex' = [tagIndex EXCEPT ![TagOf(r)] = <<Len(rules) + 1>>]
         /\ UNCHANGED atomRules
    ELSE /\ atomRules' = Append(atomRules, Len(rules) + 1)
         /\ UNCHANGED tagIndex

\* Indexing that puts the newest rule of a tag first.
IndexRuleNewestFirst(r) ==
  IF IsListRule(r)
    THEN /\ tagIndex' = [tagIndex EXCEPT ![TagOf(r)] = <<Len(rules) + 1>> \o @]
         /\ UNCHANGED atomRules
    ELSE /\ atomRules' = Append(atomRules, Len(rules) + 1)
         /\ UNCHANGED tagIndex

\* The place of a new rule goes to the index of its kind.
IndexRule(r) ==
  IF IsListRule(r)
    THEN /\ tagIndex' = [tagIndex EXCEPT ![TagOf(r)] = Append(@, Len(rules) + 1)]
         /\ UNCHANGED atomRules
    ELSE /\ atomRules' = Append(atomRules, Len(rules) + 1)
         /\ UNCHANGED tagIndex

AddRuleElement(r) ==
  /\ rules' = Append(rules, r)
  /\ IF indexEnabled THEN IndexRule(r) ELSE UNCHANGED <<tagIndex, atomRules>>
  /\ UNCHANGED indexEnabled

\* Clear that leaves the index behind.
ClearRulesKeepIndex ==
  /\ rules' = <<>>
  /\ UNCHANGED <<tagIndex, atomRules, indexEnabled>>

\* Clear empties the index only when the index is in use.
ClearRules ==
  /\ rules' = <<>>
  /\ IF indexEnabled
       THEN tagIndex' = [g \in Tag |-> <<>>] /\ atomRules' = <<>>
       ELSE UNCHANGED <<tagIndex, atomRules>>
  /\ UNCHANGED indexEnabled

\* AddRule, whose text parses to r; a text that does not parse changes nothing.
AddRule(r) ==
  /\ Idle
  /\ Len(rules) < MaxRules
  /\ AddRuleElement(r)
  /\ UNCHANGED pending

Clear ==
  /\ Idle
  /\ ClearRules
  /\ UNCHANGED pending

\* LoadRulesFromFile: the whole file is read before the first rule is added;
\* a file that cannot be read changes nothing.
LoadRulesFromFile(b) ==
  /\ Idle
  /\ Len(rules) + Len(b) <= MaxRules
  /\ pending' = b
  /\ UNCHANGED <<rules, tagIndex, atomRules, indexEnabled>>

ImportRules(b) ==
  /\ Idle
  /\ Len(b) <= MaxRules
  /\ ClearRules
  /\ pending' = b

\* A loop that takes the rules from the end of the file.
AddPendingLastFirst ==
  /\ pending # <<>>
  /\ AddRuleElement(SX!Last(pending))
  /\ pending' = SX!Front(pending)

\* One round of the loop of LoadRulesFromFile or ImportRules.
AddPending ==
  /\ pending # <<>>
  /\ AddRuleElement(Head(pending))
  /\ pending' = Tail(pending)

Next ==
  \/ \E r \in Element : AddRule(r)
  \/ Clear
  \/ \E b \in Batches : LoadRulesFromFile(b) \/ ImportRules(b)
  \/ AddPending

Spec == Init /\ [][Next]_vars

-----------------------------------------------------------------------------
(***************************************************************************)
(* Queries read the state and change nothing.                              *)
(***************************************************************************)
\* The places that the index has for a query, and all of them.
IndexPlaces(q) == IF IsListRule(q) THEN tagIndex[TagOf(q)] ELSE atomRules
RulePlaces     == [i \in DOMAIN rules |-> i]

\* The places a query looks at, in the order in which it looks.
Candidates(q) == IF indexEnabled THEN IndexPlaces(q) ELSE RulePlaces

Hit(q, i) == i \in DOMAIN rules /\ Leq(q, rules[i])

\* The loop of a query, which ends at a match.  A place past the end of rules,
\* met before one, is an index out of range in the code: the query panics
\* instead of answering.
Search(q, places) ==
  LET hits == {k \in DOMAIN places : Hit(q, places[k])}
      past == {k \in DOMAIN places : places[k] \notin DOMAIN rules}
  IN  IF \E k \in past : \A j \in hits : k < j THEN "panic"
      ELSE IF hits # {} THEN "permit"
      ELSE "deny"

\* QueryElement: queryIndexed, queryByTag or queryLinear.
QueryElement(q) == Search(q, Candidates(q)) = "permit"

\* FindMatchingRules looks at every candidate, and panics at any that is past
\* the end.
FindPanics(q) == \E k \in DOMAIN Candidates(q) : Candidates(q)[k] \notin DOMAIN rules

\* The loop of FindMatchingRules over places of the index: what has been found
\* after each round.
FindAmong(q, places) ==
  LET found[k \in 0..Len(places)] ==
        IF k = 0 THEN <<>>
        ELSE IF Hit(q, places[k]) THEN Append(found[k - 1], rules[places[k]])
        ELSE found[k - 1]
  IN  found

\* FindMatchingRules, where it does not panic.
FindMatchingRules(q) == FindAmong(q, Candidates(q))[Len(Candidates(q))]

\* queryLinear, the definition of the answer: some rule is above the query.
QueryLinear(q) == \E i \in DOMAIN rules : Leq(q, rules[i])

\* The loop of FindMatchingRules over the rules themselves: the definition of
\* what is to be found, in what order and how often.
FindLinear(q) ==
  LET found[i \in 0..Len(rules)] ==
        IF i = 0 THEN <<>>
        ELSE IF Leq(q, rules[i]) THEN Append(found[i - 1], rules[i])
        ELSE found[i - 1]
  IN  found

-----------------------------------------------------------------------------
(***************************************************************************)
(* Properties.                                                             *)
(***************************************************************************)
TypeOK ==
  /\ rules \in Seq(Element)
  /\ tagIndex \in [Tag -> Seq(Nat \ {0})]
  /\ atomRules \in Seq(Nat \ {0})
  /\ indexEnabled \in BOOLEAN
  /\ pending \in Seq(Element)

PlacesOf(g) == {i \in DOMAIN rules : IsListRule(rules[i]) /\ TagOf(rules[i]) = g}
OtherPlaces == {i \in DOMAIN rules : ~IsListRule(rules[i])}

\* ix lists the members of S once each, in ascending order.
Ascends(ix, S) == /\ {ix[k] : k \in DOMAIN ix} = S
                  /\ \A j, k \in DOMAIN ix : j < k => ix[j] < ix[k]

(* The index holds the place of every rule once, in insertion order, under *)
(* the rule's own tag or among the atoms, and nothing else.                *)
IndexListsRules ==
  /\ \A g \in Tag : Ascends(tagIndex[g], PlacesOf(g))
  /\ Ascends(atomRules, OtherPlaces)

(* The index lists the rules while it is in use, whatever loads, clears    *)
(* and imports came before.                                                *)
IndexExact == indexEnabled => IndexListsRules

(* No query reads past the end of the rules, whether it looks for the      *)
(* first match or for all of them.                                         *)
NoPanic == \A q \in Element : Search(q, Candidates(q)) # "panic" /\ ~FindPanics(q)

(* On rules and queries that are not star forms themselves (all that the   *)
(* parser produces), the index gives the answer of the linear search.      *)
IndexedAnswersAreLinear ==
  (\A i \in DOMAIN rules : rules[i] \notin StarForm) =>
    \A q \in Element \ StarForm : QueryElement(q) <=> QueryLinear(q)

(* FindMatchingRules returns the matching rules in insertion order, each   *)
(* as often as it was added, with the index as without it.                 *)
FindsWhatLinearFinds ==
  (\A i \in DOMAIN rules : rules[i] \notin StarForm) =>
    \A q \in Element \ StarForm :
      FindMatchingRules(q) = FindLinear(q)[Len(rules)]

(* The engine implements the rule book: every operation is one step of it, *)
(* and the rounds of a loading loop are none.                              *)
Book == INSTANCE RuleBook WITH book <- rules \o pending
ImplementsRuleBook == Book!Spec
=============================================================================

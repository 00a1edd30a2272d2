---------------------------- MODULE EngineProofs ----------------------------
(***************************************************************************)
(* The engine's index is exact and its answers are those of the linear     *)
(* search, for every set of elements, every relation that respects tags,   *)
(* and every history of adds, loads, imports and clears; and what becomes  *)
(* of that in the adaptive engine.                                         *)
(***************************************************************************)
EXTENDS AdaptiveEngine, SequenceTheorems, FiniteSetTheorems, WellFoundedInduction, TLAPS

Inv == TypeOK /\ IndexExact

-----------------------------------------------------------------------------
(* A new last place extends an ascending list.                             *)
LEMMA AscendsAppend ==
  ASSUME NEW ix \in Seq(Nat \ {0}), NEW n \in Nat, NEW S, S \subseteq 1..n,
         Ascends(ix, S)
  PROVE  Ascends(Append(ix, n + 1), S \union {n + 1})
<1> DEFINE jx == Append(ix, n + 1)
<1>1. /\ DOMAIN ix = 1..Len(ix) /\ DOMAIN jx = 1..(Len(ix) + 1)
      /\ Len(ix) \in Nat
      /\ \A k \in 1..Len(ix) : jx[k] = ix[k]
      /\ jx[Len(ix) + 1] = n + 1
  OBVIOUS
<1>2. {jx[k] : k \in DOMAIN jx} = S \union {n + 1}
  <2>1. \A k \in 1..Len(ix) : jx[k] \in S
    BY <1>1 DEF Ascends
  <2>2. \A x \in S : \E k \in 1..Len(ix) : jx[k] = x
    BY <1>1 DEF Ascends
  <2>3. \A x : x \in {jx[k] : k \in DOMAIN jx} <=> x \in S \union {n + 1}
    <3>1. \A k \in DOMAIN jx : k \in 1..Len(ix) \/ k = Len(ix) + 1
      BY <1>1
    <3>2. \A k \in DOMAIN jx : jx[k] \in S \union {n + 1}
      BY <1>1, <2>1, <3>1
    <3>3. \A k \in 1..Len(ix) : k \in DOMAIN jx
      BY <1>1
    <3>4. Len(ix) + 1 \in DOMAIN jx
      BY <1>1
    <3>5. \A x \in S \union {n + 1} : \E k \in DOMAIN jx : jx[k] = x
      BY <1>1, <2>2, <3>3, <3>4
    <3>6. QED
      BY <3>2, <3>5
  <2>4. QED
    BY <2>3
<1>3. ASSUME NEW j \in DOMAIN jx, NEW k \in DOMAIN jx, j < k PROVE jx[j] < jx[k]
  <2>1. j \in 1..Len(ix) /\ jx[j] = ix[j]
    BY <1>1, <1>3
  <2>2. CASE k \in 1..Len(ix)
    BY <1>1, <1>3, <2>1, <2>2 DEF Ascends
  <2>3. CASE k = Len(ix) + 1
    <3>1. ix[j] \in 1..n
      BY <1>1, <2>1 DEF Ascends
    <3>2. QED
      BY <1>1, <2>1, <2>3, <3>1
  <2>4. QED
    BY <1>1, <2>2, <2>3
<1>4. QED
  BY <1>2, <1>3 DEF Ascends

(* Indexing the rule that is being added keeps the index exact.            *)
LEMMA IndexRuleExact ==
  ASSUME TypeOK, IndexListsRules, NEW r \in Element,
         rules' = Append(rules, r), IndexRule(r)
  PROVE  IndexListsRules'
<1> DEFINE n == Len(rules)
<1>1. /\ n \in Nat /\ DOMAIN rules = 1..n /\ DOMAIN rules' = 1..(n + 1)
      /\ \A i \in 1..n : rules'[i] = rules[i]
      /\ rules'[n + 1] = r
  BY DEF TypeOK
<1>2. /\ \A g \in Tag : PlacesOf(g) \subseteq 1..n
      /\ OtherPlaces \subseteq 1..n
  BY <1>1 DEF PlacesOf, OtherPlaces
<1>3. CASE IsListRule(r)
  <2>1. /\ tagIndex' = [tagIndex EXCEPT ![TagOf(r)] = Append(@, n + 1)]
        /\ atomRules' = atomRules
        /\ TagOf(r) \in Tag
    BY <1>3, ElementsHaveTags DEF IndexRule
  <2>2. OtherPlaces' = OtherPlaces
    BY <1>1, <1>3 DEF OtherPlaces
  <2>3. ASSUME NEW g \in Tag PROVE Ascends(tagIndex'[g], PlacesOf(g)')
    <3>1. CASE g = TagOf(r)
      <4>1. PlacesOf(g)' = PlacesOf(g) \union {n + 1}
        BY <1>1, <1>3, <3>1 DEF PlacesOf
      <4>2. tagIndex'[g] = Append(tagIndex[g], n + 1) /\ tagIndex[g] \in Seq(Nat \ {0})
        BY <2>1, <3>1 DEF TypeOK
      <4>3. QED
        BY <1>1, <1>2, <4>1, <4>2, AscendsAppend DEF IndexListsRules
    <3>2. CASE g # TagOf(r)
      <4>1. PlacesOf(g)' = PlacesOf(g)
        BY <1>1, <1>3, <3>2 DEF PlacesOf
      <4>2. tagIndex'[g] = tagIndex[g]
        BY <2>1, <3>2 DEF TypeOK
      <4>3. QED
        BY <4>1, <4>2 DEF IndexListsRules
    <3>3. QED
      BY <3>1, <3>2
  <2>4. Ascends(atomRules', OtherPlaces')
    BY <2>1, <2>2 DEF IndexListsRules
  <2>5. QED
    BY <2>3, <2>4 DEF IndexListsRules, Ascends, PlacesOf, OtherPlaces
<1>4. CASE ~IsListRule(r)
  <2>1. tagIndex' = tagIndex /\ atomRules' = Append(atomRules, n + 1)
    BY <1>4 DEF IndexRule
  <2>2. \A g \in Tag : PlacesOf(g)' = PlacesOf(g)
    BY <1>1, <1>4 DEF PlacesOf
  <2>3. OtherPlaces' = OtherPlaces \union {n + 1}
    BY <1>1, <1>4 DEF OtherPlaces
  <2>4. Ascends(atomRules', OtherPlaces')
    BY <1>1, <1>2, <2>1, <2>3, AscendsAppend DEF IndexListsRules, TypeOK
  <2>5. \A g \in Tag : Ascends(tagIndex'[g], PlacesOf(g)')
    BY <2>1, <2>2 DEF IndexListsRules
  <2>6. QED
    BY <2>4, <2>5 DEF IndexListsRules, Ascends, PlacesOf, OtherPlaces
<1>5. QED
  BY <1>3, <1>4

LEMMA IndexRuleType ==
  ASSUME TypeOK, NEW r \in Element, IndexRule(r)
  PROVE  tagIndex' \in [Tag -> Seq(Nat \ {0})] /\ atomRules' \in Seq(Nat \ {0})
<1>1. Len(rules) + 1 \in Nat \ {0}
  BY DEF TypeOK
<1>2. CASE IsListRule(r)
  <2>1. TagOf(r) \in Tag /\ tagIndex[TagOf(r)] \in Seq(Nat \ {0})
    BY <1>2, ElementsHaveTags DEF TypeOK
  <2>2. Append(tagIndex[TagOf(r)], Len(rules) + 1) \in Seq(Nat \ {0})
    BY <1>1, <2>1
  <2>3. QED
    BY <1>2, <2>1, <2>2 DEF IndexRule, TypeOK
<1>3. CASE ~IsListRule(r)
  <2>1. Append(atomRules, Len(rules) + 1) \in Seq(Nat \ {0})
    BY <1>1 DEF TypeOK
  <2>2. atomRules' = Append(atomRules, Len(rules) + 1) /\ tagIndex' = tagIndex
    BY <1>3 DEF IndexRule
  <2>3. QED
    BY <2>1, <2>2 DEF TypeOK
<1>4. QED
  BY <1>2, <1>3

(* A round of AddRuleElement keeps the invariant.                          *)
LEMMA AddRuleElementInv ==
  ASSUME Inv, NEW r \in Element, AddRuleElement(r), pending' \in Seq(Element)
  PROVE  Inv'
<1>1. rules' = Append(rules, r) /\ indexEnabled' = indexEnabled
  BY DEF AddRuleElement
<1>2. rules' \in Seq(Element)
  BY <1>1 DEF Inv, TypeOK
<1>3. CASE indexEnabled
  <2>1. IndexRule(r)
    BY <1>3 DEF AddRuleElement
  <2>2. TypeOK'
    BY <1>1, <1>2, <2>1, IndexRuleType DEF Inv, TypeOK
  <2>3. IndexListsRules'
    BY <1>1, <1>3, <2>1, IndexRuleExact DEF Inv, IndexExact
  <2>4. QED
    BY <2>2, <2>3 DEF Inv, IndexExact
<1>4. CASE ~indexEnabled
  <2>1. UNCHANGED <<tagIndex, atomRules>>
    BY <1>4 DEF AddRuleElement
  <2>2. QED
    BY <1>1, <1>2, <1>4, <2>1 DEF Inv, TypeOK, IndexExact
<1>5. QED
  BY <1>3, <1>4

(* The invariant does not depend on how much of a loop is left.            *)
LEMMA SameStateInv ==
  ASSUME Inv, UNCHANGED <<rules, tagIndex, atomRules, indexEnabled>>,
         pending' \in Seq(Element)
  PROVE  Inv'
<1>1. TypeOK'
  BY DEF Inv, TypeOK
<1>2. (\A g \in Tag : PlacesOf(g)' = PlacesOf(g)) /\ OtherPlaces' = OtherPlaces
  BY DEF PlacesOf, OtherPlaces
<1>3. IndexListsRules <=> IndexListsRules'
  BY <1>2 DEF IndexListsRules, Ascends, PlacesOf, OtherPlaces
<1>4. QED
  BY <1>1, <1>3 DEF Inv, IndexExact

LEMMA ClearRulesInv ==
  ASSUME Inv, ClearRules, pending' \in Seq(Element)
  PROVE  Inv'
<1>1. TypeOK'
  <2>1. CASE indexEnabled
    <3>1. /\ rules' = <<>> /\ tagIndex' = [g \in Tag |-> <<>>] /\ atomRules' = <<>>
          /\ indexEnabled' = indexEnabled
      BY <2>1 DEF ClearRules
    <3>2. tagIndex' \in [Tag -> Seq(Nat \ {0})]
      BY <3>1
    <3>3. QED
      BY <3>1, <3>2 DEF Inv, TypeOK
  <2>2. CASE ~indexEnabled
    <3>1. /\ rules' = <<>> /\ tagIndex' = tagIndex /\ atomRules' = atomRules
          /\ indexEnabled' = indexEnabled
      BY <2>2 DEF ClearRules
    <3>2. QED
      BY <3>1 DEF Inv, TypeOK
  <2>3. QED
    BY <2>1, <2>2
<1>2. ASSUME indexEnabled PROVE IndexListsRules'
  BY <1>2 DEF ClearRules, IndexListsRules, Ascends, PlacesOf, OtherPlaces
<1>3. QED
  BY <1>1, <1>2 DEF Inv, IndexExact, ClearRules

-----------------------------------------------------------------------------
LEMMA InitInv == Init => Inv
<1> SUFFICES ASSUME Init PROVE Inv
  OBVIOUS
<1>1. TypeOK
  BY DEF Init, EmptyIndex, TypeOK
<1>2. IndexListsRules
  BY DEF Init, EmptyIndex, IndexListsRules, Ascends, PlacesOf, OtherPlaces
<1>3. QED
  BY <1>1, <1>2 DEF Inv, IndexExact

LEMMA NextInv == Inv /\ [Next]_vars => Inv'
<1> SUFFICES ASSUME Inv, [Next]_vars PROVE Inv'
  OBVIOUS
<1>1. ASSUME NEW r \in Element, AddRule(r) PROVE Inv'
  BY <1>1, AddRuleElementInv DEF AddRule, Inv, TypeOK
<1>2. CASE Clear
  BY <1>2, ClearRulesInv DEF Clear, Inv, TypeOK
<1>3. ASSUME NEW b \in Batches, LoadRulesFromFile(b) PROVE Inv'
  <2>1. b \in Seq(Element)
    BY BatchesAreRules
  <2>2. UNCHANGED <<rules, tagIndex, atomRules, indexEnabled>> /\ pending' = b
    BY <1>3 DEF LoadRulesFromFile
  <2>3. QED
    BY <2>1, <2>2, SameStateInv
<1>4. ASSUME NEW b \in Batches, ImportRules(b) PROVE Inv'
  <2>1. b \in Seq(Element)
    BY BatchesAreRules
  <2>2. QED
    BY <1>4, <2>1, ClearRulesInv DEF ImportRules
<1>5. CASE AddPending
  <2>1. Head(pending) \in Element /\ Tail(pending) \in Seq(Element)
    BY <1>5 DEF AddPending, Inv, TypeOK
  <2>2. QED
    BY <1>5, <2>1, AddRuleElementInv DEF AddPending
<1>6. CASE UNCHANGED vars
  BY <1>6, SameStateInv DEF vars, Inv, TypeOK
<1>7. QED
  BY <1>1, <1>2, <1>3, <1>4, <1>5, <1>6 DEF Next

THEOREM InvInvariant == Spec => []Inv
<1>1. QED
  BY InitInv, NextInv, PTL DEF Spec

(* Every variable of the engine keeps its type.                            *)
THEOREM TypeCorrect == Spec => []TypeOK
<1>1. Inv => TypeOK
  BY DEF Inv
<1>2. QED
  BY <1>1, InvInvariant, PTL

(* The index in use lists each rule once, in order, where a query looks.   *)
THEOREM IndexIsExact == Spec => []IndexExact
<1>1. Inv => IndexExact
  BY DEF Inv
<1>2. QED
  BY <1>1, InvInvariant, PTL

-----------------------------------------------------------------------------
(***************************************************************************)
(* What an exact index means for the answers.                              *)
(***************************************************************************)
LEMMA CandidatesAreRules ==
  ASSUME Inv, NEW q \in Element, NEW k \in DOMAIN Candidates(q)
  PROVE  Candidates(q)[k] \in DOMAIN rules
<1>1. CASE ~indexEnabled
  BY <1>1 DEF Candidates, RulePlaces
<1>2. CASE indexEnabled /\ IsListRule(q)
  <2>1. TagOf(q) \in Tag /\ Candidates(q) = tagIndex[TagOf(q)]
    BY <1>2, ElementsHaveTags DEF Candidates, IndexPlaces
  <2>2. Ascends(tagIndex[TagOf(q)], PlacesOf(TagOf(q)))
    BY <1>2, <2>1 DEF Inv, IndexExact, IndexListsRules
  <2>3. QED
    BY <2>1, <2>2 DEF Ascends, PlacesOf
<1>3. CASE indexEnabled /\ ~IsListRule(q)
  <2>1. Candidates(q) = atomRules
    BY <1>3 DEF Candidates, IndexPlaces
  <2>2. Ascends(atomRules, OtherPlaces)
    BY <1>3 DEF Inv, IndexExact, IndexListsRules
  <2>3. QED
    BY <2>1, <2>2 DEF Ascends, OtherPlaces
<1>4. QED
  BY <1>1, <1>2, <1>3 DEF Inv, TypeOK

(* A search that does not panic answers whether a place is a hit, and one  *)
(* whose places are all places of rules does not panic.                    *)
LEMMA SearchAnswers ==
  ASSUME NEW q, NEW places
  PROVE  /\ (\A k \in DOMAIN places : places[k] \in DOMAIN rules)
              => Search(q, places) # "panic"
         /\ Search(q, places) # "panic" =>
              Search(q, places) = IF \E k \in DOMAIN places : Hit(q, places[k])
                                    THEN "permit" ELSE "deny"
BY DEF Search

LEMMA InvNoPanic == Inv => NoPanic
BY CandidatesAreRules, SearchAnswers DEF NoPanic, FindPanics

(* A rule that a query is below is among the query's candidates.           *)
LEMMA MatchIsCandidate ==
  ASSUME Inv, NEW q \in Element \ StarForm, NEW i \in DOMAIN rules,
         rules[i] \notin StarForm, Leq(q, rules[i])
  PROVE  \E k \in DOMAIN Candidates(q) : Candidates(q)[k] = i
<1>1. /\ rules[i] \in Element \ StarForm
      /\ IsListRule(q) <=> IsListRule(rules[i])
      /\ IsListRule(q) => TagOf(q) = TagOf(rules[i])
  BY LeqRespectsTags DEF Inv, TypeOK
<1>2. CASE ~indexEnabled
  BY <1>2 DEF Candidates, RulePlaces
<1>3. CASE indexEnabled /\ IsListRule(q)
  <2>1. TagOf(q) \in Tag /\ Candidates(q) = tagIndex[TagOf(q)]
    BY <1>3, ElementsHaveTags DEF Candidates, IndexPlaces
  <2>2. i \in PlacesOf(TagOf(q))
    BY <1>1, <1>3 DEF PlacesOf
  <2>3. Ascends(tagIndex[TagOf(q)], PlacesOf(TagOf(q)))
    BY <1>3, <2>1 DEF Inv, IndexExact, IndexListsRules
  <2>4. QED
    BY <2>1, <2>2, <2>3 DEF Ascends
<1>4. CASE indexEnabled /\ ~IsListRule(q)
  <2>1. Candidates(q) = atomRules
    BY <1>4 DEF Candidates, IndexPlaces
  <2>2. i \in OtherPlaces
    BY <1>1, <1>4 DEF OtherPlaces
  <2>3. Ascends(atomRules, OtherPlaces)
    BY <1>4 DEF Inv, IndexExact, IndexListsRules
  <2>4. QED
    BY <2>1, <2>2, <2>3 DEF Ascends
<1>5. QED
  BY <1>2, <1>3, <1>4 DEF Inv, TypeOK

LEMMA InvAnswersLinear == Inv => IndexedAnswersAreLinear
<1> SUFFICES ASSUME Inv, \A i \in DOMAIN rules : rules[i] \notin StarForm,
                    NEW q \in Element \ StarForm
             PROVE  QueryElement(q) <=> QueryLinear(q)
  BY DEF IndexedAnswersAreLinear
<1>1. QueryElement(q) <=> \E k \in DOMAIN Candidates(q) : Hit(q, Candidates(q)[k])
  BY InvNoPanic, SearchAnswers DEF NoPanic, QueryElement
<1>2. ASSUME QueryElement(q) PROVE QueryLinear(q)
  BY <1>1, <1>2 DEF Hit, QueryLinear
<1>3. ASSUME QueryLinear(q) PROVE QueryElement(q)
  <2>1. PICK i \in DOMAIN rules : Leq(q, rules[i])
    BY <1>3 DEF QueryLinear
  <2>2. PICK k \in DOMAIN Candidates(q) : Candidates(q)[k] = i
    BY <2>1, MatchIsCandidate
  <2>3. Hit(q, Candidates(q)[k])
    BY <2>1, <2>2 DEF Hit
  <2>4. QED
    BY <1>1, <2>2, <2>3
<1>4. QED
  BY <1>2, <1>3

(* No query of an engine ever reads past the end of its rules.             *)
THEOREM NeverPanics == Spec => []NoPanic
<1>1. QED
  BY InvNoPanic, InvInvariant, PTL

(* Indexed or not, an engine of parsed rules answers a parsed query as the *)
(* linear search over its rules does.                                      *)
THEOREM AnswersAreLinear == Spec => []IndexedAnswersAreLinear
<1>1. QED
  BY InvAnswersLinear, InvInvariant, PTL

-----------------------------------------------------------------------------
(***************************************************************************)
(* What FindMatchingRules finds.  Its loops are recursive functions; that  *)
(* there is such a function, and what the two loops have in common, is     *)
(* proved by looking at the first round for which it fails.                *)
(***************************************************************************)
\* Pairs of numbers, the first of which is the less.
Less == {p \in Nat \X Nat : p[1] < p[2]}

(* A set that has 0 and with any of its numbers below n the next one has   *)
(* all numbers up to n.                                                    *)
LEMMA Rounds ==
  ASSUME NEW n \in Nat, NEW T, 0 \in T, \A k \in 0..(n - 1) : k \in T => k + 1 \in T
  PROVE  0..n \subseteq T
<1> DEFINE Missing == {k \in 0..n : k \notin T}
<1>1. SUFFICES ASSUME Missing # {} PROVE FALSE
  <2>1. Missing = {} => \A k \in 0..n : k \in T
    OBVIOUS
  <2>2. QED
    BY <2>1
<1>2. IsWellFoundedOn(Less, Nat)
  BY NatLessThanWellFounded DEF OpToRel, Less
<1>3. PICK k \in Missing : \A j \in Missing : <<j, k>> \notin Less
  <2>1. Missing \subseteq Nat
    OBVIOUS
  <2>2. QED
    BY <1>1, <1>2, <2>1, WFMin
<1>4. k \in 1..n /\ k - 1 \in 0..(n - 1) /\ k - 1 \in Nat /\ k - 1 < k
  OBVIOUS
<1>5. <<k - 1, k>> \in Less
  BY <1>4 DEF Less
<1>6. k - 1 \in T
  <2>1. k - 1 \notin Missing
    BY <1>3, <1>5
  <2>2. k - 1 \in 0..n
    BY <1>4
  <2>3. QED
    BY <2>1, <2>2
<1>7. QED
  BY <1>4, <1>6

\* f is a loop that starts with nothing and in round k appends Item[k] or not.
IsLoop(f, n, Takes, Item) ==
  f = [k \in 0..n |-> IF k = 0 THEN <<>>
                      ELSE IF Takes[k] THEN Append(f[k - 1], Item[k])
                      ELSE f[k - 1]]

(* Such a loop has a result, however many rounds it takes.                 *)
LEMMA LoopExists ==
  ASSUME NEW n \in Nat, NEW Takes, NEW Item
  PROVE  \E f : IsLoop(f, n, Takes, Item)
<1> DEFINE T == {k \in Nat : \E f : IsLoop(f, k, Takes, Item)}
<1>1. 0 \in T
  <2>1. IsLoop([k \in 0..0 |-> <<>>], 0, Takes, Item)
    BY DEF IsLoop
  <2>2. QED
    BY <2>1
<1>2. ASSUME NEW k \in 0..(n - 1), k \in T PROVE k + 1 \in T
  <2>1. PICK f : IsLoop(f, k, Takes, Item)
    BY <1>2
  <2> DEFINE last == IF Takes[k + 1] THEN Append(f[k], Item[k + 1]) ELSE f[k]
             g == [j \in 0..(k + 1) |-> IF j = k + 1 THEN last ELSE f[j]]
  <2>2. ASSUME NEW j \in 0..(k + 1)
        PROVE  g[j] = IF j = 0 THEN <<>>
                      ELSE IF Takes[j] THEN Append(g[j - 1], Item[j])
                      ELSE g[j - 1]
    <3>1. CASE j = k + 1
      <4>1. g[j] = last /\ j # 0 /\ j - 1 = k /\ g[j - 1] = f[k]
        BY <3>1
      <4>2. QED
        BY <3>1, <4>1
    <3>2. CASE j # k + 1 /\ j # 0
      <4>1. j \in 0..k /\ j - 1 \in 0..k /\ j - 1 # k + 1 /\ j - 1 \in 0..(k + 1)
        BY <3>2
      <4>2. g[j] = f[j] /\ g[j - 1] = f[j - 1]
        BY <3>2, <4>1
      <4>3. f[j] = IF Takes[j] THEN Append(f[j - 1], Item[j]) ELSE f[j - 1]
        BY <2>1, <3>2, <4>1 DEF IsLoop
      <4>4. QED
        BY <3>2, <4>2, <4>3
    <3>3. CASE j = 0
      <4>1. 0 \in 0..k /\ g[j] = f[j]
        BY <3>3
      <4>2. QED
        BY <2>1, <3>3, <4>1 DEF IsLoop
    <3>4. QED
      BY <3>1, <3>2, <3>3
  <2>3. IsLoop(g, k + 1, Takes, Item)
    BY <2>2 DEF IsLoop
  <2>4. QED
    BY <2>3
<1>3. n \in T
  <2>1. 0..n \subseteq T
    BY <1>1, <1>2, Rounds
  <2>2. n \in 0..n
    OBVIOUS
  <2>3. QED
    BY <2>1, <2>2
<1>4. QED
  BY <1>3

\* What the loops of FindMatchingRules take in a round, and what they append.
HitAt(q, p)  == [k \in 1..Len(p) |-> Hit(q, p[k])]
RuleAt(p)    == [k \in 1..Len(p) |-> rules[p[k]]]
BelowAt(q)   == [i \in 1..Len(rules) |-> Leq(q, rules[i])]

LEMMA FoundAmong ==
  ASSUME NEW q, NEW p \in Seq(Nat)
  PROVE  /\ FindAmong(q, p)[0] = <<>>
         /\ \A k \in 1..Len(p) :
              FindAmong(q, p)[k] = IF Hit(q, p[k]) THEN Append(FindAmong(q, p)[k - 1], rules[p[k]])
                                   ELSE FindAmong(q, p)[k - 1]
<1> DEFINE F == FindAmong(q, p)
<1>0. Len(p) \in Nat
  OBVIOUS
<1>1. PICK f : IsLoop(f, Len(p), HitAt(q, p), RuleAt(p))
  BY <1>0, LoopExists
<1>2. f = [k \in 0..Len(p) |-> IF k = 0 THEN <<>>
                              ELSE IF Hit(q, p[k]) THEN Append(f[k - 1], rules[p[k]])
                              ELSE f[k - 1]]
  <2>1. \A k \in 0..Len(p) : k # 0 => k \in 1..Len(p)
    OBVIOUS
  <2>2. \A k \in 1..Len(p) : HitAt(q, p)[k] = Hit(q, p[k]) /\ RuleAt(p)[k] = rules[p[k]]
    BY DEF HitAt, RuleAt
  <2>3. QED
    BY <1>1, <2>1, <2>2 DEF IsLoop
<1>3. F = [k \in 0..Len(p) |-> IF k = 0 THEN <<>>
                              ELSE IF Hit(q, p[k]) THEN Append(F[k - 1], rules[p[k]])
                              ELSE F[k - 1]]
  BY <1>2, Zenon DEF FindAmong
<1>4. 0 \in 0..Len(p) /\ \A i \in 1..Len(p) : i \in 0..Len(p) /\ i # 0
  BY <1>0
<1> HIDE DEF F
<1>5. F[0] = <<>> /\ \A k \in 1..Len(p) : F[k] = IF Hit(q, p[k]) THEN Append(F[k - 1], rules[p[k]])
                                                ELSE F[k - 1]
  BY <1>3, <1>4
<1>6. QED
  BY <1>5 DEF F

LEMMA FoundLinear ==
  ASSUME NEW q, rules \in Seq(Element)
  PROVE  /\ FindLinear(q)[0] = <<>>
         /\ \A i \in 1..Len(rules) :
              FindLinear(q)[i] = IF Leq(q, rules[i]) THEN Append(FindLinear(q)[i - 1], rules[i])
                                 ELSE FindLinear(q)[i - 1]
<1> DEFINE F == FindLinear(q)
<1>0. Len(rules) \in Nat
  OBVIOUS
<1>1. PICK f : IsLoop(f, Len(rules), BelowAt(q), rules)
  BY <1>0, LoopExists
<1>2. f = [i \in 0..Len(rules) |-> IF i = 0 THEN <<>>
                                  ELSE IF Leq(q, rules[i]) THEN Append(f[i - 1], rules[i])
                                  ELSE f[i - 1]]
  <2>1. \A i \in 0..Len(rules) : i # 0 => i \in 1..Len(rules)
    OBVIOUS
  <2>2. \A i \in 1..Len(rules) : BelowAt(q)[i] = Leq(q, rules[i])
    BY DEF BelowAt
  <2>3. QED
    BY <1>1, <2>1, <2>2 DEF IsLoop
<1>3. F = [i \in 0..Len(rules) |-> IF i = 0 THEN <<>>
                                  ELSE IF Leq(q, rules[i]) THEN Append(F[i - 1], rules[i])
                                  ELSE F[i - 1]]
  BY <1>2, Zenon DEF FindLinear
<1>4. 0 \in 0..Len(rules) /\ \A i \in 1..Len(rules) : i \in 0..Len(rules) /\ i # 0
  BY <1>0
<1> HIDE DEF F
<1>5. F[0] = <<>> /\ \A i \in 1..Len(rules) : F[i] = IF Leq(q, rules[i]) THEN Append(F[i - 1], rules[i])
                                                    ELSE F[i - 1]
  BY <1>3, <1>4
<1>6. QED
  BY <1>5 DEF F

(* The candidates of a query are in ascending order.                       *)
LEMMA CandidatesAscend ==
  ASSUME Inv, NEW q \in Element
  PROVE  /\ Candidates(q) \in Seq(Nat)
         /\ \A j, k \in DOMAIN Candidates(q) : j < k => Candidates(q)[j] < Candidates(q)[k]
<1>0. rules \in Seq(Element) /\ Len(rules) \in Nat /\ DOMAIN rules = 1..Len(rules)
  BY DEF Inv, TypeOK
<1>1. CASE ~indexEnabled
  <2>1. Candidates(q) = [i \in 1..Len(rules) |-> i]
    BY <1>0, <1>1 DEF Candidates, RulePlaces
  <2>2. QED
    BY <1>0, <2>1
<1>2. CASE indexEnabled /\ IsListRule(q)
  <2>1. TagOf(q) \in Tag /\ Candidates(q) = tagIndex[TagOf(q)]
    BY <1>2, ElementsHaveTags DEF Candidates, IndexPlaces
  <2>2. Ascends(tagIndex[TagOf(q)], PlacesOf(TagOf(q))) /\ tagIndex[TagOf(q)] \in Seq(Nat \ {0})
    BY <1>2, <2>1 DEF Inv, TypeOK, IndexExact, IndexListsRules
  <2>3. QED
    BY <2>1, <2>2 DEF Ascends
<1>3. CASE indexEnabled /\ ~IsListRule(q)
  <2>1. Candidates(q) = atomRules
    BY <1>3 DEF Candidates, IndexPlaces
  <2>2. Ascends(atomRules, OtherPlaces) /\ atomRules \in Seq(Nat \ {0})
    BY <1>3 DEF Inv, TypeOK, IndexExact, IndexListsRules
  <2>3. QED
    BY <2>1, <2>2 DEF Ascends
<1>4. QED
  BY <1>1, <1>2, <1>3 DEF Inv, TypeOK

(* After i rules the linear search has what the indexed one has after the  *)
(* candidates up to i: between two candidates it appends nothing.          *)
LEMMA InvFindsLinear == Inv => FindsWhatLinearFinds
<1> SUFFICES ASSUME Inv, \A i \in DOMAIN rules : rules[i] \notin StarForm,
                    NEW q \in Element \ StarForm
             PROVE  FindMatchingRules(q) = FindLinear(q)[Len(rules)]
  BY DEF FindsWhatLinearFinds
<1> DEFINE n == Len(rules)
           c == Candidates(q)
           m == Len(c)
           F == FindAmong(q, c)
           G == FindLinear(q)
           UpTo(i, k) == /\ k \in 0..m
                         /\ \A j \in 1..m : c[j] <= i <=> j <= k
                         /\ G[i] = F[k]
           T == {i \in Nat : \E k \in 0..m : UpTo(i, k)}
<1>1. /\ rules \in Seq(Element) /\ n \in Nat /\ DOMAIN rules = 1..n
      /\ c \in Seq(Nat) /\ m \in Nat /\ DOMAIN c = 1..m
      /\ \A j, k \in 1..m : j < k => c[j] < c[k]
  BY CandidatesAscend DEF Inv, TypeOK
<1>2. \A k \in 1..m : c[k] \in 1..n
  BY <1>1, CandidatesAreRules
<1>3. \A i \in 1..n : Leq(q, rules[i]) => \E k \in 1..m : c[k] = i
  BY <1>1, MatchIsCandidate
<1>4. /\ F[0] = <<>>
      /\ \A k \in 1..m : F[k] = IF Leq(q, rules[c[k]]) THEN Append(F[k - 1], rules[c[k]]) ELSE F[k - 1]
  BY <1>1, <1>2, FoundAmong DEF Hit
<1>5. /\ G[0] = <<>>
      /\ \A i \in 1..n : G[i] = IF Leq(q, rules[i]) THEN Append(G[i - 1], rules[i]) ELSE G[i - 1]
  BY <1>1, FoundLinear
<1> HIDE DEF n, c, m, F, G
<1>6. 0 \in T
  <2>1. 0 \in 0..m /\ \A j \in 1..m : ~(c[j] <= 0) /\ ~(j <= 0)
    BY <1>1, <1>2
  <2>2. UpTo(0, 0)
    BY <1>4, <1>5, <2>1
  <2>3. QED
    BY <2>1, <2>2
<1>7. ASSUME NEW i \in 0..(n - 1), i \in T PROVE i + 1 \in T
  <2>1. PICK k \in 0..m : UpTo(i, k)
    BY <1>7
  <2>2. i + 1 \in 1..n /\ (i + 1) - 1 = i /\ i \in Nat /\ i + 1 \in Nat
    BY <1>1
  <2>3. CASE \E j \in 1..m : c[j] = i + 1
    <3>1. PICK j \in 1..m : c[j] = i + 1
      BY <2>3
    <3>2. j > k
      BY <1>1, <2>1, <2>2, <3>1
    <3>3. k + 1 \in 1..m /\ (k + 1) - 1 = k
      BY <1>1, <3>2
    <3>4. c[k + 1] > i /\ c[k + 1] \in Nat
      BY <1>1, <1>2, <2>1, <2>2, <3>3
    <3>5. j = k + 1
      BY <1>1, <2>2, <3>1, <3>2, <3>3, <3>4
    <3>6. \A l \in 1..m : c[l] <= i + 1 <=> l <= k + 1
      <4>1. \A l \in 1..m : c[l] \in Nat /\ (c[l] <= i <=> l <= k)
        BY <1>1, <1>2, <2>1
      <4>2. \A l \in 1..m : l > k + 1 => c[l] > i + 1
        BY <1>1, <3>1, <3>5
      <4>3. QED
        BY <1>1, <2>2, <3>1, <3>3, <3>5, <4>1, <4>2
    <3>7. G[i + 1] = F[k + 1]
      <4>1. G[i] = F[k]
        BY <2>1
      <4>2. G[i + 1] = IF Leq(q, rules[i + 1]) THEN Append(G[i], rules[i + 1]) ELSE G[i]
        BY <1>5, <2>2
      <4>3. F[k + 1] = IF Leq(q, rules[i + 1]) THEN Append(F[k], rules[i + 1]) ELSE F[k]
        BY <1>4, <3>1, <3>3, <3>5
      <4>4. QED
        BY <4>1, <4>2, <4>3
    <3>8. k + 1 \in 0..m
      BY <1>1, <3>3
    <3>9. QED
      BY <2>2, <3>6, <3>7, <3>8
  <2>4. CASE ~\E j \in 1..m : c[j] = i + 1
    <3>1. ~Leq(q, rules[i + 1])
      BY <1>3, <2>2, <2>4
    <3>2. G[i + 1] = F[k]
      <4>1. G[i + 1] = G[i]
        BY <1>5, <2>2, <3>1
      <4>2. QED
        BY <2>1, <4>1
    <3>3. \A l \in 1..m : c[l] <= i + 1 <=> l <= k
      BY <1>1, <1>2, <2>1, <2>2, <2>4
    <3>4. QED
      BY <2>1, <2>2, <3>2, <3>3
  <2>5. QED
    BY <2>3, <2>4
<1>8. n \in T
  <2>1. 0..n \subseteq T
    BY <1>1, <1>6, <1>7, Rounds
  <2>2. QED
    BY <1>1, <2>1
<1>9. PICK k \in 0..m : UpTo(n, k)
  BY <1>8
<1>10. k = m
  <2>1. \A j \in 1..m : j <= k
    BY <1>1, <1>2, <1>9
  <2>2. m # 0 => m \in 1..m
    BY <1>1
  <2>3. QED
    BY <1>1, <2>1, <2>2
<1>11. QED
  BY <1>9, <1>10 DEF n, c, m, F, G, FindMatchingRules

(* Indexed or not, FindMatchingRules (spocp.go:127-165) returns the rules  *)
(* above a parsed query in the order in which they were added, a rule that *)
(* was added twice twice.                                                  *)
THEOREM FindsAreLinear == Spec => []FindsWhatLinearFinds
<1>1. QED
  BY InvFindsLinear, InvInvariant, PTL

-----------------------------------------------------------------------------
(***************************************************************************)
(* The engine implements the rule book.                                    *)
(***************************************************************************)
(* A round of a loop moves a rule from what is pending to the rules.       *)
LEMMA MoveHead ==
  ASSUME NEW s \in Seq(Element), NEW p \in Seq(Element), p # <<>>
  PROVE  Append(s, Head(p)) \o Tail(p) = s \o p
<1> DEFINE l == Append(s, Head(p)) \o Tail(p)
           r == s \o p
<1>1. /\ Len(p) \in Nat \ {0} /\ Len(s) \in Nat
      /\ Head(p) \in Element /\ Head(p) = p[1]
      /\ Tail(p) \in Seq(Element) /\ Len(Tail(p)) = Len(p) - 1
      /\ \A k \in 1..(Len(p) - 1) : Tail(p)[k] = p[k + 1]
  OBVIOUS
<1>2. /\ Append(s, Head(p)) \in Seq(Element)
      /\ Len(Append(s, Head(p))) = Len(s) + 1
      /\ \A k \in 1..Len(s) : Append(s, Head(p))[k] = s[k]
      /\ Append(s, Head(p))[Len(s) + 1] = p[1]
  BY <1>1
<1>3. /\ l \in Seq(Element) /\ r \in Seq(Element)
      /\ Len(l) = Len(s) + Len(p) /\ Len(r) = Len(s) + Len(p)
  BY <1>1, <1>2
<1>4. ASSUME NEW k \in 1..Len(l) PROVE l[k] = r[k]
  <2>1. CASE k <= Len(s)
    <3>1. r[k] = s[k]
      BY <1>1, <2>1, <1>4
    <3>2. l[k] = Append(s, Head(p))[k]
      BY <1>1, <1>2, <2>1, <1>4
    <3>3. QED
      BY <1>1, <1>2, <2>1, <1>4, <3>1, <3>2
  <2>2. CASE k = Len(s) + 1
    <3>1. r[k] = p[1]
      BY <1>1, <2>2
    <3>2. l[k] = Append(s, Head(p))[k]
      BY <1>1, <1>2, <2>2
    <3>3. QED
      BY <1>2, <2>2, <3>1, <3>2
  <2>3. CASE k > Len(s) + 1
    <3>1. k - Len(s) \in 2..Len(p) /\ k - (Len(s) + 1) \in 1..(Len(p) - 1)
      BY <1>1, <1>3, <1>4, <2>3
    <3>2. r[k] = p[k - Len(s)]
      BY <1>1, <3>1
    <3>3. l[k] = Tail(p)[k - (Len(s) + 1)]
      BY <1>1, <1>2, <3>1
    <3>4. Tail(p)[k - (Len(s) + 1)] = p[(k - (Len(s) + 1)) + 1]
      BY <1>1, <3>1
    <3>5. QED
      BY <1>1, <1>4, <3>2, <3>3, <3>4
  <2>4. QED
    BY <1>1, <1>3, <1>4, <2>1, <2>2, <2>3
<1>5. QED
  <2>1. Len(l) = Len(r)
    BY <1>3
  <2>2. QED
    BY <1>3, <1>4, <2>1, SeqEqual

LEMMA StepRefines ==
  ASSUME TypeOK, [Next]_vars
  PROVE  [Book!Next]_(rules \o pending)
<1>0. rules \in Seq(Element) /\ pending \in Seq(Element)
  BY DEF TypeOK
<1>1. ASSUME NEW r \in Element, AddRule(r) PROVE Book!Add(r)
  <2>1. pending = <<>> /\ pending' = <<>> /\ rules' = Append(rules, r)
    BY <1>1 DEF AddRule, AddRuleElement, Idle
  <2>2. rules \o pending = rules /\ rules' \o pending' = Append(rules, r)
    BY <1>0, <2>1, ConcatEmptySeq
  <2>3. QED
    BY <2>2 DEF Book!Add
<1>2. ASSUME Clear PROVE Book!Clear
  <2>1. pending' = <<>> /\ rules' = <<>>
    BY <1>2 DEF Clear, ClearRules, Idle
  <2>2. QED
    BY <2>1 DEF Book!Clear
<1>3. ASSUME NEW b \in Batches, LoadRulesFromFile(b) PROVE Book!Load(b)
  <2>1. pending = <<>> /\ pending' = b /\ rules' = rules
    BY <1>3 DEF LoadRulesFromFile, Idle
  <2>2. rules \o pending = rules
    BY <1>0, <2>1, ConcatEmptySeq
  <2>3. QED
    BY <2>1, <2>2 DEF Book!Load
<1>4. ASSUME NEW b \in Batches, ImportRules(b) PROVE Book!Replace(b)
  <2>1. pending' = b /\ rules' = <<>> /\ b \in Seq(Element)
    BY <1>4, BatchesAreRules DEF ImportRules, ClearRules
  <2>2. rules' \o pending' = b
    BY <2>1, ConcatEmptySeq
  <2>3. QED
    BY <2>2 DEF Book!Replace
<1>5. ASSUME AddPending PROVE UNCHANGED (rules \o pending)
  <2>1. /\ pending # <<>> /\ rules' = Append(rules, Head(pending))
        /\ pending' = Tail(pending)
    BY <1>5 DEF AddPending, AddRuleElement
  <2>2. QED
    BY <1>0, <2>1, MoveHead
<1>6. ASSUME UNCHANGED vars PROVE UNCHANGED (rules \o pending)
  BY <1>6 DEF vars
<1>7. QED
  BY <1>1, <1>2, <1>3, <1>4, <1>5, <1>6 DEF Next, Book!Next

(* Every behaviour of the engine is one of the rule book: what was loaded  *)
(* or imported counts as there from the start of the loop.                 *)
THEOREM EngineImplementsRuleBook == Spec => ImplementsRuleBook
<1>1. Init => Book!Init
  <2>1. Init => rules = <<>> /\ pending = <<>>
    BY DEF Init
  <2>2. QED
    BY <2>1, ConcatEmptySeq DEF Book!Init
<1>2. TypeOK /\ [Next]_vars => [Book!Next]_(rules \o pending)
  BY StepRefines
<1>3. QED
  BY <1>1, <1>2, TypeCorrect, PTL DEF Spec, ImplementsRuleBook, Book!Spec

-----------------------------------------------------------------------------
(***************************************************************************)
(* The adaptive engine for every threshold and every history. Its index    *)
(* never misses a rule, so that turning indexing on or off changes no      *)
(* answer; until a clear leaves something in it, it is also exact.         *)
(***************************************************************************)
ExactInv == TypeOK /\ (stale \in BOOLEAN) /\ IndexExactUnlessStale
CoverInv == TypeOK /\ IndexCovers

-----------------------------------------------------------------------------
LEMMA AdaptiveAddType ==
  ASSUME TypeOK, NEW r \in Element, AdaptiveAddRuleElement(r),
         pending' \in Seq(Element)
  PROVE  TypeOK'
<1>1. IndexRule(r) /\ rules' = Append(rules, r)
  BY DEF AdaptiveAddRuleElement
<1>2. indexEnabled' \in BOOLEAN
  BY DEF AdaptiveAddRuleElement, ShouldIndex
<1>3. rules' \in Seq(Element)
  BY <1>1 DEF TypeOK
<1>4. tagIndex' \in [Tag -> Seq(Nat \ {0})] /\ atomRules' \in Seq(Nat \ {0})
  BY <1>1, IndexRuleType
<1>5. QED
  BY <1>2, <1>3, <1>4 DEF TypeOK

LEMMA SameIndexExact ==
  ASSUME ExactInv, UNCHANGED <<rules, tagIndex, atomRules, stale>>,
         indexEnabled' \in BOOLEAN, pending' \in Seq(Element)
  PROVE  ExactInv'
<1>1. TypeOK' /\ stale' \in BOOLEAN
  BY DEF ExactInv, TypeOK
<1>2. (\A g \in Tag : PlacesOf(g)' = PlacesOf(g)) /\ OtherPlaces' = OtherPlaces
  BY DEF PlacesOf, OtherPlaces
<1>3. IndexListsRules => IndexListsRules'
  BY <1>2 DEF IndexListsRules, Ascends, PlacesOf, OtherPlaces
<1>4. QED
  BY <1>1, <1>3 DEF ExactInv, IndexExactUnlessStale

LEMMA AdaptiveInitIsExact == AdaptiveInit => TypeOK /\ IndexListsRules
<1> SUFFICES ASSUME AdaptiveInit PROVE TypeOK /\ IndexListsRules
  OBVIOUS
<1>1. TypeOK
  <2>1. [g \in Tag |-> <<>>] \in [Tag -> Seq(Nat \ {0})]
    OBVIOUS
  <2>2. /\ rules = <<>> /\ tagIndex = [g \in Tag |-> <<>>] /\ atomRules = <<>>
        /\ indexEnabled = FALSE /\ pending = <<>>
    BY DEF AdaptiveInit, EmptyIndex
  <2>3. rules \in Seq(Element) /\ atomRules \in Seq(Nat \ {0}) /\ pending \in Seq(Element)
    BY <2>2, EmptySeq
  <2>4. indexEnabled \in BOOLEAN
    BY <2>2
  <2>5. QED
    BY <2>1, <2>2, <2>3, <2>4 DEF TypeOK
<1>2. IndexListsRules
  BY DEF AdaptiveInit, EmptyIndex, IndexListsRules, Ascends, PlacesOf, OtherPlaces
<1>3. QED
  BY <1>1, <1>2

(* A clear empties the index, or leaves no rules and an index that is      *)
(* stale or was empty.                                                     *)
LEMMA ClearIsTyped ==
  ASSUME TypeOK, ClearRules, pending' \in Seq(Element)
  PROVE  TypeOK'
<1>1. CASE indexEnabled
  <2>1. /\ rules' = <<>> /\ tagIndex' = [g \in Tag |-> <<>>] /\ atomRules' = <<>>
        /\ indexEnabled' = indexEnabled
    BY <1>1 DEF ClearRules
  <2>2. tagIndex' \in [Tag -> Seq(Nat \ {0})]
    BY <2>1
  <2>3. QED
    BY <2>1, <2>2 DEF TypeOK
<1>2. CASE ~indexEnabled
  <2>1. /\ rules' = <<>> /\ tagIndex' = tagIndex /\ atomRules' = atomRules
        /\ indexEnabled' = indexEnabled
    BY <1>2 DEF ClearRules
  <2>2. QED
    BY <2>1 DEF TypeOK
<1>3. QED
  BY <1>1, <1>2

LEMMA ClearIsExactOrStale ==
  ASSUME ExactInv, ClearRules, NoteStale, pending' \in Seq(Element)
  PROVE  ExactInv'
<1>1. TypeOK'
  BY ClearIsTyped DEF ExactInv
<1>2. stale' \in BOOLEAN
  BY DEF NoteStale
<1>3. ASSUME ~stale' PROVE IndexListsRules'
  <2>1. CASE indexEnabled
    <3>1. rules' = <<>> /\ tagIndex' = [g \in Tag |-> <<>>] /\ atomRules' = <<>>
      BY <2>1 DEF ClearRules
    <3>2. QED
      BY <3>1 DEF IndexListsRules, Ascends, PlacesOf, OtherPlaces
  <2>2. CASE ~indexEnabled
    <3>1. ~stale /\ rules = <<>>
      BY <1>3, <2>2 DEF NoteStale
    <3>2. rules' = rules /\ tagIndex' = tagIndex /\ atomRules' = atomRules
      BY <2>2, <3>1 DEF ClearRules
    <3>3. IndexListsRules
      BY <3>1 DEF ExactInv, IndexExactUnlessStale
    <3>4. (\A g \in Tag : PlacesOf(g)' = PlacesOf(g)) /\ OtherPlaces' = OtherPlaces
      BY <3>2 DEF PlacesOf, OtherPlaces
    <3>5. QED
      BY <3>2, <3>3, <3>4 DEF IndexListsRules, Ascends, PlacesOf, OtherPlaces
  <2>3. QED
    BY <2>1, <2>2
<1>4. QED
  BY <1>1, <1>2, <1>3 DEF ExactInv, IndexExactUnlessStale

LEMMA ExactInvStep == ExactInv /\ [AdaptiveNext]_adaptiveVars => ExactInv'
<1> SUFFICES ASSUME ExactInv, [AdaptiveNext]_adaptiveVars PROVE ExactInv'
  OBVIOUS
<1>1. ASSUME NEW r \in Element, AdaptiveAddRuleElement(r), UNCHANGED stale,
             pending' \in Seq(Element)
      PROVE  ExactInv'
  <2>1. TypeOK' /\ stale' \in BOOLEAN
    BY <1>1, AdaptiveAddType DEF ExactInv
  <2>2. IndexListsRules => IndexListsRules'
    BY <1>1, IndexRuleExact DEF ExactInv, AdaptiveAddRuleElement
  <2>3. QED
    BY <1>1, <2>1, <2>2 DEF ExactInv, IndexExactUnlessStale
<1>2. ASSUME NEW r \in Element, AdaptiveAddRule(r) PROVE ExactInv'
  BY <1>1, <1>2 DEF AdaptiveAddRule, ExactInv, TypeOK
<1>3. ASSUME NEW b \in Batches, AdaptiveLoadRulesFromFile(b) PROVE ExactInv'
  <2>1. UNCHANGED <<rules, tagIndex, atomRules, stale>> /\ indexEnabled' \in BOOLEAN
    BY <1>3 DEF AdaptiveLoadRulesFromFile, LoadRulesFromFile, ExactInv, TypeOK
  <2>2. pending' \in Seq(Element)
    BY <1>3, BatchesAreRules DEF AdaptiveLoadRulesFromFile, LoadRulesFromFile
  <2>3. QED
    BY <2>1, <2>2, SameIndexExact
<1>4. CASE AdaptiveAddPending
  <2>1. Head(pending) \in Element /\ Tail(pending) \in Seq(Element)
    BY <1>4 DEF AdaptiveAddPending, ExactInv, TypeOK
  <2>2. QED
    BY <1>1, <1>4, <2>1 DEF AdaptiveAddPending
<1>5. ASSUME NEW enabled \in BOOLEAN, ForceIndexing(enabled) PROVE ExactInv'
  BY <1>5, SameIndexExact DEF ForceIndexing, ExactInv, TypeOK
<1>6. CASE AdaptiveClear
  BY <1>6, ClearIsExactOrStale DEF AdaptiveClear, ExactInv, TypeOK
<1>7. ASSUME NEW b \in Batches, AdaptiveImportRules(b) PROVE ExactInv'
  <2>1. ClearRules /\ NoteStale /\ pending' \in Seq(Element)
    BY <1>7, BatchesAreRules DEF AdaptiveImportRules, ImportRules
  <2>2. QED
    BY <2>1, ClearIsExactOrStale
<1>8. CASE UNCHANGED adaptiveVars
  BY <1>8, SameIndexExact DEF adaptiveVars, vars, ExactInv, TypeOK
<1>9. QED
  BY <1>2, <1>3, <1>4, <1>5, <1>6, <1>7, <1>8 DEF AdaptiveNext

LEMMA ExactInvariant == AdaptiveSpec => []ExactInv
<1>1. AdaptiveInit => ExactInv
  BY AdaptiveInitIsExact DEF AdaptiveInit, ExactInv, IndexExactUnlessStale
<1>2. QED
  BY <1>1, ExactInvStep, PTL DEF AdaptiveSpec

(* The index is maintained while indexing is off: it is exact at any time, *)
(* save for what clears left in it.                                        *)
THEOREM AdaptiveIndexIsExact == AdaptiveSpec => []IndexExactUnlessStale
<1>1. ExactInv => IndexExactUnlessStale
  BY DEF ExactInv
<1>2. QED
  BY <1>1, ExactInvariant, PTL

(* As long as nothing stale is in the index, no query reads past the end   *)
(* of the rules, whatever the strategy or a caller decides.                *)
THEOREM AdaptiveNeverPanics == AdaptiveSpec => []NoPanicUnlessStale
<1>1. ExactInv => NoPanicUnlessStale
  BY InvNoPanic DEF ExactInv, IndexExactUnlessStale, NoPanicUnlessStale, Inv, IndexExact
<1>2. QED
  BY <1>1, ExactInvariant, PTL

-----------------------------------------------------------------------------
LEMMA RangeOfAppend ==
  ASSUME NEW ix \in Seq(Nat \ {0}), NEW n \in Nat \ {0}
  PROVE  /\ {ix[k] : k \in DOMAIN ix} \subseteq
              {Append(ix, n)[k] : k \in DOMAIN Append(ix, n)}
         /\ n \in {Append(ix, n)[k] : k \in DOMAIN Append(ix, n)}
<1>1. /\ DOMAIN ix = 1..Len(ix) /\ DOMAIN Append(ix, n) = 1..(Len(ix) + 1)
      /\ Len(ix) \in Nat
      /\ \A k \in 1..Len(ix) : Append(ix, n)[k] = ix[k]
      /\ Append(ix, n)[Len(ix) + 1] = n
  OBVIOUS
<1>2. \A k \in DOMAIN ix : k \in DOMAIN Append(ix, n) /\ Append(ix, n)[k] = ix[k]
  BY <1>1
<1>3. Len(ix) + 1 \in DOMAIN Append(ix, n)
  BY <1>1
<1>4. QED
  BY <1>1, <1>2, <1>3

(* Indexing the rule that is being added keeps every rule covered.         *)
LEMMA IndexRuleCovers ==
  ASSUME TypeOK, IndexCovers, NEW r \in Element,
         rules' = Append(rules, r), IndexRule(r)
  PROVE  IndexCovers'
<1> DEFINE n == Len(rules)
<1>1. /\ n \in Nat /\ DOMAIN rules = 1..n /\ DOMAIN rules' = 1..(n + 1)
      /\ \A i \in 1..n : rules'[i] = rules[i]
      /\ rules'[n + 1] = r
  BY DEF TypeOK
<1>2. CASE IsListRule(r)
  <2>1. /\ tagIndex' = [tagIndex EXCEPT ![TagOf(r)] = Append(@, n + 1)]
        /\ atomRules' = atomRules
        /\ TagOf(r) \in Tag
    BY <1>2, ElementsHaveTags DEF IndexRule
  <2>2. OtherPlaces' = OtherPlaces
    BY <1>1, <1>2 DEF OtherPlaces
  <2>3. ASSUME NEW g \in Tag
        PROVE  PlacesOf(g)' \subseteq {tagIndex'[g][k] : k \in DOMAIN tagIndex'[g]}
    <3>1. CASE g = TagOf(r)
      <4>1. PlacesOf(g)' = PlacesOf(g) \union {n + 1}
        BY <1>1, <1>2, <3>1 DEF PlacesOf
      <4>2. tagIndex'[g] = Append(tagIndex[g], n + 1) /\ tagIndex[g] \in Seq(Nat \ {0})
        BY <2>1, <3>1 DEF TypeOK
      <4>3. PlacesOf(g) \subseteq {tagIndex[g][k] : k \in DOMAIN tagIndex[g]}
        BY DEF IndexCovers
      <4>4. n + 1 \in Nat \ {0}
        BY <1>1
      <4>5. /\ {tagIndex[g][k] : k \in DOMAIN tagIndex[g]} \subseteq
                 {Append(tagIndex[g], n + 1)[k] : k \in DOMAIN Append(tagIndex[g], n + 1)}
            /\ n + 1 \in {Append(tagIndex[g], n + 1)[k] :
                             k \in DOMAIN Append(tagIndex[g], n + 1)}
        <5> HIDE DEF n
        <5>1. QED
          BY <4>2, <4>4, RangeOfAppend
      <4>6. QED
        BY <4>1, <4>2, <4>3, <4>5
    <3>2. CASE g # TagOf(r)
      <4>1. PlacesOf(g)' = PlacesOf(g)
        BY <1>1, <1>2, <3>2 DEF PlacesOf
      <4>2. tagIndex'[g] = tagIndex[g]
        BY <2>1, <3>2 DEF TypeOK
      <4>3. QED
        BY <4>1, <4>2 DEF IndexCovers
    <3>3. QED
      BY <3>1, <3>2
  <2>4. QED
    BY <2>1, <2>2, <2>3 DEF IndexCovers, PlacesOf, OtherPlaces
<1>3. CASE ~IsListRule(r)
  <2>1. tagIndex' = tagIndex /\ atomRules' = Append(atomRules, n + 1)
    BY <1>3 DEF IndexRule
  <2>2. \A g \in Tag : PlacesOf(g)' = PlacesOf(g)
    BY <1>1, <1>3 DEF PlacesOf
  <2>3. OtherPlaces' = OtherPlaces \union {n + 1}
    BY <1>1, <1>3 DEF OtherPlaces
  <2>4. n + 1 \in Nat \ {0} /\ atomRules \in Seq(Nat \ {0})
    BY <1>1 DEF TypeOK
  <2>5. OtherPlaces' \subseteq {atomRules'[k] : k \in DOMAIN atomRules'}
    <3>1. /\ {atomRules[k] : k \in DOMAIN atomRules} \subseteq
               {Append(atomRules, n + 1)[k] : k \in DOMAIN Append(atomRules, n + 1)}
          /\ n + 1 \in {Append(atomRules, n + 1)[k] : k \in DOMAIN Append(atomRules, n + 1)}
      <4> HIDE DEF n
      <4>1. QED
        BY <2>4, RangeOfAppend
    <3>2. OtherPlaces \subseteq {atomRules[k] : k \in DOMAIN atomRules}
      BY DEF IndexCovers
    <3>3. QED
      BY <2>1, <2>3, <3>1, <3>2
  <2>6. QED
    BY <2>1, <2>2, <2>5 DEF IndexCovers, PlacesOf, OtherPlaces
<1>4. QED
  BY <1>2, <1>3

LEMMA SameIndexCovers ==
  ASSUME CoverInv, UNCHANGED <<rules, tagIndex, atomRules>>,
         indexEnabled' \in BOOLEAN, pending' \in Seq(Element)
  PROVE  CoverInv'
<1>1. TypeOK'
  BY DEF CoverInv, TypeOK
<1>2. IndexCovers'
  BY DEF CoverInv, IndexCovers, PlacesOf, OtherPlaces
<1>3. QED
  BY <1>1, <1>2 DEF CoverInv

(* A clear leaves no rule, so that whatever the index holds covers them.   *)
LEMMA ClearCovers ==
  ASSUME CoverInv, ClearRules, pending' \in Seq(Element)
  PROVE  CoverInv'
<1>1. TypeOK'
  BY ClearIsTyped DEF CoverInv
<1>2. IndexCovers'
  BY DEF ClearRules, IndexCovers, PlacesOf, OtherPlaces
<1>3. QED
  BY <1>1, <1>2 DEF CoverInv

LEMMA CoverInvInit == AdaptiveInit => CoverInv
<1> SUFFICES ASSUME AdaptiveInit PROVE CoverInv
  OBVIOUS
<1>1. TypeOK
  BY AdaptiveInitIsExact
<1>2. IndexCovers
  BY DEF AdaptiveInit, IndexCovers, PlacesOf, OtherPlaces
<1>3. QED
  BY <1>1, <1>2 DEF CoverInv

LEMMA CoverInvStep == CoverInv /\ [AdaptiveNext]_adaptiveVars => CoverInv'
<1> SUFFICES ASSUME CoverInv, [AdaptiveNext]_adaptiveVars PROVE CoverInv'
  OBVIOUS
<1>1. ASSUME NEW r \in Element, AdaptiveAddRuleElement(r), pending' \in Seq(Element)
      PROVE  CoverInv'
  <2>1. TypeOK'
    BY <1>1, AdaptiveAddType DEF CoverInv
  <2>2. IndexCovers'
    BY <1>1, IndexRuleCovers DEF CoverInv, AdaptiveAddRuleElement
  <2>3. QED
    BY <2>1, <2>2 DEF CoverInv
<1>2. ASSUME NEW r \in Element, AdaptiveAddRule(r) PROVE CoverInv'
  BY <1>1, <1>2 DEF AdaptiveAddRule, CoverInv, TypeOK
<1>3. ASSUME NEW b \in Batches, AdaptiveLoadRulesFromFile(b) PROVE CoverInv'
  <2>1. UNCHANGED <<rules, tagIndex, atomRules>> /\ indexEnabled' \in BOOLEAN
    BY <1>3 DEF AdaptiveLoadRulesFromFile, LoadRulesFromFile, CoverInv, TypeOK
  <2>2. pending' \in Seq(Element)
    BY <1>3, BatchesAreRules DEF AdaptiveLoadRulesFromFile, LoadRulesFromFile
  <2>3. QED
    BY <2>1, <2>2, SameIndexCovers
<1>4. CASE AdaptiveAddPending
  <2>1. Head(pending) \in Element /\ Tail(pending) \in Seq(Element)
    BY <1>4 DEF AdaptiveAddPending, CoverInv, TypeOK
  <2>2. QED
    BY <1>1, <1>4, <2>1 DEF AdaptiveAddPending
<1>5. ASSUME NEW enabled \in BOOLEAN, ForceIndexing(enabled) PROVE CoverInv'
  BY <1>5, SameIndexCovers DEF ForceIndexing, CoverInv, TypeOK
<1>6. CASE AdaptiveClear
  BY <1>6, ClearCovers DEF AdaptiveClear, CoverInv, TypeOK
<1>7. ASSUME NEW b \in Batches, AdaptiveImportRules(b) PROVE CoverInv'
  <2>1. ClearRules /\ pending' \in Seq(Element)
    BY <1>7, BatchesAreRules DEF AdaptiveImportRules, ImportRules
  <2>2. QED
    BY <2>1, ClearCovers
<1>8. CASE UNCHANGED adaptiveVars
  BY <1>8, SameIndexCovers DEF adaptiveVars, vars, CoverInv, TypeOK
<1>9. QED
  BY <1>2, <1>3, <1>4, <1>5, <1>6, <1>7, <1>8 DEF AdaptiveNext

LEMMA CoverInvariant == AdaptiveSpec => []CoverInv
<1>1. QED
  BY CoverInvInit, CoverInvStep, PTL DEF AdaptiveSpec

(* Whatever is added, cleared, imported or forced, in any order, every     *)
(* rule is found in the index under its tag or among the atoms.            *)
THEOREM IndexAlwaysCovers == AdaptiveSpec => []IndexCovers
<1>1. CoverInv => IndexCovers
  BY DEF CoverInv
<1>2. QED
  BY <1>1, CoverInvariant, PTL

(* Every place of an exact index is that of a rule, and a rule that is     *)
(* above a query is where the index looks for it.                          *)
LEMMA CoverMakesAnswersAgree == CoverInv /\ ExactInv => StrategyChangesNoAnswer
<1> DEFINE places(q) == IndexPlaces(q)
<1> SUFFICES ASSUME CoverInv, ExactInv, \A i \in DOMAIN rules : rules[i] \notin StarForm,
                    NEW q \in Element \ StarForm
             PROVE  \/ Search(q, places(q)) = Search(q, RulePlaces)
                    \/ stale /\ Search(q, places(q)) = "panic"
  BY DEF StrategyChangesNoAnswer
<1>1. Search(q, RulePlaces) = IF QueryLinear(q) THEN "permit" ELSE "deny"
  <2>1. /\ DOMAIN RulePlaces = DOMAIN rules
        /\ \A k \in DOMAIN rules : RulePlaces[k] = k
    BY DEF RulePlaces
  <2>2. (\E k \in DOMAIN RulePlaces : Hit(q, RulePlaces[k])) <=> QueryLinear(q)
    BY <2>1 DEF Hit, QueryLinear
  <2>3. QED
    BY <2>1, <2>2, SearchAnswers
<1>2. (\E k \in DOMAIN places(q) : Hit(q, places(q)[k])) => QueryLinear(q)
  BY DEF Hit, QueryLinear
<1>3. ASSUME ~stale PROVE Search(q, places(q)) # "panic"
  <2>1. IndexListsRules
    BY <1>3 DEF ExactInv, IndexExactUnlessStale
  <2>2. \A k \in DOMAIN places(q) : places(q)[k] \in DOMAIN rules
    BY <2>1, ElementsHaveTags DEF IndexPlaces, IndexListsRules, Ascends, PlacesOf, OtherPlaces
  <2>3. QED
    BY <2>2, SearchAnswers
<1>4. ASSUME QueryLinear(q) PROVE \E k \in DOMAIN places(q) : Hit(q, places(q)[k])
  <2>1. PICK i \in DOMAIN rules : Leq(q, rules[i])
    BY <1>4 DEF QueryLinear
  <2>2. /\ rules[i] \in Element
        /\ IsListRule(q) <=> IsListRule(rules[i])
        /\ IsListRule(q) => TagOf(q) = TagOf(rules[i])
    BY <2>1, LeqRespectsTags DEF CoverInv, TypeOK
  <2>3. CASE IsListRule(q)
    <3>1. i \in PlacesOf(TagOf(q)) /\ TagOf(q) \in Tag
      BY <2>2, <2>3, ElementsHaveTags DEF PlacesOf
    <3>2. PICK k \in DOMAIN tagIndex[TagOf(q)] : tagIndex[TagOf(q)][k] = i
      BY <3>1 DEF CoverInv, IndexCovers
    <3>3. QED
      BY <2>1, <2>3, <3>2 DEF Hit, IndexPlaces
  <2>4. CASE ~IsListRule(q)
    <3>1. i \in OtherPlaces
      BY <2>2, <2>4 DEF OtherPlaces
    <3>2. PICK k \in DOMAIN atomRules : atomRules[k] = i
      BY <3>1 DEF CoverInv, IndexCovers
    <3>3. QED
      BY <2>1, <2>4, <3>2 DEF Hit, IndexPlaces
  <2>5. QED
    BY <2>3, <2>4
<1>5. CASE Search(q, places(q)) = "panic"
  BY <1>3, <1>5
<1>6. CASE Search(q, places(q)) # "panic"
  BY <1>1, <1>2, <1>4, <1>6, SearchAnswers
<1>7. QED
  BY <1>5, <1>6

(* The rule at which indexing begins or ends changes no answer, and        *)
(* neither does a call that forces it, if no rule is a star form itself;   *)
(* but over places that a clear left in the index, which only a clear      *)
(* while indexing is off does, a query that uses it may panic.             *)
THEOREM AnswersIgnoreStrategy == AdaptiveSpec => []StrategyChangesNoAnswer
<1>1. QED
  BY CoverInvariant, ExactInvariant, CoverMakesAnswersAgree, PTL

-----------------------------------------------------------------------------
(***************************************************************************)
(* The statistics.                                                         *)
(***************************************************************************)
ListPlaces == {i \in DOMAIN rules : IsListRule(rules[i])}

CountInv ==
  /\ TypeOK
  /\ stats = [TotalRules |-> Len(rules), ListRules |-> Cardinality(ListPlaces),
              AtomRules |-> Cardinality(OtherPlaces), UniqueTags |-> stats.UniqueTags,
              IndexingEnabled |-> stats.IndexingEnabled]
  /\ rules # <<>> => stats.IndexingEnabled = indexEnabled

LEMMA PlacesAreFinite ==
  ASSUME TypeOK
  PROVE  IsFiniteSet(ListPlaces) /\ IsFiniteSet(OtherPlaces)
<1>1. DOMAIN rules = 1..Len(rules) /\ Len(rules) \in Nat
  BY DEF TypeOK
<1>2. IsFiniteSet(DOMAIN rules)
  BY <1>1, FS_Interval
<1>3. ListPlaces \in SUBSET DOMAIN rules /\ OtherPlaces \in SUBSET DOMAIN rules
  BY DEF ListPlaces, OtherPlaces
<1>4. QED
  BY <1>2, <1>3, FS_Subset

(* A rule that is added is one more of its kind.                           *)
LEMMA AddCounts ==
  ASSUME CountInv, NEW r \in Element, AdaptiveAddRuleElement(r), pending' \in Seq(Element)
  PROVE  CountInv'
<1> DEFINE n == Len(rules) + 1
<1>1. TypeOK'
  BY AdaptiveAddType DEF CountInv
<1>2. /\ rules' = Append(rules, r) /\ DOMAIN rules = 1..Len(rules) /\ Len(rules) \in Nat
      /\ DOMAIN rules' = 1..n /\ Len(rules') = n
      /\ rules'[n] = r /\ \A i \in DOMAIN rules : rules'[i] = rules[i]
  BY DEF AdaptiveAddRuleElement, CountInv, TypeOK
<1>3. n \notin ListPlaces /\ n \notin OtherPlaces
  BY <1>2 DEF ListPlaces, OtherPlaces
<1>4. /\ Cardinality(ListPlaces \union {n}) = Cardinality(ListPlaces) + 1
      /\ Cardinality(OtherPlaces \union {n}) = Cardinality(OtherPlaces) + 1
  BY <1>3, PlacesAreFinite, FS_AddElement DEF CountInv
<1>5. /\ stats.TotalRules = Len(rules) /\ stats.ListRules = Cardinality(ListPlaces)
      /\ stats.AtomRules = Cardinality(OtherPlaces)
      /\ Cardinality(ListPlaces) \in Nat /\ Cardinality(OtherPlaces) \in Nat
  BY PlacesAreFinite, FS_CardinalityType DEF CountInv
<1>6. stats' = [TotalRules |-> n,
                ListRules  |-> stats.ListRules + (IF IsListRule(r) THEN 1 ELSE 0),
                AtomRules  |-> stats.AtomRules + (IF IsListRule(r) THEN 0 ELSE 1),
                UniqueTags |-> stats'.UniqueTags, IndexingEnabled |-> stats'.IndexingEnabled]
      /\ stats'.IndexingEnabled = indexEnabled'
  BY <1>5 DEF AdaptiveAddRuleElement
<1>7. CASE IsListRule(r)
  <2>1. ListPlaces' = ListPlaces \union {n} /\ OtherPlaces' = OtherPlaces
    BY <1>2, <1>7 DEF ListPlaces, OtherPlaces
  <2>2. QED
    BY <1>1, <1>2, <1>4, <1>5, <1>6, <1>7, <2>1 DEF CountInv
<1>8. CASE ~IsListRule(r)
  <2>1. ListPlaces' = ListPlaces /\ OtherPlaces' = OtherPlaces \union {n}
    BY <1>2, <1>8 DEF ListPlaces, OtherPlaces
  <2>2. QED
    BY <1>1, <1>2, <1>4, <1>5, <1>6, <1>8, <2>1 DEF CountInv
<1>9. QED
  BY <1>7, <1>8

LEMMA NothingCounted ==
  ASSUME TypeOK, rules = <<>>, stats = NoStats
  PROVE  CountInv
<1>1. ListPlaces = {} /\ OtherPlaces = {}
  BY DEF ListPlaces, OtherPlaces
<1>2. QED
  BY <1>1, FS_EmptySet DEF CountInv, NoStats

LEMMA ClearCounts ==
  ASSUME CountInv, ClearRules, stats' = NoStats, pending' \in Seq(Element)
  PROVE  CountInv'
<1>1. TypeOK' /\ rules' = <<>>
  BY ClearIsTyped DEF CountInv, ClearRules
<1>2. ListPlaces' = {} /\ OtherPlaces' = {}
  BY <1>1 DEF ListPlaces, OtherPlaces
<1>3. QED
  BY <1>1, <1>2, FS_EmptySet DEF CountInv, NoStats

LEMMA SameCounts ==
  ASSUME CountInv, UNCHANGED <<rules, tagIndex, atomRules>>,
         indexEnabled' \in BOOLEAN, pending' \in Seq(Element),
         \/ stats' = stats /\ indexEnabled' = indexEnabled
         \/ stats' = [stats EXCEPT !.IndexingEnabled = indexEnabled']
  PROVE  CountInv'
<1>1. TypeOK'
  BY DEF CountInv, TypeOK
<1>2. ListPlaces' = ListPlaces /\ OtherPlaces' = OtherPlaces /\ Len(rules') = Len(rules)
  BY DEF ListPlaces, OtherPlaces
<1>3. QED
  BY <1>1, <1>2 DEF CountInv

LEMMA CountInvStep == CountInv /\ [AdaptiveNext]_adaptiveVars => CountInv'
<1> SUFFICES ASSUME CountInv, [AdaptiveNext]_adaptiveVars PROVE CountInv'
  OBVIOUS
<1>1. ASSUME NEW r \in Element, AdaptiveAddRule(r) PROVE CountInv'
  BY <1>1, AddCounts DEF AdaptiveAddRule, CountInv, TypeOK
<1>2. ASSUME NEW b \in Batches, AdaptiveLoadRulesFromFile(b) PROVE CountInv'
  <2>1. /\ UNCHANGED <<rules, tagIndex, atomRules>> /\ stats' = stats
        /\ indexEnabled' = indexEnabled /\ indexEnabled' \in BOOLEAN /\ pending' \in Seq(Element)
    BY <1>2, BatchesAreRules DEF AdaptiveLoadRulesFromFile, LoadRulesFromFile, CountInv, TypeOK
  <2>2. QED
    BY <2>1, SameCounts
<1>3. CASE AdaptiveAddPending
  <2>1. Head(pending) \in Element /\ Tail(pending) \in Seq(Element)
    BY <1>3 DEF AdaptiveAddPending, CountInv, TypeOK
  <2>2. QED
    BY <1>3, <2>1, AddCounts DEF AdaptiveAddPending
<1>4. ASSUME NEW enabled \in BOOLEAN, ForceIndexing(enabled) PROVE CountInv'
  BY <1>4, SameCounts DEF ForceIndexing, CountInv, TypeOK
<1>5. CASE AdaptiveClear
  BY <1>5, ClearCounts DEF AdaptiveClear, CountInv, TypeOK
<1>6. ASSUME NEW b \in Batches, AdaptiveImportRules(b) PROVE CountInv'
  <2>1. ClearRules /\ stats' = NoStats /\ pending' \in Seq(Element)
    BY <1>6, BatchesAreRules DEF AdaptiveImportRules, ImportRules
  <2>2. QED
    BY <2>1, ClearCounts
<1>7. CASE UNCHANGED adaptiveVars
  BY <1>7, SameCounts DEF adaptiveVars, vars, CountInv, TypeOK
<1>8. QED
  BY <1>1, <1>2, <1>3, <1>4, <1>5, <1>6, <1>7 DEF AdaptiveNext

(* The statistics, which are counted up rule by rule and set back by every *)
(* clear, count the rules that are there, while a load or an import is at  *)
(* work as well, and name the strategy in use (adaptive_engine.go).        *)
THEOREM StatisticsAreRight == AdaptiveSpec => []StatsCountRules
<1>1. AdaptiveInit => CountInv
  BY AdaptiveInitIsExact, NothingCounted DEF AdaptiveInit
<1>2. CountInv => StatsCountRules
  BY DEF CountInv, StatsCountRules, ListPlaces
<1>3. QED
  BY <1>1, <1>2, CountInvStep, PTL DEF AdaptiveSpec
=============================================================================

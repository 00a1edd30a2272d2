--------------------------- MODULE AdaptiveEngine ---------------------------
(***************************************************************************)
(* The adaptive engine (adaptive_engine.go): an Engine whose index is      *)
(* always built and used only when the rule set is large and varied        *)
(* enough, which is decided anew after every rule.                         *)
(*                                                                         *)
(* The state is that of Engine and the statistics.  The actions start with *)
(* Adaptive because AdaptiveEngine does not use Engine's AddRuleElement;   *)
(* its queries are Engine's.                                               *)
(***************************************************************************)
EXTENDS Engine

LOCAL FX == INSTANCE FiniteSetsExt
LOCAL SX == INSTANCE SequencesExt

CONSTANTS
  MinRulesForIndexing,     \* 50 in the code
  MinTagCountForIndexing,  \* 5
  MaxAvgFanoutForIndexing, \* 100
  MaxStale                 \* bound on the places that a clear leaves in the index

ASSUME ThresholdsArePositive ==
  /\ MinRulesForIndexing \in Nat \ {0}
  /\ MinTagCountForIndexing \in Nat \ {0}
  /\ MaxAvgFanoutForIndexing \in Nat \ {0}

ASSUME MaxStaleIsNat == MaxStale \in Nat

VARIABLES
  stats,   \* AdaptiveStats, without AvgTagFanout: only the decision it leads to
  stale    \* history: the index holds places of rules that were cleared

adaptiveVars == <<vars, stats, stale>>

NoStats == [TotalRules |-> 0, ListRules |-> 0, AtomRules |-> 0, UniqueTags |-> 0,
            IndexingEnabled |-> FALSE]

AdaptiveInit ==
  /\ rules = <<>>
  /\ EmptyIndex
  /\ indexEnabled = FALSE
  /\ pending = <<>>
  /\ stats = NoStats
  /\ stale = FALSE

\* How many places the tags of an index have together.
TotalTagged(index) == FX!MapThenSumSet(LAMBDA g : Len(index[g]), Tag)

\* The strategy decided from the index and the number of rules; TotalTagged
\* over the number of tags is the average fanout.
ShouldIndex(index, totalRules) ==
  LET tags == {g \in Tag : index[g] # <<>>}
  IN  /\ totalRules >= MinRulesForIndexing
      /\ Cardinality(tags) >= MinTagCountForIndexing
      /\ TotalTagged(index) <= MaxAvgFanoutForIndexing * Cardinality(tags)

\* An adaptive engine that builds the index only while it uses it.
AdaptiveAddLazily(r) ==
  LET total == stats.TotalRules + 1
  IN  /\ rules' = Append(rules, r)
      /\ IF indexEnabled THEN IndexRule(r) ELSE UNCHANGED <<tagIndex, atomRules>>
      /\ indexEnabled' = (total >= MinRulesForIndexing)
      /\ stats' = [TotalRules |-> total,
                   ListRules  |-> stats.ListRules + (IF IsListRule(r) THEN 1 ELSE 0),
                   AtomRules  |-> stats.AtomRules + (IF IsListRule(r) THEN 0 ELSE 1),
                   UniqueTags |-> Cardinality({g \in Tag : tagIndex'[g] # <<>>}),
                   IndexingEnabled |-> indexEnabled']

\* AddRuleElement, with updateIndexingStrategy at its end.
AdaptiveAddRuleElement(r) ==
  LET total == stats.TotalRules + 1
  IN  /\ rules' = Append(rules, r)
      /\ IndexRule(r)
      /\ indexEnabled' = ShouldIndex(tagIndex', total)
      /\ stats' = [TotalRules |-> total,
                   ListRules  |-> stats.ListRules + (IF IsListRule(r) THEN 1 ELSE 0),
                   AtomRules  |-> stats.AtomRules + (IF IsListRule(r) THEN 0 ELSE 1),
                   UniqueTags |-> Cardinality({g \in Tag : tagIndex'[g] # <<>>}),
                   IndexingEnabled |-> indexEnabled']

AdaptiveAddRule(r) ==
  /\ Idle
  /\ Len(rules) < MaxRules
  /\ AdaptiveAddRuleElement(r)
  /\ UNCHANGED <<pending, stale>>

\* Where what a clear leaves behind stays within the bound.
StaleWithinBound ==
  indexEnabled \/ TotalTagged(tagIndex) + Len(atomRules) <= MaxStale

\* A clear while indexing is off leaves the places of the rules there were.
NoteStale == stale' = (~indexEnabled /\ (stale \/ rules # <<>>))

\* Clear that forgets to reset the statistics.
AdaptiveClearKeepStats ==
  /\ Idle
  /\ StaleWithinBound
  /\ ClearRules
  /\ NoteStale
  /\ UNCHANGED <<pending, stats>>

\* Clear resets the statistics and the rules, and the index if it is in use.
AdaptiveClear ==
  /\ Idle
  /\ StaleWithinBound
  /\ ClearRules
  /\ stats' = NoStats
  /\ NoteStale
  /\ UNCHANGED pending

AdaptiveLoadRulesFromFile(b) ==
  LoadRulesFromFile(b) /\ UNCHANGED <<stats, stale>>

AdaptiveImportRules(b) ==
  /\ StaleWithinBound
  /\ ImportRules(b)
  /\ stats' = NoStats
  /\ NoteStale

AdaptiveAddPending ==
  /\ pending # <<>>
  /\ AdaptiveAddRuleElement(Head(pending))
  /\ pending' = Tail(pending)
  /\ UNCHANGED stale

ForceIndexing(enabled) ==
  /\ Idle
  /\ indexEnabled' = enabled
  /\ stats' = [stats EXCEPT !.IndexingEnabled = enabled]
  /\ UNCHANGED <<rules, tagIndex, atomRules, pending, stale>>

AdaptiveNext ==
  \/ \E r \in Element : AdaptiveAddRule(r)
  \/ AdaptiveClear
  \/ \E b \in Batches : AdaptiveLoadRulesFromFile(b) \/ AdaptiveImportRules(b)
  \/ AdaptiveAddPending
  \/ \E enabled \in BOOLEAN : ForceIndexing(enabled)

AdaptiveSpec == AdaptiveInit /\ [][AdaptiveNext]_adaptiveVars

-----------------------------------------------------------------------------
(***************************************************************************)
(* Properties.                                                             *)
(***************************************************************************)
(* The index covers the rules, in use or not: whichever way the strategy   *)
(* turns, and after any clear, a rule is where a query will look for it.   *)
IndexCovers ==
  /\ \A g \in Tag : PlacesOf(g) \subseteq {tagIndex[g][k] : k \in DOMAIN tagIndex[g]}
  /\ OtherPlaces \subseteq {atomRules[k] : k \in DOMAIN atomRules}

(* The statistics count the rules that are there, lists and others, after  *)
(* any sequence of adds, loads, imports and clears, and while there are    *)
(* rules they name the strategy that queries follow.                       *)
StatsCountRules ==
  /\ stats.TotalRules = Len(rules)
  /\ stats.ListRules = Cardinality({i \in DOMAIN rules : IsListRule(rules[i])})
  /\ stats.AtomRules = Cardinality(OtherPlaces)
  /\ rules # <<>> => stats.IndexingEnabled = indexEnabled

(* Whichever way the strategy turns, and whatever is forced, no query is   *)
(* answered differently with the index and without it, if no rule is a     *)
(* star form itself.  This holds also where a clear left places of old     *)
(* rules in the index, which may be those of others by now; but there a    *)
(* query that uses the index may panic at a place past the end.            *)
StrategyChangesNoAnswer ==
  (\A i \in DOMAIN rules : rules[i] \notin StarForm) =>
    \A q \in Element \ StarForm :
      \/ Search(q, IndexPlaces(q)) = Search(q, RulePlaces)
      \/ stale /\ Search(q, IndexPlaces(q)) = "panic"

(* The index is exact in use or not, except for what clears left in it     *)
(* while it was not in use.                                                *)
IndexExactUnlessStale == ~stale => IndexListsRules

(* Then no query reads past the end of the rules either, whatever the      *)
(* strategy or a caller makes of indexing.                                 *)
NoPanicUnlessStale == ~stale => NoPanic
=============================================================================

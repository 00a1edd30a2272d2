------------------------------ MODULE RuleBook ------------------------------
(***************************************************************************)
(* What an authorization engine promises its caller: it keeps the rules    *)
(* that were given to it, in the order they were given, and each operation *)
(* takes effect at once.  Indexing, and the loops that add the rules of a  *)
(* file one by one, are not visible here.                                  *)
(***************************************************************************)
EXTENDS Sequences

CONSTANTS
  Element,   \* rules
  Batches    \* the sequences of rules that files and callers provide

VARIABLE book

Init == book = <<>>

Add(r)     == book' = Append(book, r)
Load(b)    == book' = book \o b
Replace(b) == book' = b
Clear      == book' = <<>>

Next ==
  \/ \E r \in Element : Add(r)
  \/ \E b \in Batches : Load(b) \/ Replace(b)
  \/ Clear

Spec == Init /\ [][Next]_book
=============================================================================

------------------------------ MODULE MCCalls ------------------------------
(***************************************************************************)
(* What a configuration gives the calls of Compare: the functions called.  *)
(* TLC evaluates the recursion; it also looks for the definition behind a  *)
(* constant when it counts coverage, and a LET ends that search.           *)
(***************************************************************************)
EXTENDS Compare

MCBelow(s, t) == LET answer == LessPermissive(s, t) IN answer
MCSame(a, b)  == LET answer == ElementsEqual(a, b) IN answer
=============================================================================

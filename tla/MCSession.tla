----------------------------- MODULE MCSession -----------------------------
(***************************************************************************)
(* Sessions about one atom and one list.                                   *)
(***************************************************************************)
EXTENDS Session, SExp

MCAtom     == Atom(<<98>>)
MCList     == List(<<97>>, <<MCAtom>>)
MCElements == {MCAtom, MCList}
MCSizeOf(e) == IF e = MCList THEN 2 ELSE 1

MCParses(text) == Parse[text].kind = "parsed"

MCRequests == {QueryFor(String[MCList]), AddOf(String[MCAtom]), Logout}
=============================================================================

------------------------------ MODULE MCServer ------------------------------
(***************************************************************************)
(* Servers with few connections and files.                                 *)
(***************************************************************************)
EXTENDS Server

CONSTANTS Bob   \* a query, and the rule for it

MCLeq(q, r) == q = r

OneRule == {Bob}
JustBob == {{Bob}}
=============================================================================

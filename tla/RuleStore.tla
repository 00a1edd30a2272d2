----------------------------- MODULE RuleStore -----------------------------
(***************************************************************************)
(* What a SPOCP server promises the clients of its TCP protocol: the rule  *)
(* set is one object, and every request takes effect on it at one moment   *)
(* between its arrival and its response.  A reload replaces the rules by   *)
(* others or, if it fails, leaves them alone; the server may also reload   *)
(* on its own at any time.                                                 *)
(***************************************************************************)
CONSTANTS
  Client,
  Rule,       \* rules and queries
  Requests,   \* records [op, arg], arg a rule, or Malformed where none is given
  Malformed,
  Leq(_, _)   \* the query is below the rule

VARIABLES
  store,    \* the rules
  phase,    \* of each client: "idle", "asked" or "done"
  request,  \* what each client asked, NoRequest if nothing
  answer    \* what it is or will be told

vars == <<store, phase, request, answer>>

NoRequest == [op |-> "none", arg |-> Malformed]

Init ==
  /\ store \in SUBSET Rule
  /\ phase = [c \in Client |-> "idle"]
  /\ request = [c \in Client |-> NoRequest]
  /\ answer = [c \in Client |-> "none"]

Ask(c, m) ==
  /\ phase[c] = "idle"
  /\ phase' = [phase EXCEPT ![c] = "asked"]
  /\ request' = [request EXCEPT ![c] = m]
  /\ UNCHANGED <<store, answer>>

\* A request that needs no rules is answered as it arrives.
Dismiss(c, m) ==
  /\ phase[c] = "idle"
  /\ m.op # "RELOAD" /\ m.arg = Malformed
  /\ phase' = [phase EXCEPT ![c] = "done"]
  /\ request' = [request EXCEPT ![c] = m]
  /\ answer' = [answer EXCEPT ![c] = CASE m.op = "LOGOUT" -> "bye"
                                       [] m.op = "other"  -> "unknown"
                                       [] OTHER           -> "error"]
  /\ UNCHANGED store

\* The moment a request of c takes effect.
Effect(c, op, result) ==
  /\ phase[c] = "asked"
  /\ request[c].op = op
  /\ phase' = [phase EXCEPT ![c] = "done"]
  /\ answer' = [answer EXCEPT ![c] = result]
  /\ UNCHANGED request

Query(c) ==
  LET granted == \E r \in store : Leq(request[c].arg, r)
  IN  /\ Effect(c, "QUERY", IF granted THEN "ok" ELSE "denied")
      /\ UNCHANGED store

Add(c) == /\ Effect(c, "ADD", "ok")
          /\ store' = store \union {request[c].arg}

Reload(c) == /\ Effect(c, "RELOAD", "ok")
             /\ store' \in SUBSET Rule

ReloadFails(c) == /\ Effect(c, "RELOAD", "error")
                  /\ UNCHANGED store

AutoReload == /\ store' \in SUBSET Rule
              /\ UNCHANGED <<phase, request, answer>>

Respond(c) ==
  /\ phase[c] = "done"
  /\ phase' = [phase EXCEPT ![c] = "idle"]
  /\ request' = [request EXCEPT ![c] = NoRequest]
  /\ answer' = [answer EXCEPT ![c] = "none"]
  /\ UNCHANGED store

Next ==
  \/ \E c \in Client :
       \/ \E m \in Requests : Ask(c, m) \/ Dismiss(c, m)
       \/ Query(c) \/ Add(c) \/ Reload(c) \/ ReloadFails(c)
       \/ Respond(c)
  \/ AutoReload

Spec == Init /\ [][Next]_vars
=============================================================================

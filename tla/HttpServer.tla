----------------------------- MODULE HttpServer -----------------------------
(***************************************************************************)
(* The HTTP server (pkg/httpserver): its two modes, its handlers and their *)
(* counters, and its shutdown.  Each request is served by a goroutine of   *)
(* net/http, of which this module has as much as the code relies on.       *)
(*                                                                         *)
(* The mutex is held for a query and no longer, which makes a query one    *)
(* step; Server.tla has the lock itself.  The answers of /health and       *)
(* /ready change nothing and are left out.                                 *)
(***************************************************************************)
EXTENDS AuthZen, Integers

CONSTANTS
  Handler,           \* goroutines of net/http
  Directories,       \* contents of RulesDir: sequences of files
  Additions,         \* rules that the TCP server, whose engine is shared, may add
  MaxArrivals        \* bound: requests in a behaviour

ASSUME HandlerIsFinite == IsFiniteSet(Handler)

ASSUME MaxArrivalsIsNat == MaxArrivals \in Nat

VARIABLES
  mode,      \* "none", "alone", "shared", "failed"
  rules,     \* of the engine
  serving,   \* the goroutine of Start: "none", "starting", "listening", "ended"
  closing,   \* Close: "no", "shutdown", "wait", "nil" or "error" when it has returned
  handler,   \* what each goroutine does
  metrics,   \* the counters
  arrivals,  \* evaluation requests so far
  answered,  \* of them, how many have been answered, and in which way
  granted    \* the requests that were granted

engineVars  == <<mode, rules>>
serverVars  == <<serving, closing>>
historyVars == <<arrivals, answered, granted>>
vars        == <<engineVars, serverVars, handler, metrics, historyVars>>

Idle    == [at |-> "idle"]

Counters == <<"total", "ok", "deny", "errors">>
Field    == {"total", "ok", "deny", "errors"}
Nothing  == [f \in Field |-> 0]

Busy  == {h \in Handler : handler[h] # Idle}
Quiet == Busy = {} /\ serving \in {"none", "ended"}

Init ==
  /\ mode = "none" /\ rules = {}
  /\ serving = "none" /\ closing = "no"
  /\ handler = [h \in Handler |-> Idle]
  /\ metrics = Nothing /\ arrivals = 0 /\ answered = Nothing /\ granted = {}

-----------------------------------------------------------------------------
(***************************************************************************)
(* Life of the server.                                                     *)
(***************************************************************************)
\* A file of a directory, and what all of them hold: nothing if one is broken.
FileOf(ruleSet) == [broken |-> FALSE, rules |-> ruleSet]
Broken          == [broken |-> TRUE, rules |-> {}]

LoadRulesFromDir(files) ==
  IF \E i \in DOMAIN files : files[i].broken THEN {}
                                           ELSE UNION {files[i].rules : i \in DOMAIN files}

\* NewHTTPServer, with the engine of a TCP server or with one of its own.
NewShared ==
  /\ mode = "none"
  /\ mode' = "shared"
  /\ UNCHANGED <<rules, serverVars, handler, metrics, historyVars>>

NewAlone ==
  /\ mode = "none"
  /\ \E files \in Directories :
       /\ rules' = LoadRulesFromDir(files)
       /\ mode' = IF rules' = {} THEN "failed" ELSE "alone"
  /\ UNCHANGED <<serverVars, handler, metrics, historyVars>>

\* An engine that has the last rule only.
AddRuleAlone ==
  /\ mode = "shared"
  /\ \E rule \in Additions : rules' = {rule}
  /\ UNCHANGED <<mode, serverVars, handler, metrics, historyVars>>

\* An ADD to the TCP server.
AddRule ==
  /\ mode = "shared"
  /\ \E rule \in Additions : rules' = rules \union {rule}
  /\ UNCHANGED <<mode, serverVars, handler, metrics, historyVars>>

Start ==
  /\ mode \in {"alone", "shared"} /\ serving = "none" /\ closing = "no"
  /\ serving' = "starting"
  /\ UNCHANGED <<engineVars, closing, handler, metrics, historyVars>>

Listen ==
  /\ serving = "starting" /\ closing = "no"
  /\ serving' = "listening"
  /\ UNCHANGED <<engineVars, closing, handler, metrics, historyVars>>

\* ListenAndServe returns: the port is taken, or the server is shut down.
ServeEnds ==
  /\ serving = "starting" \/ (serving = "listening" /\ closing # "no")
  /\ serving' = "ended"
  /\ UNCHANGED <<engineVars, closing, handler, metrics, historyVars>>

Close ==
  /\ mode \in {"alone", "shared"} /\ closing = "no"
  /\ closing' = "shutdown"
  /\ UNCHANGED <<engineVars, serving, handler, metrics, historyVars>>

\* Shutdown waits until no request is served.
ShutdownEnds ==
  /\ closing = "shutdown" /\ Busy = {}
  /\ closing' = "wait"
  /\ UNCHANGED <<engineVars, serving, handler, metrics, historyVars>>

\* Five seconds pass: Close returns the error, and neither ends the connections
\* nor waits for the goroutine.
CloseIgnoresTimeout ==
  /\ closing = "shutdown" /\ Busy # {}
  /\ closing' = "wait"
  /\ UNCHANGED <<engineVars, serving, handler, metrics, historyVars>>

ShutdownTimesOut ==
  /\ closing = "shutdown" /\ Busy # {}
  /\ closing' = "error"
  /\ UNCHANGED <<engineVars, serving, handler, metrics, historyVars>>

\* The rest of Close, wg.Wait.
CloseEnds ==
  /\ closing = "wait" /\ serving \in {"none", "ended"}
  /\ closing' = "nil"
  /\ UNCHANGED <<engineVars, serving, handler, metrics, historyVars>>

-----------------------------------------------------------------------------
(***************************************************************************)
(* Handlers.                                                               *)
(***************************************************************************)
\* A request comes in while the server listens, and h is there to serve it.
Accept(h, state) ==
  /\ serving = "listening" /\ closing = "no" /\ handler[h] = Idle
  /\ handler' = [handler EXCEPT ![h] = state]

Add(counters, field) == [counters EXCEPT ![field] = @ + 1]

Count(field) == metrics' = Add(metrics, field)

\* A request about which something has been decided.
Decided(stage, asked, decision) ==
  [at |-> stage, request |-> asked.request, query |-> asked.query, known |-> asked.known,
   decision |-> decision]

Become(h, stage) ==
  handler' = [handler EXCEPT ![h] = Decided(stage, @, @.decision)]

\* handleEvaluation: the request is read and converted; known tells if a request
\* like this one has been granted before.
Evaluate(h) ==
  /\ arrivals < MaxArrivals /\ arrivals' = arrivals + 1
  /\ \E r \in Requests : \E q \in ToSExpression(r) :
       Accept(h, [at |-> "asking", request |-> r, query |-> q, known |-> r \in granted])
  /\ UNCHANGED <<engineVars, serverVars, metrics, answered, granted>>

\* The body is not what it should be, or does not come within five seconds.
\* A method other than POST is answered without being counted.
BadRequest(h) ==
  /\ arrivals < MaxArrivals /\ arrivals' = arrivals + 1
  /\ Accept(h, [at |-> "rejecting"])
  /\ Count("errors")
  /\ UNCHANGED <<engineVars, serverVars, answered, granted>>

Reject(h) ==
  /\ handler[h].at = "rejecting"
  /\ handler' = [handler EXCEPT ![h] = Idle]
  /\ answered' = Add(answered, "errors")
  /\ UNCHANGED <<engineVars, serverVars, metrics, arrivals, granted>>

Granted(query) == \E rule \in rules : LessPermissive(query, rule)

Query(h) ==
  /\ handler[h].at = "asking"
  /\ handler' = [handler EXCEPT ![h] = Decided("decided", @, Granted(@.query))]
  /\ UNCHANGED <<engineVars, serverVars, metrics, historyVars>>

CountTotal(h) ==
  /\ handler[h].at = "decided"
  /\ Count("total")
  /\ Become(h, "counting")
  /\ UNCHANGED <<engineVars, serverVars, historyVars>>

\* A denial is left out.
CountGrant(h) ==
  /\ handler[h].at = "counting"
  /\ IF handler[h].decision THEN Count("ok") ELSE UNCHANGED metrics
  /\ Become(h, "answering")
  /\ UNCHANGED <<engineVars, serverVars, historyVars>>

CountDecision(h) ==
  /\ handler[h].at = "counting"
  /\ Count(IF handler[h].decision THEN "ok" ELSE "deny")
  /\ Become(h, "answering")
  /\ UNCHANGED <<engineVars, serverVars, historyVars>>

Answer(h) ==
  /\ handler[h].at = "answering"
  /\ handler' = [handler EXCEPT ![h] = Idle]
  /\ answered' = Add(Add(answered, "total"), IF handler[h].decision THEN "ok" ELSE "deny")
  /\ granted' = IF handler[h].decision THEN granted \union {handler[h].request} ELSE granted
  /\ UNCHANGED <<engineVars, serverVars, metrics, arrivals>>

\* The client has gone, or does not read for ten seconds.
AnswerFails(h) ==
  /\ handler[h].at \in {"answering", "rejecting"}
  /\ handler' = [handler EXCEPT ![h] = Idle]
  /\ UNCHANGED <<engineVars, serverVars, metrics, historyVars>>

\* handleStats, handleMetrics and GetMetrics load one counter after the other.
BeginReport(h) ==
  /\ Accept(h, [at |-> "reporting", since |-> answered, loaded |-> <<>>])
  /\ UNCHANGED <<engineVars, serverVars, metrics, historyVars>>

LoadCounter(h) ==
  /\ handler[h].at = "reporting" /\ Len(handler[h].loaded) < Len(Counters)
  /\ handler' = [handler EXCEPT ![h] =
       [at |-> "reporting", since |-> @.since,
        loaded |-> Append(@.loaded, metrics[Counters[Len(@.loaded) + 1]])]]
  /\ UNCHANGED <<engineVars, serverVars, metrics, historyVars>>

Report(h) ==
  /\ handler[h].at = "reporting" /\ Len(handler[h].loaded) = Len(Counters)
  /\ handler' = [handler EXCEPT ![h] = Idle]
  /\ UNCHANGED <<engineVars, serverVars, metrics, historyVars>>

-----------------------------------------------------------------------------
Next ==
  \/ NewShared \/ NewAlone \/ AddRule
  \/ Start \/ Listen \/ ServeEnds
  \/ Close \/ ShutdownEnds \/ ShutdownTimesOut \/ CloseEnds
  \/ \E h \in Handler :
       \/ Evaluate(h) \/ Query(h) \/ CountTotal(h) \/ CountDecision(h) \/ Answer(h)
       \/ BadRequest(h) \/ Reject(h) \/ AnswerFails(h)
       \/ BeginReport(h) \/ LoadCounter(h) \/ Report(h)

Spec == Init /\ [][Next]_vars

-----------------------------------------------------------------------------
(* When Close has returned without an error, no request is being served,   *)
(* none will be, and the goroutine of Start is gone.                       *)
CloseMeansQuiet == closing = "nil" => Quiet

(* A report counts every answer that was given before it was asked for,    *)
(* and nothing that has not come in: the counters, loaded one by one while *)
(* handlers count, never say less than a client that asks has seen.        *)
ReportCountsAnswers ==
  \A h \in Handler : handler[h].at = "reporting" =>
    LET loaded == handler[h].loaded
    IN  /\ \A i \in DOMAIN loaded : loaded[i] >= handler[h].since[Counters[i]]
        /\ Len(loaded) = Len(Counters) => loaded[2] + loaded[3] + loaded[4] <= arrivals

(* A request that was granted once is granted again, whatever the other    *)
(* handlers and the TCP server do, if no order of map entries comes in.    *)
GrantsStand ==
  \A h \in Handler :
    /\ handler[h].at \in {"decided", "counting", "answering"}
    /\ Settled(handler[h].request) /\ handler[h].known
    => handler[h].decision

(* Two plain requests that are the same to the engine are the same: no     *)
(* property can pass for the action, the subject or the context.           *)
SameQuerySameRequest ==
  \A g, h \in {x \in Handler : handler[x].at = "asking"} :
    /\ Plain(handler[g].request) /\ Plain(handler[h].request)
    /\ handler[g].query = handler[h].query
    => handler[g].request = handler[h].request
=============================================================================

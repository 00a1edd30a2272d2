--------------------------- MODULE ServerMetrics ---------------------------
(***************************************************************************)
(* The counters and the gauge that a Server keeps beside its rules         *)
(* (Server.metrics, server.go), which the health listener reports.  Each   *)
(* is atomic, and no lock covers one and the state it describes.           *)
(***************************************************************************)
EXTENDS Server

LOCAL FN == INSTANCE Functions

CONSTANT MaxArrivals   \* bound on the requests and ticks that are counted

ASSUME MaxArrivalsIsNat == MaxArrivals \in Nat

\* There are as many connections at once as the system has sockets.
ASSUME ConnIsFinite == IsFiniteSet(Conn)

VARIABLES metrics, arrivals

metricsVars == <<vars, metrics, arrivals>>

\* The number of rules in a version of every file, copies in other files
\* counted as well.
RulesInFiles(versions) ==
  FN!SumFunction([f \in File |-> Cardinality(RulesIn(past[f][versions[f]]))])

NoMetrics == [queriesTotal |-> 0, queriesOK |-> 0, queriesDenied |-> 0, addsTotal |-> 0,
              reloadsTotal |-> 0, reloadsFailed |-> 0, rulesLoaded |-> 0]

MetricsInit ==
  /\ Init
  /\ metrics = [NoMetrics EXCEPT !.rulesLoaded = RulesInFiles(Versions)]
  /\ arrivals = 0

Count(field) == metrics' = [metrics EXCEPT ![field] = @ + 1]

Arrive == /\ arrivals < MaxArrivals
          /\ arrivals' = arrivals + 1

\* Every handler counts its request first, whatever its arguments.
CountedReceive(c, m) ==
  /\ Arrive
  /\ Receive(c, m)
  /\ CASE m.op = "QUERY"  -> Count("queriesTotal")
       [] m.op = "ADD"    -> Count("addsTotal")
       [] m.op = "RELOAD" -> Count("reloadsTotal")
       [] OTHER           -> UNCHANGED metrics

CountedTick(t) ==
  /\ Arrive
  /\ Tick(t)
  /\ UNCHANGED metrics

\* A grant that is counted as a denial as well.
CountedQueryFallsThrough(c) ==
  /\ Query(c)
  /\ metrics' = [metrics EXCEPT !.queriesOK = @ + (IF answer'[c] = "ok" THEN 1 ELSE 0),
                                !.queriesDenied = @ + 1]
  /\ UNCHANGED arrivals

CountedQuery(c) ==
  /\ Query(c)
  /\ Count(IF answer'[c] = "ok" THEN "queriesOK" ELSE "queriesDenied")
  /\ UNCHANGED arrivals

\* handleReload and autoReload count the failures of reloadRules.
CountedFailure(p) ==
  /\ ScanFails(p) \/ LoadFails(p)
  /\ Count("reloadsFailed")
  /\ UNCHANGED arrivals

\* A gauge that only the RELOAD operation sets.
SetGaugeOnRequest(p) ==
  metrics' = [metrics EXCEPT !.rulesLoaded =
                IF p \in Conn THEN RulesInFiles(job[p].seen) ELSE @]

SetGauge(p) == metrics' = [metrics EXCEPT !.rulesLoaded = RulesInFiles(job[p].seen)]

CountedFinish(p) ==
  /\ FinishReload(p)
  /\ SetGauge(p)
  /\ UNCHANGED arrivals

\* The rest; the requests of the HTTP server are not counted here.
Uncounted ==
  \/ \E c \in Conn : Accept(c) \/ Disconnect(c) \/ Add(c)
  \/ \E h \in Http : Query(h) \/ \E q \in Rule : HttpReceive(h, q)
  \/ \E p \in Conn \union Http : RLock(p) \/ Respond(p)
  \/ \E p \in Reloader :
       \/ Announce(p) \/ Lock(p) \/ StartReload(p) \/ Scan(p)
       \/ LoadFile(p) \/ LoadDone(p) \/ Swap(p)
  \/ \E f \in File : Edit(f)
  \/ ToggleDirectory

MetricsNext ==
  \/ \E c \in Conn : CountedQuery(c) \/ \E m \in Requests : CountedReceive(c, m)
  \/ \E t \in Ticker : CountedTick(t)
  \/ \E p \in Reloader : CountedFailure(p) \/ CountedFinish(p)
  \/ Uncounted /\ UNCHANGED <<metrics, arrivals>>

MetricsSpec == MetricsInit /\ [][MetricsNext]_metricsVars

-----------------------------------------------------------------------------
(***************************************************************************)
(* Properties.                                                             *)
(***************************************************************************)
(* While no reload is under way, the gauge is the number of rules that the *)
(* files in use hold, whoever reloaded them last.                          *)
GaugeCountsFiles == reloader = NoProc => metrics.rulesLoaded = RulesInFiles(installed)

(* Every query that was counted as decided, or is being decided, has been  *)
(* counted as received: the shares of grants and denials make sense at     *)
(* every moment.                                                           *)
Deciding == {c \in Conn : request[c].op = "QUERY" /\ InFlight(c)}
DecisionsAreQueries ==
  metrics.queriesOK + metrics.queriesDenied + Cardinality(Deciding) <= metrics.queriesTotal
=============================================================================

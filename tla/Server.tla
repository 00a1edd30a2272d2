------------------------------- MODULE Server -------------------------------
(***************************************************************************)
(* The rule set of a running SPOCP server and everything that touches it:  *)
(* the connection handlers (server.go), the automatic reloads, and the     *)
(* evaluation handlers of the HTTP server that shares the engine           *)
(* (httpserver.go, cmd/spocpd/main.go).                                    *)
(*                                                                         *)
(* Each of them is a goroutine with a program counter:                     *)
(*   closed, recv         no connection; waiting for a request or a tick   *)
(*   rlock, blocked,      a query before RLock, waiting in RLock for a     *)
(*     reading              writer to leave, and holding the read lock     *)
(*   wlock, wwait,        an ADD or a reload before Lock, announced but    *)
(*     writing              waiting for readers, and holding the lock      *)
(*   mutex, scan, load,   the steps of reloadRules before and after it     *)
(*     publish              swaps the engines                              *)
(*   respond              the response is known and not sent               *)
(*                                                                         *)
(* An engine is the set of its rules.  Of the files in the rules directory *)
(* the model keeps all contents they ever had; a reload reads each file at *)
(* one moment.                                                             *)
(***************************************************************************)
EXTENDS Integers, Sequences, FiniteSets

LOCAL FX == INSTANCE FiniteSetsExt

CONSTANTS
  Conn,          \* connections
  Ticker,        \* the autoReload goroutine, if there is one
  Http,          \* requests to the HTTP server
  NumFiles,      \* the .spoc files, in the order of the directory walk
  Rule,          \* rules and queries
  Leq(_, _),     \* compare.LessPermissive
  RuleSets,      \* what a file that parses may hold
  Bad, Absent,   \* contents of a file that does not parse, and of none
  Malformed,     \* an argument that is missing or does not parse
  NoProc,
  MaxEdits       \* bound on the changes to each file

Proc     == Conn \union Ticker \union Http
Reloader == Conn \union Ticker
File     == 1..NumFiles
Contents == RuleSets \union {Bad, Absent}

ASSUME SetsAreDisjoint ==
  /\ Conn \intersect Ticker = {} /\ Conn \intersect Http = {} /\ Ticker \intersect Http = {}
  /\ NoProc \notin Proc
  /\ Malformed \notin Rule
  /\ RuleSets \subseteq SUBSET Rule
  /\ {Bad, Absent} \intersect RuleSets = {} /\ Bad # Absent

ASSUME BoundsAreNat == NumFiles \in Nat /\ MaxEdits \in Nat

VARIABLES
  past,       \* of each file: its contents so far, the last one current
  readable,   \* whether the rules directory can be walked
  engine,     \* the rules of s.engine
  shared,     \* whether the HTTP server still holds that engine
  held,       \* the rules of the engine it holds if not
  writer,     \* s.mu: who has announced itself as writer
  readers,    \* s.mu: who holds the read lock
  reloader,   \* s.reloadMutex: its holder
  pc,
  request,    \* of connections and HTTP requests: what was asked
  answer,     \* and the response
  job,        \* of each reloader: files to load, rules loaded, versions read
  installed,  \* history: the version of each file in s.engine
  added,      \* history: the rules added to s.engine since it was installed
  asked       \* history: the versions of the files when a RELOAD arrived

locks     == <<writer, readers, reloader>>
engines   == <<engine, shared, held>>
files     == <<past, readable>>
histories == <<installed, added, asked>>
vars      == <<files, engines, locks, pc, request, answer, job, histories>>

-----------------------------------------------------------------------------
NoRequest  == [op |-> "none", arg |-> Malformed]
NoVersions == [f \in File |-> 0]
NoJob      == [todo |-> {}, loaded |-> {}, seen |-> NoVersions]

Requests == [op : {"QUERY", "ADD"}, arg : Rule \union {Malformed}]
              \union [op : {"RELOAD", "LOGOUT", "other"}, arg : {Malformed}]

Disk(f)    == past[f][Len(past[f])]
Versions   == [f \in File |-> Len(past[f])]
RulesIn(c) == IF c \in {Bad, Absent} THEN {} ELSE c

\* NewServer has loaded the files, and main has given the HTTP server the
\* engine and its mutex.
Init ==
  /\ past \in [File -> {<<c>> : c \in Contents \ {Bad}}]
  /\ readable = TRUE
  /\ engine = UNION {RulesIn(Disk(f)) : f \in File}
  /\ shared = TRUE
  /\ held = {}
  /\ writer = NoProc /\ readers = {} /\ reloader = NoProc
  /\ pc = [p \in Proc |-> IF p \in Conn THEN "closed" ELSE "recv"]
  /\ request = [p \in Conn \union Http |-> NoRequest]
  /\ answer = [p \in Conn \union Http |-> "none"]
  /\ job = [p \in Reloader |-> NoJob]
  /\ installed = Versions
  /\ added = {}
  /\ asked = [c \in Conn |-> NoVersions]

Goto(p, here, there) == pc[p] = here /\ pc' = [pc EXCEPT ![p] = there]

-----------------------------------------------------------------------------
(***************************************************************************)
(* The rules directory, which other programs write.                        *)
(***************************************************************************)
Edit(f) ==
  /\ Len(past[f]) <= MaxEdits
  /\ \E c \in Contents \ {Disk(f)} : past' = [past EXCEPT ![f] = Append(@, c)]
  /\ UNCHANGED <<readable, engines, locks, pc, request, answer, job, histories>>

ToggleDirectory ==
  /\ readable' = ~readable
  /\ UNCHANGED <<past, engines, locks, pc, request, answer, job, histories>>

-----------------------------------------------------------------------------
(***************************************************************************)
(* Requests arriving and responses leaving.                                *)
(***************************************************************************)
Accept(c) ==
  /\ Goto(c, "closed", "recv")
  /\ UNCHANGED <<files, engines, locks, request, answer, job, histories>>

\* The message cannot be read: end of file, deadline, or protocol error.
Disconnect(c) ==
  /\ Goto(c, "recv", "closed")
  /\ UNCHANGED <<files, engines, locks, request, answer, job, histories>>

\* handleMessage without the checks of the arguments.
ReceiveUnchecked(c, m) ==
  /\ Goto(c, "recv", CASE m.op = "RELOAD" -> "mutex"
                       [] m.op = "QUERY"  -> "rlock"
                       [] m.op = "ADD"    -> "wlock"
                       [] OTHER           -> "respond")
  /\ request' = [request EXCEPT ![c] = m]
  /\ answer' = [answer EXCEPT ![c] = CASE m.op = "LOGOUT" -> "bye"
                                       [] m.op = "other"  -> "unknown"
                                       [] OTHER           -> "none"]
  /\ UNCHANGED <<files, engines, locks, job, histories>>

\* handleMessage, up to the first lock.
Receive(c, m) ==
  LET direct == m.op # "RELOAD" /\ m.arg = Malformed
  IN  /\ Goto(c, "recv", IF direct THEN "respond"
                         ELSE CASE m.op = "RELOAD" -> "mutex"
                                [] m.op = "QUERY"  -> "rlock"
                                [] OTHER           -> "wlock")
      /\ request' = [request EXCEPT ![c] = m]
      /\ answer' = [answer EXCEPT ![c] = IF ~direct THEN "none"
                                         ELSE CASE m.op = "LOGOUT" -> "bye"
                                                [] m.op = "other"  -> "unknown"
                                                [] OTHER           -> "error"]
      /\ asked' = IF m.op = "RELOAD" THEN [asked EXCEPT ![c] = Versions] ELSE asked
      /\ UNCHANGED <<files, engines, locks, job, installed, added>>

\* handleEvaluation, for a request that parses; others touch no rules.
HttpReceive(h, q) ==
  /\ Goto(h, "recv", "rlock")
  /\ request' = [request EXCEPT ![h] = [op |-> "QUERY", arg |-> q]]
  /\ UNCHANGED <<files, engines, locks, answer, job, histories>>

\* The connection ends after a LOGOUT, or if the response cannot be sent.
Respond(p) ==
  /\ \/ Goto(p, "respond", "recv") /\ request[p].op # "LOGOUT"
     \/ Goto(p, "respond", "closed") /\ p \in Conn
  /\ request' = [request EXCEPT ![p] = NoRequest]
  /\ answer' = [answer EXCEPT ![p] = "none"]
  /\ asked' = IF p \in Conn THEN [asked EXCEPT ![p] = NoVersions] ELSE asked
  /\ UNCHANGED <<files, engines, locks, job, installed, added>>

-----------------------------------------------------------------------------
(***************************************************************************)
(* s.mu, a sync.RWMutex.  A writer that has announced itself keeps new     *)
(* readers out; when it unlocks, the readers waiting then go first.        *)
(***************************************************************************)
\* An HTTP server that was given the engine without its mutex.
RLockOwnMutex(p) ==
  /\ IF writer = NoProc \/ p \in Http
       THEN Goto(p, "rlock", "reading") /\ readers' = readers \union {p}
       ELSE Goto(p, "rlock", "blocked") /\ UNCHANGED readers
  /\ UNCHANGED <<files, engines, writer, reloader, request, answer, job, histories>>

RLock(p) ==
  /\ IF writer = NoProc
       THEN Goto(p, "rlock", "reading") /\ readers' = readers \union {p}
       ELSE Goto(p, "rlock", "blocked") /\ UNCHANGED readers
  /\ UNCHANGED <<files, engines, writer, reloader, request, answer, job, histories>>

Announce(p) ==
  /\ writer = NoProc
  /\ Goto(p, "wlock", "wwait")
  /\ writer' = p
  /\ UNCHANGED <<files, engines, readers, reloader, request, answer, job, histories>>

Lock(p) ==
  /\ readers = {}
  /\ Goto(p, "wwait", "writing")
  /\ UNCHANGED <<files, engines, locks, request, answer, job, histories>>

Blocked == {q \in Proc : pc[q] = "blocked"}

\* Unlock by p, which goes on at there.
Unlock(p, there) ==
  /\ writer' = NoProc
  /\ readers' = readers \union Blocked
  /\ pc' = [q \in Proc |-> IF q = p THEN there
                           ELSE IF q \in Blocked THEN "reading" ELSE pc[q]]

-----------------------------------------------------------------------------
(***************************************************************************)
(* What is done under s.mu: a query, by handleQuery or handleEvaluation,   *)
(* and an ADD.                                                             *)
(***************************************************************************)
HttpRules == IF shared THEN engine ELSE held

Query(p) ==
  LET visible == IF p \in Http THEN HttpRules ELSE engine
      granted == \E r \in visible : Leq(request[p].arg, r)
  IN  /\ Goto(p, "reading", "respond")
      /\ answer' = [answer EXCEPT ![p] = IF granted THEN "ok" ELSE "denied"]
      /\ readers' = readers \ {p}
      /\ UNCHANGED <<files, engines, writer, reloader, request, job, histories>>

\* An ADD to the engine the server started with.
AddToFirstEngine(c) ==
  /\ pc[c] = "writing"
  /\ request[c].op = "ADD"
  /\ IF shared
       THEN engine' = engine \union {request[c].arg} /\ UNCHANGED held
       ELSE held' = held \union {request[c].arg} /\ UNCHANGED engine
  /\ added' = added \union {request[c].arg}
  /\ answer' = [answer EXCEPT ![c] = "ok"]
  /\ Unlock(c, "respond")
  /\ UNCHANGED <<files, shared, reloader, request, job, installed, asked>>

Add(c) ==
  /\ pc[c] = "writing"
  /\ request[c].op = "ADD"
  /\ engine' = engine \union {request[c].arg}
  /\ added' = added \union {request[c].arg}
  /\ answer' = [answer EXCEPT ![c] = "ok"]
  /\ Unlock(c, "respond")
  /\ UNCHANGED <<files, shared, held, reloader, request, job, installed, asked>>

-----------------------------------------------------------------------------
(***************************************************************************)
(* reloadRules, by handleReload and autoReload.                            *)
(***************************************************************************)
Tick(t) ==
  /\ Goto(t, "recv", "mutex")
  /\ UNCHANGED <<files, engines, locks, request, answer, job, histories>>

\* Reloads that run side by side.
StartReloadUnserialized(p) ==
  /\ Goto(p, "mutex", "scan")
  /\ reloader' = p
  /\ UNCHANGED <<files, engines, writer, readers, request, answer, job, histories>>

\* A RELOAD that is content with the reload that is under way.
StartReloadUnlessRunning(p) ==
  /\ IF reloader = NoProc
       THEN /\ Goto(p, "mutex", "scan")
            /\ reloader' = p
            /\ UNCHANGED answer
       ELSE /\ Goto(p, "mutex", IF p \in Conn THEN "respond" ELSE "recv")
            /\ answer' = IF p \in Conn THEN [answer EXCEPT ![p] = "ok"] ELSE answer
            /\ UNCHANGED reloader
  /\ UNCHANGED <<files, engines, writer, readers, request, job, histories>>

StartReload(p) ==
  /\ reloader = NoProc
  /\ Goto(p, "mutex", "scan")
  /\ reloader' = p
  /\ UNCHANGED <<files, engines, writer, readers, request, answer, job, histories>>

\* A failing reload that returns without releasing the mutex.
FailReloadHoldingMutex(p) ==
  /\ pc' = [pc EXCEPT ![p] = IF p \in Conn THEN "respond" ELSE "recv"]
  /\ answer' = IF p \in Conn THEN [answer EXCEPT ![p] = "error"] ELSE answer
  /\ job' = [job EXCEPT ![p] = NoJob]
  /\ UNCHANGED reloader

\* reloadRules returns an error: the mutex is released, the new engine dropped.
FailReload(p) ==
  /\ reloader' = NoProc
  /\ pc' = [pc EXCEPT ![p] = IF p \in Conn THEN "respond" ELSE "recv"]
  /\ answer' = IF p \in Conn THEN [answer EXCEPT ![p] = "error"] ELSE answer
  /\ job' = [job EXCEPT ![p] = NoJob]

ScanFails(p) ==
  /\ pc[p] = "scan"
  /\ ~readable
  /\ FailReload(p)
  /\ UNCHANGED <<files, engines, writer, readers, request, histories>>

\* The walk lists the files that exist; the others count as read.
Scan(p) ==
  LET present == {f \in File : Disk(f) # Absent}
  IN  /\ readable
      /\ Goto(p, "scan", "load")
      /\ job' = [job EXCEPT ![p] = [NoJob EXCEPT !.todo = present,
                   !.seen = [f \in File |-> IF f \in present THEN 0 ELSE Len(past[f])]]]
      /\ UNCHANGED <<files, engines, locks, request, answer, histories>>

\* LoadFileToSlice on the next file, whose rules go to the new engine.
LoadFile(p) ==
  /\ pc[p] = "load" /\ job[p].todo # {}
  /\ LET f == FX!Min(job[p].todo)
     IN  /\ Disk(f) \notin {Bad, Absent}
         /\ job' = [job EXCEPT ![p].todo = @ \ {f},
                               ![p].loaded = @ \union Disk(f),
                               ![p].seen[f] = Len(past[f])]
  /\ UNCHANGED <<files, engines, locks, pc, request, answer, histories>>

\* A reload that passes over the files it cannot load.
SkipFile(p) ==
  /\ pc[p] = "load" /\ job[p].todo # {}
  /\ LET f == FX!Min(job[p].todo)
     IN  /\ Disk(f) \in {Bad, Absent}
         /\ job' = [job EXCEPT ![p].todo = @ \ {f}, ![p].seen[f] = Len(past[f])]
  /\ UNCHANGED <<files, engines, locks, pc, request, answer, histories>>

\* The next file does not parse, or has gone since the scan.
LoadFails(p) ==
  /\ pc[p] = "load" /\ job[p].todo # {}
  /\ Disk(FX!Min(job[p].todo)) \in {Bad, Absent}
  /\ FailReload(p)
  /\ UNCHANGED <<files, engines, writer, readers, request, histories>>

LoadDone(p) ==
  /\ job[p].todo = {}
  /\ Goto(p, "load", "wlock")
  /\ UNCHANGED <<files, engines, locks, request, answer, job, histories>>

\* The swap.  The HTTP server keeps the engine that it has.
Swap(p) ==
  /\ pc[p] = "writing"
  /\ p \in Conn => request[p].op = "RELOAD"
  /\ engine' = job[p].loaded
  /\ held' = IF shared THEN engine ELSE held
  /\ shared' = FALSE
  /\ answer' = IF p \in Conn THEN [answer EXCEPT ![p] = "ok"] ELSE answer
  /\ installed' = job[p].seen
  /\ added' = {}
  /\ Unlock(p, "publish")
  /\ UNCHANGED <<files, reloader, request, job, asked>>

\* The metrics are updated, and the return releases the mutex.
FinishReload(p) ==
  /\ Goto(p, "publish", IF p \in Conn THEN "respond" ELSE "recv")
  /\ reloader' = NoProc
  /\ job' = [job EXCEPT ![p] = NoJob]
  /\ UNCHANGED <<files, engines, writer, readers, request, answer, histories>>

-----------------------------------------------------------------------------
Handle(c) ==
  \/ Accept(c) \/ Disconnect(c) \/ Add(c)
  \/ \E m \in Requests : Receive(c, m)

Reload(p) ==
  \/ StartReload(p) \/ ScanFails(p) \/ Scan(p)
  \/ LoadFile(p) \/ LoadFails(p) \/ LoadDone(p)
  \/ Swap(p) \/ FinishReload(p)

Next ==
  \/ \E c \in Conn : Handle(c)
  \/ \E h \in Http, q \in Rule : HttpReceive(h, q)
  \/ \E p \in Conn \union Http : RLock(p) \/ Query(p) \/ Respond(p)
  \/ \E p \in Reloader : Announce(p) \/ Lock(p) \/ Reload(p)
  \/ \E t \in Ticker : Tick(t)
  \/ \E f \in File : Edit(f)
  \/ ToggleDirectory

Spec == Init /\ [][Next]_vars

\* What a goroutine does without waiting for another to release a mutex.
Proceed(p) ==
  \/ p \in Conn \union Http /\ (RLock(p) \/ Query(p))
  \/ p \in Conn /\ Add(p)
  \/ /\ p \in Reloader
     /\ \/ Lock(p) \/ ScanFails(p) \/ Scan(p) \/ LoadFile(p) \/ LoadFails(p)
        \/ LoadDone(p) \/ Swap(p) \/ FinishReload(p)

\* Goroutines are scheduled and tickers tick; a sync.Mutex serves a waiter that
\* has waited for a millisecond before all others.  Nothing obliges clients to
\* send, or to read the responses, or anyone to edit files.
Fairness ==
  /\ \A p \in Proc : WF_vars(Proceed(p))
  /\ \A p \in Reloader : SF_vars(Announce(p)) /\ SF_vars(StartReload(p))
  /\ \A t \in Ticker : WF_vars(Tick(t))

FairSpec == Spec /\ Fairness

-----------------------------------------------------------------------------
(***************************************************************************)
(* Properties.                                                             *)
(***************************************************************************)
Steps == {"closed", "recv", "rlock", "blocked", "reading", "wlock", "wwait", "writing",
          "mutex", "scan", "load", "publish", "respond"}

TypeOK ==
  /\ past \in [File -> Seq(Contents) \ {<<>>}]
  /\ readable \in BOOLEAN
  /\ engine \subseteq Rule /\ shared \in BOOLEAN /\ held \subseteq Rule
  /\ writer \in Reloader \union {NoProc}
  /\ readers \subseteq Conn \union Http
  /\ reloader \in Reloader \union {NoProc}
  /\ pc \in [Proc -> Steps]
  /\ request \in [Conn \union Http -> Requests \union {NoRequest}]
  /\ answer \in [Conn \union Http -> {"none", "ok", "denied", "error", "bye", "unknown"}]
  /\ job \in [Reloader -> [todo : SUBSET File, loaded : SUBSET Rule, seen : [File -> Nat]]]
  /\ installed \in [File -> Nat] /\ added \subseteq Rule /\ asked \in [Conn -> [File -> Nat]]

(* While an engine is swapped or a rule added, no other goroutine reads or *)
(* changes the engine, the handlers of the HTTP server included.           *)
MutualExclusion ==
  \A p, q \in Proc :
    pc[p] = "writing" /\ p # q => pc[q] \notin {"reading", "writing"}

(* The rules in use are those of a complete reading of the directory, with *)
(* one whole version of each file and none that does not parse, and those  *)
(* added since: a reload, failed or not, leaves no partial rule set.       *)
EngineIsWhole ==
  /\ \A f \in File : past[f][installed[f]] # Bad
  /\ engine = added \union UNION {RulesIn(past[f][installed[f]]) : f \in File}

(* No reload, of any number running at once, puts back an older version of *)
(* a file than the one in use.                                             *)
InstalledNeverOlder == [][\A f \in File : installed'[f] >= installed[f]]_vars

(* A client that is told that its RELOAD succeeded has every file as it    *)
(* was when the request arrived, or newer.                                 *)
ReloadIsFresh ==
  \A c \in Conn :
    pc[c] = "respond" /\ request[c].op = "RELOAD" /\ answer[c] = "ok" =>
      \A f \in File : installed[f] >= asked[c][f]

(* Clients see one rule set on which each of their requests acts at once:  *)
(* the server implements RuleStore.                                        *)
Phase(c) == CASE pc[c] \in {"closed", "recv"}     -> "idle"
              [] pc[c] \in {"publish", "respond"} -> "done"
              [] OTHER                            -> "asked"

Store == INSTANCE RuleStore
  WITH Client <- Conn, store <- engine, phase <- [c \in Conn |-> Phase(c)],
       request <- [c \in Conn |-> request[c]], answer <- [c \in Conn |-> answer[c]]

ImplementsRuleStore == Store!Spec

(* Every request is decided, whatever other clients and reloads do, and    *)
(* though some client may never read its response.                         *)
InFlight(p) == pc[p] \notin {"closed", "recv", "respond"}
RequestsAreDecided == \A p \in Conn \union Http : InFlight(p) ~> ~InFlight(p)

(* Once the files all parse and stay as they are, automatic reloads bring  *)
(* them into use and keep them there.                                      *)
EditsTakeEffect ==
  <>[](readable /\ \A f \in File : Disk(f) # Bad) => <>[](installed = Versions)

(* The HTTP server decides on the rules the TCP server decides on.         *)
HttpSharesRules == HttpRules = engine
=============================================================================

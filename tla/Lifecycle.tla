------------------------------ MODULE Lifecycle ------------------------------
(***************************************************************************)
(* How a SPOCP server starts and stops: NewServer, Serve and Close with    *)
(* the goroutines they wait for (server.go), and the daemon around them    *)
(* (cmd/spocpd/main.go).  What a handler does with a request is in Server. *)
(*                                                                         *)
(* A process is the daemon, which ends when Serve returns, or a program    *)
(* that embeds the server and goes on.  main is the goroutine that calls   *)
(* NewServer and Serve:                                                    *)
(*   off, pid, pidwrite,   the steps of NewServer                          *)
(*     rename, load,                                                       *)
(*     listen, health                                                      *)
(*   created, start,       NewServer has returned; the HTTP server exists; *)
(*     serve, accepted       in Accept; between Accept and the new handler *)
(*   returned              Serve has returned                              *)
(*   failed, fatal         NewServer has failed; NewHTTPServer has         *)
(*   exited, dead          the process has ended, by itself or not         *)
(* closer is the goroutine in Close:                                       *)
(*   idle, cancel, listener, wait, waiting, woken, unlink, closed, done    *)
(* and a handler is at check (the top of its loop), read, handle, send or  *)
(* lastsend, after which it returns.                                       *)
(***************************************************************************)
EXTENDS Integers, FiniteSets

CONSTANTS
  Daemon, Embedded,  \* processes, by the PID they have
  WithHealth,        \* those that have a health check listener
  WithTicker,        \* those that reload automatically
  Client,
  Nobody, Empty,     \* no process; what a truncated file holds
  MayOverlap         \* whether a process may start while another runs

Proc == Daemon \union Embedded

ASSUME ProcessesDiffer ==
  /\ Daemon \intersect Embedded = {}
  /\ {Nobody, Empty} \intersect Proc = {} /\ Nobody # Empty

\* main.go gives the daemon's server no health address.
ASSUME DaemonHasNoHealth == WithHealth \subseteq Embedded /\ WithTicker \subseteq Proc

ASSUME ClientIsFinite == IsFiniteSet(Client)

ASSUME MayOverlapIsBoolean == MayOverlap \in BOOLEAN

VARIABLES
  main, closer,
  cancelled,  \* whether the context of the process is done
  wg,         \* its wait group
  port,       \* who listens on the server's address
  health,     \* the goroutine of the health check server: "off", "up" or "down"
  ticker,     \* autoReload: "off", "select", "reload" or "down"
  http,       \* the HTTP server of the daemon: "off", "up" or "down"
  conn,       \* of each client: the process, and where its handler is
  pidFile, tmpFile

processes == <<main, closer, cancelled, wg, health, ticker, http>>
pidFiles  == <<pidFile, tmpFile>>
vars      == <<processes, port, conn, pidFiles>>

-----------------------------------------------------------------------------
NoConn == [srv |-> Nobody, at |-> "none"]

Init ==
  /\ main = [p \in Proc |-> "off"]
  /\ closer = [p \in Proc |-> "idle"]
  /\ cancelled = [p \in Proc |-> FALSE]
  /\ wg = [p \in Proc |-> 0]
  /\ port = Nobody
  /\ health = [p \in Proc |-> "off"]
  /\ ticker = [p \in Proc |-> "off"]
  /\ http = [p \in Proc |-> "off"]
  /\ conn = [c \in Client |-> NoConn]
  /\ pidFile = Nobody /\ tmpFile = Nobody

Over(p) == main[p] \in {"failed", "exited", "dead"} \/ closer[p] = "done"

\* The system takes the sockets of p away.
Release(p) ==
  /\ port' = IF port = p THEN Nobody ELSE port
  /\ conn' = [c \in Client |-> IF conn[c].srv = p THEN NoConn ELSE conn[c]]

\* listener.Close: clients in the queue are turned away.
CloseListener(p) ==
  /\ port' = IF port = p THEN Nobody ELSE port
  /\ conn' = [c \in Client |-> IF conn[c] = [srv |-> p, at |-> "queued"] THEN NoConn ELSE conn[c]]

-----------------------------------------------------------------------------
(***************************************************************************)
(* NewServer.                                                              *)
(***************************************************************************)
MainGoto(p, here, there) == main[p] = here /\ main' = [main EXCEPT ![p] = there]

Start(p) ==
  /\ MayOverlap \/ \A q \in Proc \ {p} : main[q] = "off" \/ Over(q)
  /\ MainGoto(p, "off", "pid")
  /\ UNCHANGED <<closer, cancelled, wg, port, health, ticker, http, conn, pidFiles>>

\* A PID file that is written in place.
TruncatePidFile(p) ==
  /\ MainGoto(p, "pid", "pidwrite")
  /\ tmpFile' = Empty
  /\ pidFile' = Empty
  /\ UNCHANGED <<closer, cancelled, wg, port, health, ticker, http, conn>>

\* os.WriteFile truncates, then writes.
TruncateTmp(p) ==
  /\ MainGoto(p, "pid", "pidwrite")
  /\ tmpFile' = Empty
  /\ UNCHANGED <<closer, cancelled, wg, port, health, ticker, http, conn, pidFile>>

WriteTmp(p) ==
  /\ MainGoto(p, "pidwrite", "rename")
  /\ tmpFile' = p
  /\ UNCHANGED <<closer, cancelled, wg, port, health, ticker, http, conn, pidFile>>

WriteFails(p) ==
  /\ main[p] \in {"pid", "pidwrite"}
  /\ main' = [main EXCEPT ![p] = "failed"]
  /\ cancelled' = [cancelled EXCEPT ![p] = TRUE]
  /\ UNCHANGED <<closer, wg, port, health, ticker, http, conn, pidFiles>>

Rename(p) ==
  /\ tmpFile # Nobody
  /\ MainGoto(p, "rename", "load")
  /\ pidFile' = tmpFile
  /\ tmpFile' = Nobody
  /\ UNCHANGED <<closer, cancelled, wg, port, health, ticker, http, conn>>

RenameFails(p) ==
  /\ MainGoto(p, "rename", "failed")
  /\ cancelled' = [cancelled EXCEPT ![p] = TRUE]
  /\ tmpFile' = Nobody
  /\ UNCHANGED <<closer, wg, port, health, ticker, http, conn, pidFile>>

LoadRules(p) ==
  /\ MainGoto(p, "load", "listen")
  /\ UNCHANGED <<closer, cancelled, wg, port, health, ticker, http, conn, pidFiles>>

Listen(p) ==
  /\ port = Nobody
  /\ MainGoto(p, "listen", "health")
  /\ port' = p
  /\ UNCHANGED <<closer, cancelled, wg, health, ticker, http, conn, pidFiles>>

\* A failure that leaves the PID file where it is.
CreationFailsOnly(p) ==
  /\ \/ MainGoto(p, "load", "failed") /\ UNCHANGED <<port, conn>>
     \/ MainGoto(p, "listen", "failed") /\ UNCHANGED <<port, conn>>
     \/ MainGoto(p, "health", "failed") /\ p \in WithHealth /\ CloseListener(p)
  /\ cancelled' = [cancelled EXCEPT ![p] = TRUE]
  /\ UNCHANGED <<closer, wg, health, ticker, http, pidFiles>>

\* The rules do not load, the address is taken, or that of the health check is.
CreationFails(p) ==
  /\ \/ MainGoto(p, "load", "failed") /\ UNCHANGED <<port, conn>>
     \/ MainGoto(p, "listen", "failed") /\ UNCHANGED <<port, conn>>
     \/ MainGoto(p, "health", "failed") /\ p \in WithHealth /\ CloseListener(p)
  /\ cancelled' = [cancelled EXCEPT ![p] = TRUE]
  /\ pidFile' = Nobody
  /\ UNCHANGED <<closer, wg, health, ticker, http, tmpFile>>

Count(b) == IF b THEN 1 ELSE 0

\* The health check server and the automatic reload are goroutines of the group.
StartGoroutines(p) ==
  /\ MainGoto(p, "health", "created")
  /\ health' = IF p \in WithHealth THEN [health EXCEPT ![p] = "up"] ELSE health
  /\ ticker' = IF p \in WithTicker THEN [ticker EXCEPT ![p] = "select"] ELSE ticker
  /\ wg' = [wg EXCEPT ![p] = Count(p \in WithHealth) + Count(p \in WithTicker)]
  /\ UNCHANGED <<closer, cancelled, port, http, conn, pidFiles>>

-----------------------------------------------------------------------------
(***************************************************************************)
(* main.go, and Serve.                                                     *)
(***************************************************************************)
CreateHttp(d) ==
  /\ MainGoto(d, "created", "start")
  /\ UNCHANGED <<closer, cancelled, wg, port, health, ticker, http, conn, pidFiles>>

\* NewHTTPServer fails: main closes the server itself, then exits.
CreateHttpFails(d) ==
  /\ MainGoto(d, "created", "fatal")
  /\ closer' = [closer EXCEPT ![d] = "cancel"]
  /\ UNCHANGED <<cancelled, wg, port, health, ticker, http, conn, pidFiles>>

\* httpSrv.Start, whose ListenAndServe returns at once after a Shutdown, and
\* fails if the address is taken.
StartHttp(d) ==
  /\ MainGoto(d, "start", "serve")
  /\ \E result \in {"up", "down"} :
       http' = [http EXCEPT ![d] = IF @ = "off" THEN result ELSE @]
  /\ UNCHANGED <<closer, cancelled, wg, port, health, ticker, conn, pidFiles>>

ServeEmbedded(p) ==
  /\ MainGoto(p, "created", "serve")
  /\ UNCHANGED <<closer, cancelled, wg, port, health, ticker, http, conn, pidFiles>>

Connect(c) ==
  /\ port # Nobody
  /\ conn[c] = NoConn
  /\ conn' = [conn EXCEPT ![c] = [srv |-> port, at |-> "queued"]]
  /\ UNCHANGED <<processes, port, pidFiles>>

Accept(p, c) ==
  /\ port = p
  /\ conn[c] = [srv |-> p, at |-> "queued"]
  /\ MainGoto(p, "serve", "accepted")
  /\ conn' = [conn EXCEPT ![c] = [srv |-> p, at |-> "accepted"]]
  /\ UNCHANGED <<closer, cancelled, wg, port, health, ticker, http, pidFiles>>

\* A handler that nobody has counted.
SpawnUncounted(p, c) ==
  /\ conn[c] = [srv |-> p, at |-> "accepted"]
  /\ MainGoto(p, "accepted", "serve")
  /\ conn' = [conn EXCEPT ![c] = [srv |-> p, at |-> "check"]]
  /\ UNCHANGED <<closer, cancelled, wg, port, health, ticker, http, pidFiles>>

\* wg.Add(1), and the handler.
Spawn(p, c) ==
  /\ conn[c] = [srv |-> p, at |-> "accepted"]
  /\ MainGoto(p, "accepted", "serve")
  /\ wg' = [wg EXCEPT ![p] = @ + 1]
  /\ conn' = [conn EXCEPT ![c] = [srv |-> p, at |-> "check"]]
  /\ UNCHANGED <<closer, cancelled, port, health, ticker, http, pidFiles>>

\* Accept returns an error: Serve returns once the context is done.
AcceptFails(p) ==
  /\ port # p
  /\ cancelled[p]
  /\ MainGoto(p, "serve", "returned")
  /\ UNCHANGED <<closer, cancelled, wg, port, health, ticker, http, conn, pidFiles>>

\* main returns, and the process ends with all its goroutines.
Exit(d) ==
  /\ main[d] = "returned" \/ (main[d] = "fatal" /\ closer[d] = "closed")
  /\ main' = [main EXCEPT ![d] = "exited"]
  /\ Release(d)
  /\ UNCHANGED <<closer, cancelled, wg, health, ticker, http, pidFiles>>

\* The process is killed at any moment.
Kill(p) ==
  /\ main[p] # "off" /\ ~Over(p)
  /\ main' = [main EXCEPT ![p] = "dead"]
  /\ Release(p)
  /\ UNCHANGED <<closer, cancelled, wg, health, ticker, http, pidFiles>>

Alive(p) == main[p] \notin {"off", "exited", "dead"}

-----------------------------------------------------------------------------
(***************************************************************************)
(* handleConnection, the automatic reload and the health check.            *)
(***************************************************************************)
\* wg.Done by a goroutine of p: the last one wakes up the one that waits.
Leave(p) ==
  /\ wg' = [wg EXCEPT ![p] = @ - 1]
  /\ closer' = IF wg[p] = 1 /\ closer[p] = "waiting"
                 THEN [closer EXCEPT ![p] = "woken"] ELSE closer

At(c, step) == conn[c].srv # Nobody /\ conn[c].at = step

Proceeds(c, here, there) ==
  /\ At(c, here)
  /\ conn' = [conn EXCEPT ![c] = [srv |-> @.srv, at |-> there]]
  /\ UNCHANGED <<processes, port, pidFiles>>

\* A handler that returns and stays in the group.
ReturnAndStay(c) ==
  /\ conn' = [conn EXCEPT ![c] = NoConn]
  /\ UNCHANGED <<processes, port, pidFiles>>

\* The handler returns: the connection is closed, the group is left.
Return(c) ==
  /\ conn' = [conn EXCEPT ![c] = NoConn]
  /\ Leave(conn[c].srv)
  /\ UNCHANGED <<main, cancelled, health, ticker, http, port, pidFiles>>

\* A loop that does not look at the context.
CheckNothing(c) == Proceeds(c, "check", "read")

CheckContext(c) ==
  /\ At(c, "check")
  /\ IF cancelled[conn[c].srv] THEN Return(c) ELSE Proceeds(c, "check", "read")

Read(c) == Proceeds(c, "read", "handle")

\* The deadline of the read has passed, or the message cannot be read.  An end
\* of file comes wrapped by DecodeMessage, and is treated like any error.
ReadFails(c) == Proceeds(c, "read", "lastsend")

\* After a LOGOUT the response is the last one.
Handle(c) == Proceeds(c, "handle", "send") \/ Proceeds(c, "handle", "lastsend")

\* The client takes the response, or the connection breaks.
Send(c) ==
  \/ Proceeds(c, "send", "check")
  \/ At(c, "send") /\ Return(c)
  \/ At(c, "lastsend") /\ Return(c)

Tick(p) ==
  /\ Alive(p)
  /\ ticker[p] = "select"
  /\ ticker' = [ticker EXCEPT ![p] = "reload"]
  /\ UNCHANGED <<main, closer, cancelled, wg, health, http, port, conn, pidFiles>>

Reloaded(p) ==
  /\ Alive(p)
  /\ ticker[p] = "reload"
  /\ ticker' = [ticker EXCEPT ![p] = "select"]
  /\ UNCHANGED <<main, closer, cancelled, wg, health, http, port, conn, pidFiles>>

StopTicker(p) ==
  /\ Alive(p) /\ cancelled[p]
  /\ ticker[p] = "select"
  /\ ticker' = [ticker EXCEPT ![p] = "down"]
  /\ Leave(p)
  /\ UNCHANGED <<main, cancelled, health, http, port, conn, pidFiles>>

\* Shutdown, or the closing of its listener, ends the health check server.
StopHealth(p) ==
  /\ Alive(p) /\ cancelled[p]
  /\ health[p] = "up"
  /\ health' = [health EXCEPT ![p] = "down"]
  /\ Leave(p)
  /\ UNCHANGED <<main, cancelled, ticker, http, port, conn, pidFiles>>

-----------------------------------------------------------------------------
(***************************************************************************)
(* Close, by the signal handler, the program, or main.                     *)
(***************************************************************************)
CloserGoto(p, here, there) ==
  /\ Alive(p)
  /\ closer[p] = here
  /\ closer' = [closer EXCEPT ![p] = there]

\* A signal reaches the handler, or the program calls Close.
BeginClose(p) ==
  /\ main[p] \in {"start", "serve", "accepted"} \/ (p \in Embedded /\ main[p] = "created")
  /\ CloserGoto(p, "idle", "cancel")
  /\ UNCHANGED <<main, cancelled, wg, port, health, ticker, http, conn, pidFiles>>

Cancel(p) ==
  /\ CloserGoto(p, "cancel", "listener")
  /\ cancelled' = [cancelled EXCEPT ![p] = TRUE]
  /\ UNCHANGED <<main, wg, port, health, ticker, http, conn, pidFiles>>

ListenerClosed(p) ==
  /\ CloserGoto(p, "listener", "wait")
  /\ CloseListener(p)
  /\ UNCHANGED <<main, cancelled, wg, health, ticker, http, pidFiles>>

\* wg.Wait.
Wait(p) ==
  /\ CloserGoto(p, "wait", IF wg[p] = 0 THEN "unlink" ELSE "waiting")
  /\ UNCHANGED <<main, cancelled, wg, port, health, ticker, http, conn, pidFiles>>

\* wg.Wait panics if the group was entered again before it returns.
WakeUp(p) ==
  \/ /\ wg[p] = 0
     /\ CloserGoto(p, "woken", "unlink")
     /\ UNCHANGED <<main, cancelled, wg, port, health, ticker, http, conn, pidFiles>>
  \/ /\ Alive(p) /\ closer[p] = "woken"
     /\ wg[p] # 0
     /\ main' = [main EXCEPT ![p] = "dead"]
     /\ Release(p)
     /\ UNCHANGED <<closer, cancelled, wg, health, ticker, http, pidFiles>>

\* os.Remove may fail, which is logged and not modelled.
RemovePidFile(p) ==
  /\ CloserGoto(p, "unlink", "closed")
  /\ pidFile' = Nobody
  /\ UNCHANGED <<main, cancelled, wg, port, health, ticker, http, conn, tmpFile>>

\* httpSrv.Close by the signal handler; a program is done with Close.
CloseHttp(p) ==
  /\ main[p] # "fatal"
  /\ CloserGoto(p, "closed", "done")
  /\ http' = IF p \in Daemon THEN [http EXCEPT ![p] = "down"] ELSE http
  /\ UNCHANGED <<main, cancelled, wg, port, health, ticker, conn, pidFiles>>

-----------------------------------------------------------------------------
Create(p) ==
  \/ TruncateTmp(p) \/ WriteTmp(p) \/ WriteFails(p) \/ Rename(p) \/ RenameFails(p)
  \/ LoadRules(p) \/ Listen(p) \/ CreationFails(p) \/ StartGoroutines(p)

Main(p) ==
  \/ AcceptFails(p)
  \/ p \in Daemon /\ (CreateHttp(p) \/ CreateHttpFails(p) \/ StartHttp(p) \/ Exit(p))
  \/ \E c \in Client : Spawn(p, c)

Close(p) ==
  \/ Cancel(p) \/ ListenerClosed(p) \/ Wait(p) \/ WakeUp(p)
  \/ RemovePidFile(p) \/ CloseHttp(p)

Next ==
  \/ \E p \in Proc :
       \/ Start(p) \/ Create(p) \/ Main(p) \/ Kill(p)
       \/ BeginClose(p) \/ Close(p)
       \/ Tick(p) \/ Reloaded(p) \/ StopTicker(p) \/ StopHealth(p)
       \/ \E c \in Client : Accept(p, c)
  \/ \E p \in Embedded : ServeEmbedded(p)
  \/ \E c \in Client :
       \/ Connect(c) \/ CheckContext(c) \/ Read(c) \/ ReadFails(c)
       \/ Handle(c) \/ Send(c)

Spec == Init /\ [][Next]_vars

\* Goroutines are scheduled, a read has a deadline, and a select of which two
\* cases are ready takes each of them in the end.  Nothing makes a client take
\* its response: a write has no deadline.
Fairness ==
  /\ \A p \in Proc : /\ WF_vars(Main(p)) /\ WF_vars(Close(p))
                     /\ WF_vars(Reloaded(p)) /\ SF_vars(StopTicker(p))
                     /\ WF_vars(StopHealth(p))
  /\ \A c \in Client : WF_vars(CheckContext(c)) /\ WF_vars(ReadFails(c)) /\ WF_vars(Handle(c))

FairSpec == Spec /\ Fairness

-----------------------------------------------------------------------------
(***************************************************************************)
(* Properties.                                                             *)
(***************************************************************************)
TypeOK ==
  /\ main \in [Proc -> {"off", "pid", "pidwrite", "rename", "load", "listen", "health",
                        "created", "start", "serve", "accepted", "returned",
                        "failed", "fatal", "exited", "dead"}]
  /\ closer \in [Proc -> {"idle", "cancel", "listener", "wait", "waiting", "woken",
                          "unlink", "closed", "done"}]
  /\ cancelled \in [Proc -> BOOLEAN]
  /\ wg \in [Proc -> Nat]
  /\ port \in Proc \union {Nobody}
  /\ health \in [Proc -> {"off", "up", "down"}]
  /\ ticker \in [Proc -> {"off", "select", "reload", "down"}]
  /\ http \in [Proc -> {"off", "up", "down"}]
  /\ conn \in [Client -> [srv : Proc \union {Nobody},
                          at : {"none", "queued", "accepted", "check", "read", "handle",
                                "send", "lastsend"}]]
  /\ pidFile \in Proc \union {Nobody, Empty} /\ tmpFile \in Proc \union {Nobody, Empty}

(* When Close has returned nothing listens, no goroutine it answers for is *)
(* left, and a connection that was accepted too late to be waited for is   *)
(* not served: at most it finds that the context is done.                  *)
ClosedIsClosed ==
  \A p \in Proc :
    closer[p] \in {"unlink", "closed", "done"} /\ Alive(p) =>
      /\ port # p /\ health[p] # "up" /\ ticker[p] \notin {"select", "reload"}
      /\ closer[p] = "done" => http[p] # "up"
      /\ \A c \in Client : conn[c].srv = p => conn[c].at \in {"accepted", "check"}

(* Whoever finds a server by its PID file finds the one that serves, and   *)
(* never half of a number, crashes and restarts included.                  *)
PidFileNamesServer ==
  /\ pidFile # Empty
  /\ \A p \in Proc :
       main[p] \in {"created", "start", "serve", "accepted"} /\ closer[p] = "idle"
         => pidFile = p

(* A NewServer that fails leaves nothing behind: no PID file, no listener, *)
(* no goroutine.                                                           *)
FailedStartLeavesNothing ==
  \A p \in Proc :
    main[p] = "failed" =>
      /\ pidFile # p /\ port # p /\ wg[p] = 0 /\ cancelled[p]
      /\ \A c \in Client : conn[c].srv # p

(* Close returns, unless a client never takes a response that waits for it *)
(* or the process ends.                                                    *)
CloseReturns ==
  \A p \in Proc :
    \/ closer[p] = "cancel" ~> (closer[p] \in {"closed", "done"} \/ ~Alive(p))
    \/ \E c \in Client : <>[](conn[c].srv = p /\ conn[c].at \in {"send", "lastsend"})

(* A daemon that has been told to stop cleans up its PID file before it    *)
(* exits.                                                                  *)
ExitIsClean == \A d \in Daemon : main[d] = "exited" => pidFile # d
=============================================================================

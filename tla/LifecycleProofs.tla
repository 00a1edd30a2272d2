--------------------------- MODULE LifecycleProofs ---------------------------
(***************************************************************************)
(* Starting and stopping, for any number of daemons, embedding programs    *)
(* and clients.                                                            *)
(***************************************************************************)
EXTENDS Lifecycle, FiniteSetTheorems, TLAPS

Creating == {"off", "pid", "pidwrite", "rename", "load", "listen", "health"}
Written  == {"load", "listen", "health", "created", "start", "serve", "accepted"}
Serving  == {"serve", "accepted", "returned"}
Stages   == {"check", "read", "handle", "send", "lastsend"}

\* The goroutines that the wait group of p counts.
Handlers(p) == {c \in Client : conn[c].srv = p /\ conn[c].at \in Stages}

Members(p) ==
  Cardinality(Handlers(p)) + Count(health[p] = "up") + Count(ticker[p] \in {"select", "reload"})

(* The parts of the inductive invariant.  Before NewServer has returned a  *)
(* process has no goroutine but main, and a failure leaves it so.          *)
CreationInv ==
  \A p \in Proc :
    /\ main[p] \in Creating \union {"failed"} =>
         /\ closer[p] = "idle" /\ wg[p] = 0
         /\ health[p] = "off" /\ ticker[p] = "off"
    /\ main[p] = "failed" => cancelled[p]
    /\ main[p] = "created" /\ p \in Daemon => closer[p] = "idle"
    /\ p \in Embedded => http[p] = "off"

(* Only a process that has not begun to wait in Close holds the port.      *)
PortInv ==
  \A p \in Proc :
    port = p =>
      /\ main[p] \in {"health", "created", "start", "serve", "accepted", "fatal"}
      /\ closer[p] \in {"idle", "cancel", "listener"}

ConnInv ==
  \A c \in Client :
    \/ conn[c] = NoConn
    \/ conn[c].at = "queued" /\ conn[c].srv \in Proc /\ port = conn[c].srv
    \/ /\ conn[c].at \in Stages \union {"accepted"}
       /\ conn[c].srv \in Proc /\ main[conn[c].srv] \in Serving

(* The wait group counts what it stands for while the process lives.       *)
GroupInv == \A p \in Proc : main[p] \notin {"exited", "dead"} => wg[p] = Members(p)

CloserInv ==
  \A p \in Proc :
    /\ closer[p] \notin {"idle", "cancel"} => cancelled[p]
    /\ closer[p] = "done" /\ p \in Daemon => http[p] = "down"

IInv ==
  TypeOK /\ CreationInv /\ PortInv /\ ConnInv /\ GroupInv /\ CloserInv /\ ClosedIsClosed

-----------------------------------------------------------------------------
LEMMA TypeInit == Init => TypeOK
BY DEF Init, TypeOK, NoConn

LEMMA MembersIsNat ==
  \A p \in Proc : IsFiniteSet(Handlers(p)) /\ Cardinality(Handlers(p)) \in Nat
<1> SUFFICES ASSUME NEW p \in Proc
             PROVE  IsFiniteSet(Handlers(p)) /\ Cardinality(Handlers(p)) \in Nat
  OBVIOUS
<1>1. Handlers(p) \in SUBSET Client
  BY DEF Handlers
<1>2. QED
  BY <1>1, ClientIsFinite, FS_Subset, FS_CardinalityType

(* Who leaves the group is in it.                                          *)
LEMMA LeavingGroup ==
  ASSUME TypeOK, GroupInv, NEW p \in Proc, main[p] \notin {"exited", "dead"},
         \/ health[p] = "up"
         \/ ticker[p] \in {"select", "reload"}
         \/ \E c \in Client : c \in Handlers(p)
  PROVE  wg[p] - 1 \in Nat
<1>1. Cardinality(Handlers(p)) \in Nat /\ wg[p] = Members(p) /\ wg[p] \in Nat
  BY MembersIsNat DEF GroupInv, TypeOK
<1>2. ASSUME NEW c \in Client, c \in Handlers(p) PROVE Cardinality(Handlers(p)) # 0
  BY <1>2, MembersIsNat, FS_EmptySet
<1>3. QED
  BY <1>1, <1>2 DEF Members, Count

LEMMA HandlerIsAlive ==
  ASSUME TypeOK, ConnInv, NEW c \in Client, NEW s \in Stages, At(c, s)
  PROVE  /\ conn[c].srv \in Proc /\ main[conn[c].srv] \in Serving
         /\ c \in Handlers(conn[c].srv)
BY DEF TypeOK, ConnInv, At, NoConn, Stages, Handlers

(* A handler goes on, or returns.                                          *)
LEMMA HandlerStep ==
  ASSUME NEW c \in Client,
         CheckContext(c) \/ Read(c) \/ ReadFails(c) \/ Handle(c) \/ Send(c)
  PROVE  \E s \in Stages :
           \/ At(c, s) /\ Return(c)
           \/ \E t \in Stages : Proceeds(c, s, t) /\ (s = "check" => ~cancelled[conn[c].srv])
BY DEF CheckContext, Read, ReadFails, Handle, Send, Stages, Proceeds

-----------------------------------------------------------------------------
LEMMA TypeStep == IInv /\ [Next]_vars => TypeOK'
<1> SUFFICES ASSUME IInv, [Next]_vars PROVE TypeOK'
  OBVIOUS
<1> USE ProcessesDiffer DEF IInv, TypeOK, processes, pidFiles, MainGoto
<1>1. ASSUME NEW p \in Proc,
             Start(p) \/ TruncateTmp(p) \/ WriteTmp(p) \/ WriteFails(p)
      PROVE  TypeOK'
  BY <1>1 DEF Start, TruncateTmp, WriteTmp, WriteFails
<1>2. ASSUME NEW p \in Proc, Rename(p) \/ RenameFails(p) \/ LoadRules(p) \/ Listen(p)
      PROVE  TypeOK'
  BY <1>2 DEF Rename, RenameFails, LoadRules, Listen
<1>3. ASSUME NEW p \in Proc, CreationFails(p) PROVE TypeOK'
  BY <1>3 DEF CreationFails, CloseListener, NoConn
<1>4. ASSUME NEW p \in Proc, StartGoroutines(p) PROVE TypeOK'
  BY <1>4 DEF StartGoroutines, Count
<1>5. ASSUME NEW p \in Proc, AcceptFails(p) \/ CreateHttp(p) \/ CreateHttpFails(p) \/ StartHttp(p)
      PROVE  TypeOK'
  <2>1. CASE AcceptFails(p) \/ CreateHttp(p) \/ CreateHttpFails(p)
    BY <2>1 DEF AcceptFails, CreateHttp, CreateHttpFails
  <2>2. CASE StartHttp(p)
    <3>1. PICK result \in {"up", "down"} :
            http' = [http EXCEPT ![p] = IF @ = "off" THEN result ELSE @]
      BY <2>2 DEF StartHttp
    <3>2. http' \in [Proc -> {"off", "up", "down"}]
      BY <3>1
    <3>3. QED
      BY <2>2, <3>2 DEF StartHttp
  <2>3. QED
    BY <1>5, <2>1, <2>2
<1>6. ASSUME NEW p \in Proc, Exit(p) \/ Kill(p) PROVE TypeOK'
  BY <1>6 DEF Exit, Kill, Release, NoConn
<1>7. ASSUME NEW p \in Proc, NEW c \in Client, Accept(p, c) \/ Spawn(p, c) PROVE TypeOK'
  <2>1. CASE Accept(p, c)
    BY <2>1 DEF Accept
  <2>2. CASE Spawn(p, c)
    BY <2>2 DEF Spawn
  <2>3. QED
    BY <1>7, <2>1, <2>2
<1>8. ASSUME NEW p \in Proc, BeginClose(p) \/ Cancel(p) \/ Wait(p) PROVE TypeOK'
  BY <1>8 DEF BeginClose, Cancel, Wait, CloserGoto
<1>9. ASSUME NEW p \in Proc, ListenerClosed(p) PROVE TypeOK'
  BY <1>9 DEF ListenerClosed, CloserGoto, CloseListener, NoConn
<1>10. ASSUME NEW p \in Proc, WakeUp(p) PROVE TypeOK'
  BY <1>10 DEF WakeUp, CloserGoto, Release, NoConn
<1>11. ASSUME NEW p \in Proc, RemovePidFile(p) \/ CloseHttp(p) PROVE TypeOK'
  BY <1>11 DEF RemovePidFile, CloseHttp, CloserGoto
<1>12. ASSUME NEW p \in Proc, Tick(p) \/ Reloaded(p) PROVE TypeOK'
  BY <1>12 DEF Tick, Reloaded
<1>13. ASSUME NEW p \in Proc, StopTicker(p) \/ StopHealth(p) PROVE TypeOK'
  <2>1. wg[p] - 1 \in Nat
    BY <1>13, LeavingGroup DEF StopTicker, StopHealth, Alive
  <2>2. QED
    BY <1>13, <2>1 DEF StopTicker, StopHealth, Leave
<1>14. ASSUME NEW p \in Embedded, ServeEmbedded(p) PROVE TypeOK'
  BY <1>14 DEF ServeEmbedded, Proc
<1>15. ASSUME NEW c \in Client, Connect(c) PROVE TypeOK'
  BY <1>15 DEF Connect
<1>16. ASSUME NEW c \in Client, NEW s \in Stages, At(c, s), Return(c) PROVE TypeOK'
  <2>1. conn[c].srv \in Proc /\ wg[conn[c].srv] - 1 \in Nat
    BY <1>16, HandlerIsAlive, LeavingGroup DEF Serving
  <2>2. QED
    BY <1>16, <2>1 DEF Return, Leave, NoConn
<1>17. ASSUME NEW c \in Client, NEW s \in Stages, NEW t \in Stages, Proceeds(c, s, t)
       PROVE  TypeOK'
  BY <1>17 DEF Proceeds, Stages
<1>18. ASSUME NEW c \in Client, CheckContext(c) \/ Read(c) \/ ReadFails(c) \/ Handle(c) \/ Send(c)
       PROVE  TypeOK'
  BY <1>16, <1>17, <1>18, HandlerStep
<1>19. CASE UNCHANGED vars
  BY <1>19 DEF vars
<1>20. QED
  BY <1>1, <1>2, <1>3, <1>4, <1>5, <1>6, <1>7, <1>8, <1>9, <1>10, <1>11, <1>12, <1>13, <1>14,
     <1>15, <1>18, <1>19 DEF Next, Create, Main, Close

-----------------------------------------------------------------------------
LEMMA CreationStep == IInv /\ [Next]_vars => CreationInv'
<1> SUFFICES ASSUME IInv, [Next]_vars PROVE CreationInv'
  OBVIOUS
<1> USE ProcessesDiffer DEF IInv, CreationInv, Creating, TypeOK, processes, pidFiles, MainGoto
<1>1. ASSUME NEW p \in Proc,
             Start(p) \/ TruncateTmp(p) \/ WriteTmp(p) \/ WriteFails(p)
      PROVE  CreationInv'
  BY <1>1 DEF Start, TruncateTmp, WriteTmp, WriteFails
<1>2. ASSUME NEW p \in Proc, Rename(p) \/ RenameFails(p) \/ LoadRules(p) \/ Listen(p)
      PROVE  CreationInv'
  BY <1>2 DEF Rename, RenameFails, LoadRules, Listen
<1>3. ASSUME NEW p \in Proc, CreationFails(p) PROVE CreationInv'
  BY <1>3 DEF CreationFails
<1>4. ASSUME NEW p \in Proc, StartGoroutines(p) PROVE CreationInv'
  BY <1>4 DEF StartGoroutines
<1>5. ASSUME NEW p \in Proc, AcceptFails(p) \/ (p \in Daemon /\ CreateHttp(p)) PROVE CreationInv'
  BY <1>5 DEF AcceptFails, CreateHttp
<1>6. ASSUME NEW p \in Daemon, CreateHttpFails(p) \/ StartHttp(p) PROVE CreationInv'
  BY <1>6 DEF CreateHttpFails, StartHttp, Proc
<1>7. ASSUME NEW p \in Proc, Exit(p) \/ Kill(p) PROVE CreationInv'
  BY <1>7 DEF Exit, Kill
<1>8. ASSUME NEW p \in Proc, NEW c \in Client, Spawn(p, c) \/ Accept(p, c) PROVE CreationInv'
  BY <1>8 DEF Spawn, Accept
<1>9. ASSUME NEW p \in Proc, BeginClose(p) PROVE CreationInv'
  BY <1>9 DEF BeginClose, CloserGoto
<1>10. ASSUME NEW p \in Proc, Cancel(p) \/ Wait(p) \/ ListenerClosed(p) PROVE CreationInv'
  BY <1>10 DEF Cancel, Wait, ListenerClosed, CloserGoto
<1>11. ASSUME NEW p \in Proc, WakeUp(p) PROVE CreationInv'
  BY <1>11 DEF WakeUp, CloserGoto
<1>12. ASSUME NEW p \in Proc, RemovePidFile(p) \/ CloseHttp(p) PROVE CreationInv'
  BY <1>12 DEF RemovePidFile, CloseHttp, CloserGoto
<1>13. ASSUME NEW p \in Proc, Tick(p) \/ Reloaded(p) PROVE CreationInv'
  BY <1>13 DEF Tick, Reloaded
<1>14. ASSUME NEW p \in Proc, StopTicker(p) \/ StopHealth(p) PROVE CreationInv'
  BY <1>14 DEF StopTicker, StopHealth, Leave
<1>15. ASSUME NEW p \in Embedded, ServeEmbedded(p) PROVE CreationInv'
  BY <1>15 DEF ServeEmbedded, Proc
<1>16. ASSUME NEW c \in Client, Connect(c) PROVE CreationInv'
  BY <1>16 DEF Connect
<1>17. ASSUME NEW c \in Client, NEW s \in Stages, At(c, s), Return(c) PROVE CreationInv'
  <2>1. conn[c].srv \in Proc /\ main[conn[c].srv] \in Serving
    BY <1>17, HandlerIsAlive
  <2>2. QED
    BY <1>17, <2>1 DEF Return, Leave, Serving
<1>18. ASSUME NEW c \in Client, CheckContext(c) \/ Read(c) \/ ReadFails(c) \/ Handle(c) \/ Send(c)
       PROVE  CreationInv'
  BY <1>17, <1>18, HandlerStep DEF Proceeds
<1>19. CASE UNCHANGED vars
  BY <1>19 DEF vars
<1>20. QED
  BY <1>1, <1>2, <1>3, <1>4, <1>5, <1>6, <1>7, <1>8, <1>9, <1>10, <1>11, <1>12, <1>13, <1>14,
     <1>15, <1>16, <1>18, <1>19 DEF Next, Create, Main, Close

-----------------------------------------------------------------------------
LEMMA PortStep == IInv /\ [Next]_vars => PortInv'
<1> SUFFICES ASSUME IInv, [Next]_vars PROVE PortInv'
  OBVIOUS
<1> USE ProcessesDiffer DEF IInv, PortInv, TypeOK, processes, pidFiles, MainGoto
<1>1. ASSUME NEW p \in Proc,
             Start(p) \/ TruncateTmp(p) \/ WriteTmp(p) \/ WriteFails(p)
      PROVE  PortInv'
  BY <1>1 DEF Start, TruncateTmp, WriteTmp, WriteFails
<1>2. ASSUME NEW p \in Proc, Rename(p) \/ RenameFails(p) \/ LoadRules(p) \/ Listen(p)
      PROVE  PortInv'
  BY <1>2 DEF Rename, RenameFails, LoadRules, Listen, CreationInv, Creating
<1>3. ASSUME NEW p \in Proc, CreationFails(p) PROVE PortInv'
  BY <1>3 DEF CreationFails, CloseListener
<1>4. ASSUME NEW p \in Proc, StartGoroutines(p) PROVE PortInv'
  BY <1>4 DEF StartGoroutines
<1>5. ASSUME NEW p \in Proc, AcceptFails(p) \/ CreateHttp(p) \/ CreateHttpFails(p) \/ StartHttp(p)
      PROVE  PortInv'
  BY <1>5 DEF AcceptFails, CreateHttp, CreateHttpFails, StartHttp
<1>6. ASSUME NEW p \in Proc, Exit(p) \/ Kill(p) PROVE PortInv'
  BY <1>6 DEF Exit, Kill, Release
<1>7. ASSUME NEW p \in Proc, NEW c \in Client, Spawn(p, c) \/ Accept(p, c) PROVE PortInv'
  BY <1>7 DEF Spawn, Accept
<1>8. ASSUME NEW p \in Proc, BeginClose(p) \/ Cancel(p) \/ Wait(p) PROVE PortInv'
  BY <1>8 DEF BeginClose, Cancel, Wait, CloserGoto
<1>9. ASSUME NEW p \in Proc, ListenerClosed(p) PROVE PortInv'
  BY <1>9 DEF ListenerClosed, CloserGoto, CloseListener
<1>10. ASSUME NEW p \in Proc, WakeUp(p) PROVE PortInv'
  BY <1>10 DEF WakeUp, CloserGoto, Release
<1>11. ASSUME NEW p \in Proc, RemovePidFile(p) \/ CloseHttp(p) PROVE PortInv'
  BY <1>11 DEF RemovePidFile, CloseHttp, CloserGoto
<1>12. ASSUME NEW p \in Proc, Tick(p) \/ Reloaded(p) PROVE PortInv'
  BY <1>12 DEF Tick, Reloaded
<1>13. ASSUME NEW p \in Proc, StopTicker(p) \/ StopHealth(p) PROVE PortInv'
  BY <1>13 DEF StopTicker, StopHealth, Leave
<1>14. ASSUME NEW p \in Embedded, ServeEmbedded(p) PROVE PortInv'
  BY <1>14 DEF ServeEmbedded, Proc
<1>15. ASSUME NEW c \in Client, Connect(c) PROVE PortInv'
  BY <1>15 DEF Connect
<1>16. ASSUME NEW c \in Client, Return(c) PROVE PortInv'
  BY <1>16 DEF Return, Leave
<1>17. ASSUME NEW c \in Client, CheckContext(c) \/ Read(c) \/ ReadFails(c) \/ Handle(c) \/ Send(c)
       PROVE  PortInv'
  BY <1>16, <1>17, HandlerStep DEF Proceeds
<1>18. CASE UNCHANGED vars
  BY <1>18 DEF vars
<1>19. QED
  BY <1>1, <1>2, <1>3, <1>4, <1>5, <1>6, <1>7, <1>8, <1>9, <1>10, <1>11, <1>12, <1>13, <1>14,
     <1>15, <1>17, <1>18 DEF Next, Create, Main, Close

-----------------------------------------------------------------------------
LEMMA ConnStep == IInv /\ [Next]_vars => ConnInv'
<1> SUFFICES ASSUME IInv, [Next]_vars PROVE ConnInv'
  OBVIOUS
<1> USE ProcessesDiffer
    DEF IInv, ConnInv, NoConn, Stages, Serving, TypeOK, processes, pidFiles, MainGoto
<1>1. ASSUME NEW p \in Proc,
             Start(p) \/ TruncateTmp(p) \/ WriteTmp(p) \/ WriteFails(p)
      PROVE  ConnInv'
  BY <1>1 DEF Start, TruncateTmp, WriteTmp, WriteFails
<1>2. ASSUME NEW p \in Proc, Rename(p) \/ RenameFails(p) \/ LoadRules(p) \/ Listen(p)
      PROVE  ConnInv'
  BY <1>2 DEF Rename, RenameFails, LoadRules, Listen
<1>3. ASSUME NEW p \in Proc, CreationFails(p) PROVE ConnInv'
  BY <1>3 DEF CreationFails, CloseListener
<1>4. ASSUME NEW p \in Proc, StartGoroutines(p) PROVE ConnInv'
  BY <1>4 DEF StartGoroutines
<1>5. ASSUME NEW p \in Proc, AcceptFails(p) \/ CreateHttp(p) \/ CreateHttpFails(p) \/ StartHttp(p)
      PROVE  ConnInv'
  BY <1>5 DEF AcceptFails, CreateHttp, CreateHttpFails, StartHttp
<1>6. ASSUME NEW p \in Proc, Exit(p) \/ Kill(p) PROVE ConnInv'
  BY <1>6 DEF Exit, Kill, Release
<1>7. ASSUME NEW p \in Proc, NEW c \in Client, Spawn(p, c) \/ Accept(p, c) PROVE ConnInv'
  BY <1>7 DEF Spawn, Accept
<1>8. ASSUME NEW p \in Proc, BeginClose(p) \/ Cancel(p) \/ Wait(p) PROVE ConnInv'
  BY <1>8 DEF BeginClose, Cancel, Wait, CloserGoto
<1>9. ASSUME NEW p \in Proc, ListenerClosed(p) PROVE ConnInv'
  BY <1>9 DEF ListenerClosed, CloserGoto, CloseListener
<1>10. ASSUME NEW p \in Proc, WakeUp(p) PROVE ConnInv'
  BY <1>10 DEF WakeUp, CloserGoto, Release
<1>11. ASSUME NEW p \in Proc, RemovePidFile(p) \/ CloseHttp(p) PROVE ConnInv'
  BY <1>11 DEF RemovePidFile, CloseHttp, CloserGoto
<1>12. ASSUME NEW p \in Proc, Tick(p) \/ Reloaded(p) PROVE ConnInv'
  BY <1>12 DEF Tick, Reloaded
<1>13. ASSUME NEW p \in Proc, StopTicker(p) \/ StopHealth(p) PROVE ConnInv'
  BY <1>13 DEF StopTicker, StopHealth, Leave
<1>14. ASSUME NEW p \in Embedded, ServeEmbedded(p) PROVE ConnInv'
  BY <1>14 DEF ServeEmbedded, Proc
<1>15. ASSUME NEW c \in Client, Connect(c) PROVE ConnInv'
  BY <1>15 DEF Connect
<1>16. ASSUME NEW c \in Client, Return(c) PROVE ConnInv'
  BY <1>16 DEF Return, Leave
<1>17. ASSUME NEW c \in Client, NEW s \in Stages, NEW t \in Stages, Proceeds(c, s, t)
       PROVE  ConnInv'
  BY <1>17, HandlerIsAlive DEF Proceeds
<1>18. ASSUME NEW c \in Client, CheckContext(c) \/ Read(c) \/ ReadFails(c) \/ Handle(c) \/ Send(c)
       PROVE  ConnInv'
  <2>1. Return(c) \/ \E s, t \in Stages : Proceeds(c, s, t)
    BY <1>18, HandlerStep
  <2>2. QED
    BY <1>16, <1>17, <2>1
<1>19. CASE UNCHANGED vars
  BY <1>19 DEF vars
<1>20. QED
  BY <1>1, <1>2, <1>3, <1>4, <1>5, <1>6, <1>7, <1>8, <1>9, <1>10, <1>11, <1>12, <1>13, <1>14,
     <1>15, <1>18, <1>19 DEF Next, Create, Main, Close

-----------------------------------------------------------------------------
(* Steps after which every group counts the goroutines it counted before.  *)
LEMMA SameGroups ==
  ASSUME GroupInv,
         \A p \in Proc : main'[p] \notin {"exited", "dead"} =>
           /\ main[p] \notin {"exited", "dead"}
           /\ wg'[p] = wg[p] /\ health'[p] = health[p]
           /\ ticker'[p] \in {"select", "reload"} <=> ticker[p] \in {"select", "reload"}
           /\ Handlers(p)' = Handlers(p)
  PROVE  GroupInv'
BY DEF GroupInv, Members, Count

LEMMA SameConnSameHandlers == UNCHANGED conn => \A p \in Proc : Handlers(p)' = Handlers(p)
BY DEF Handlers

(* Clients that are turned away from the queue have no handler.            *)
LEMMA QueueHasNoHandlers ==
  ASSUME TypeOK, NEW p \in Proc, CloseListener(p)
  PROVE  \A q \in Proc : Handlers(q)' = Handlers(q)
BY ProcessesDiffer DEF Handlers, CloseListener, NoConn, Stages, TypeOK

LEMMA ReleaseTakesOwnHandlers ==
  ASSUME TypeOK, NEW p \in Proc, Release(p)
  PROVE  \A q \in Proc \ {p} : Handlers(q)' = Handlers(q)
BY ProcessesDiffer DEF Handlers, Release, NoConn, Stages, TypeOK

LEMMA HandlerJoins ==
  ASSUME TypeOK, GroupInv, NEW p \in Proc, NEW c \in Client, Spawn(p, c)
  PROVE  GroupInv'
<1>1. /\ conn[c] = [srv |-> p, at |-> "accepted"]
      /\ conn' = [conn EXCEPT ![c] = [srv |-> p, at |-> "check"]]
      /\ wg' = [wg EXCEPT ![p] = @ + 1] /\ health' = health /\ ticker' = ticker
  BY DEF Spawn
<1>2. c \notin Handlers(p) /\ Handlers(p)' = Handlers(p) \union {c}
  BY <1>1 DEF Handlers, Stages, TypeOK
<1>3. \A q \in Proc \ {p} : Handlers(q)' = Handlers(q)
  BY <1>1 DEF Handlers, Stages, TypeOK
<1>4. \A q \in Proc : main'[q] \notin {"exited", "dead"} => main[q] \notin {"exited", "dead"}
  BY DEF Spawn, MainGoto, TypeOK
<1>5. /\ Cardinality(Handlers(p)') = Cardinality(Handlers(p)) + 1
      /\ Cardinality(Handlers(p)) \in Nat
  BY <1>2, MembersIsNat, FS_AddElement
<1>6. \A q \in Proc \ {p} : main'[q] \notin {"exited", "dead"} => wg'[q] = Members(q)'
  BY <1>1, <1>3, <1>4 DEF GroupInv, Members, TypeOK
<1>7. main'[p] \notin {"exited", "dead"} => wg'[p] = Members(p)'
  BY <1>1, <1>4, <1>5 DEF GroupInv, Members, Count, TypeOK
<1>8. QED
  BY <1>6, <1>7 DEF GroupInv

LEMMA HandlerLeaves ==
  ASSUME TypeOK, ConnInv, GroupInv, NEW c \in Client, NEW s \in Stages, At(c, s), Return(c)
  PROVE  GroupInv'
<1>1. PICK p \in Proc : p = conn[c].srv /\ c \in Handlers(p)
  BY HandlerIsAlive
<1>2. /\ conn' = [conn EXCEPT ![c] = NoConn] /\ wg' = [wg EXCEPT ![p] = @ - 1]
      /\ main' = main /\ health' = health /\ ticker' = ticker
  BY <1>1 DEF Return, Leave
<1>3. Handlers(p)' = Handlers(p) \ {c}
  BY <1>1, <1>2 DEF Handlers, Stages, TypeOK, NoConn
<1>4. \A q \in Proc \ {p} : Handlers(q)' = Handlers(q)
  BY <1>1, <1>2 DEF Handlers, Stages, TypeOK, NoConn
<1>5. /\ Cardinality(Handlers(p)') = Cardinality(Handlers(p)) - 1
      /\ Cardinality(Handlers(p)) \in Nat
  BY <1>1, <1>3, MembersIsNat, FS_RemoveElement
<1>6. \A q \in Proc \ {p} : main'[q] \notin {"exited", "dead"} => wg'[q] = Members(q)'
  BY <1>1, <1>2, <1>4 DEF GroupInv, Members, TypeOK
<1>7. main'[p] \notin {"exited", "dead"} => wg'[p] = Members(p)'
  BY <1>1, <1>2, <1>5 DEF GroupInv, Members, Count, TypeOK
<1>8. QED
  BY <1>6, <1>7 DEF GroupInv

LEMMA GroupStep == IInv /\ [Next]_vars => GroupInv'
<1> SUFFICES ASSUME IInv, [Next]_vars PROVE GroupInv'
  OBVIOUS
<1> USE ProcessesDiffer, SameGroups, SameConnSameHandlers
    DEF IInv, TypeOK, processes, pidFiles, MainGoto
<1>1. ASSUME NEW p \in Proc,
             Start(p) \/ TruncateTmp(p) \/ WriteTmp(p) \/ WriteFails(p)
      PROVE  GroupInv'
  BY <1>1 DEF Start, TruncateTmp, WriteTmp, WriteFails
<1>2. ASSUME NEW p \in Proc, Rename(p) \/ RenameFails(p) \/ LoadRules(p) \/ Listen(p)
      PROVE  GroupInv'
  BY <1>2 DEF Rename, RenameFails, LoadRules, Listen
<1>3. ASSUME NEW p \in Proc, CreationFails(p) PROVE GroupInv'
  BY <1>3, QueueHasNoHandlers DEF CreationFails
<1>4. ASSUME NEW p \in Proc, StartGoroutines(p) PROVE GroupInv'
  <2>1. /\ main[p] = "health" /\ main'[p] = "created" /\ conn' = conn
        /\ health[p] = "off" /\ ticker[p] = "off" /\ wg[p] = 0
    BY <1>4 DEF StartGoroutines, CreationInv, Creating
  <2>2. Cardinality(Handlers(p)) = 0
    BY <2>1, MembersIsNat DEF GroupInv, Members, Count
  <2>3. /\ health'[p] = IF p \in WithHealth THEN "up" ELSE "off"
        /\ ticker'[p] = IF p \in WithTicker THEN "select" ELSE "off"
        /\ wg'[p] = Count(p \in WithHealth) + Count(p \in WithTicker)
    BY <1>4, <2>1 DEF StartGoroutines
  <2>4. wg'[p] = Members(p)'
    BY <2>1, <2>2, <2>3 DEF Members, Count
  <2>5. \A q \in Proc \ {p} :
          /\ main'[q] = main[q] /\ wg'[q] = wg[q]
          /\ health'[q] = health[q] /\ ticker'[q] = ticker[q] /\ Handlers(q)' = Handlers(q)
    BY <1>4, <2>1 DEF StartGoroutines
  <2>6. \A q \in Proc \ {p} : main'[q] \notin {"exited", "dead"} => wg'[q] = Members(q)'
    BY <2>5 DEF GroupInv, Members
  <2>7. QED
    BY <2>4, <2>6 DEF GroupInv
<1>5. ASSUME NEW p \in Proc, AcceptFails(p) \/ CreateHttp(p) \/ CreateHttpFails(p) \/ StartHttp(p)
      PROVE  GroupInv'
  BY <1>5 DEF AcceptFails, CreateHttp, CreateHttpFails, StartHttp
<1>6. ASSUME NEW p \in Proc, Exit(p) \/ Kill(p) PROVE GroupInv'
  BY <1>6, ReleaseTakesOwnHandlers DEF Exit, Kill
<1>7. ASSUME NEW p \in Proc, NEW c \in Client, Spawn(p, c) PROVE GroupInv'
  BY <1>7, HandlerJoins
<1>8. ASSUME NEW p \in Proc, NEW c \in Client, Accept(p, c) PROVE GroupInv'
  <2>1. \A q \in Proc : Handlers(q)' = Handlers(q)
    BY <1>8 DEF Accept, Handlers, Stages
  <2>2. QED
    BY <1>8, <2>1 DEF Accept
<1>9. ASSUME NEW p \in Proc, BeginClose(p) \/ Cancel(p) \/ Wait(p) PROVE GroupInv'
  BY <1>9 DEF BeginClose, Cancel, Wait, CloserGoto
<1>10. ASSUME NEW p \in Proc, ListenerClosed(p) PROVE GroupInv'
  BY <1>10, QueueHasNoHandlers DEF ListenerClosed, CloserGoto
<1>11. ASSUME NEW p \in Proc, WakeUp(p) PROVE GroupInv'
  BY <1>11, ReleaseTakesOwnHandlers DEF WakeUp, CloserGoto
<1>12. ASSUME NEW p \in Proc, RemovePidFile(p) \/ CloseHttp(p) PROVE GroupInv'
  BY <1>12 DEF RemovePidFile, CloseHttp, CloserGoto
<1>13. ASSUME NEW p \in Proc, Tick(p) \/ Reloaded(p) PROVE GroupInv'
  BY <1>13 DEF Tick, Reloaded
<1>14. ASSUME NEW p \in Proc, StopTicker(p) \/ StopHealth(p) PROVE GroupInv'
  <2>1. /\ wg' = [wg EXCEPT ![p] = @ - 1] /\ conn' = conn /\ main' = main
        /\ \/ /\ health' = health
              /\ ticker[p] = "select" /\ ticker' = [ticker EXCEPT ![p] = "down"]
           \/ /\ ticker' = ticker
              /\ health[p] = "up" /\ health' = [health EXCEPT ![p] = "down"]
    BY <1>14 DEF StopTicker, StopHealth, Leave
  <2>2. \A q \in Proc : Cardinality(Handlers(q)) \in Nat /\ Handlers(q)' = Handlers(q)
    BY <2>1, MembersIsNat
  <2>3. main'[p] \notin {"exited", "dead"} => wg'[p] = Members(p)'
    BY <2>1, <2>2 DEF GroupInv, Members, Count
  <2>4. \A q \in Proc \ {p} : main'[q] \notin {"exited", "dead"} => wg'[q] = Members(q)'
    BY <2>1, <2>2 DEF GroupInv, Members
  <2>5. QED
    BY <2>3, <2>4 DEF GroupInv
<1>15. ASSUME NEW p \in Embedded, ServeEmbedded(p) PROVE GroupInv'
  BY <1>15 DEF ServeEmbedded, Proc
<1>16. ASSUME NEW c \in Client, Connect(c) PROVE GroupInv'
  <2>1. \A q \in Proc : Handlers(q)' = Handlers(q)
    BY <1>16 DEF Connect, Handlers, Stages, NoConn
  <2>2. QED
    BY <1>16, <2>1 DEF Connect
<1>17. ASSUME NEW c \in Client, NEW s \in Stages, At(c, s), Return(c) PROVE GroupInv'
  BY <1>17, HandlerLeaves
<1>18. ASSUME NEW c \in Client, NEW s \in Stages, NEW t \in Stages, Proceeds(c, s, t)
       PROVE  GroupInv'
  <2>1. \A q \in Proc : Handlers(q)' = Handlers(q)
    BY <1>18 DEF Proceeds, At, Handlers
  <2>2. QED
    BY <1>18, <2>1 DEF Proceeds
<1>19. ASSUME NEW c \in Client, CheckContext(c) \/ Read(c) \/ ReadFails(c) \/ Handle(c) \/ Send(c)
       PROVE  GroupInv'
  BY <1>17, <1>18, <1>19, HandlerStep
<1>20. CASE UNCHANGED vars
  BY <1>20 DEF vars
<1>21. QED
  BY <1>1, <1>2, <1>3, <1>4, <1>5, <1>6, <1>7, <1>8, <1>9, <1>10, <1>11, <1>12, <1>13, <1>14,
     <1>15, <1>16, <1>19, <1>20 DEF Next, Create, Main, Close

-----------------------------------------------------------------------------
LEMMA CloserStep == IInv /\ [Next]_vars => CloserInv'
<1> SUFFICES ASSUME IInv, [Next]_vars PROVE CloserInv'
  OBVIOUS
<1> USE ProcessesDiffer DEF IInv, CloserInv, TypeOK, processes, pidFiles, MainGoto
<1>1. ASSUME NEW p \in Proc,
             Start(p) \/ TruncateTmp(p) \/ WriteTmp(p) \/ WriteFails(p)
      PROVE  CloserInv'
  BY <1>1 DEF Start, TruncateTmp, WriteTmp, WriteFails
<1>2. ASSUME NEW p \in Proc, Rename(p) \/ RenameFails(p) \/ LoadRules(p) \/ Listen(p)
      PROVE  CloserInv'
  BY <1>2 DEF Rename, RenameFails, LoadRules, Listen
<1>3. ASSUME NEW p \in Proc, CreationFails(p) \/ StartGoroutines(p) PROVE CloserInv'
  BY <1>3 DEF CreationFails, StartGoroutines
<1>4. ASSUME NEW p \in Proc, AcceptFails(p) \/ CreateHttp(p) \/ CreateHttpFails(p)
      PROVE  CloserInv'
  BY <1>4 DEF AcceptFails, CreateHttp, CreateHttpFails
<1>5. ASSUME NEW p \in Proc, Exit(p) \/ Kill(p) PROVE CloserInv'
  BY <1>5 DEF Exit, Kill
<1>6. ASSUME NEW p \in Proc, NEW c \in Client, Spawn(p, c) \/ Accept(p, c) PROVE CloserInv'
  BY <1>6 DEF Spawn, Accept
<1>7. ASSUME NEW p \in Proc, BeginClose(p) \/ Cancel(p) \/ Wait(p) \/ ListenerClosed(p)
      PROVE  CloserInv'
  BY <1>7 DEF BeginClose, Cancel, Wait, ListenerClosed, CloserGoto
<1>8. ASSUME NEW p \in Proc, WakeUp(p) \/ RemovePidFile(p) \/ CloseHttp(p) PROVE CloserInv'
  BY <1>8 DEF WakeUp, RemovePidFile, CloseHttp, CloserGoto
<1>9. ASSUME NEW p \in Proc, Tick(p) \/ Reloaded(p) PROVE CloserInv'
  BY <1>9 DEF Tick, Reloaded
<1>10. ASSUME NEW p \in Proc, StopTicker(p) \/ StopHealth(p) PROVE CloserInv'
  BY <1>10 DEF StopTicker, StopHealth, Leave
<1>11. ASSUME NEW p \in Embedded, ServeEmbedded(p) PROVE CloserInv'
  BY <1>11 DEF ServeEmbedded
<1>12. ASSUME NEW c \in Client, Connect(c) PROVE CloserInv'
  BY <1>12 DEF Connect
<1>13. ASSUME NEW c \in Client, Return(c) PROVE CloserInv'
  BY <1>13 DEF Return, Leave
<1>14. ASSUME NEW c \in Client, CheckContext(c) \/ Read(c) \/ ReadFails(c) \/ Handle(c) \/ Send(c)
       PROVE  CloserInv'
  BY <1>13, <1>14, HandlerStep DEF Proceeds
<1>15. ASSUME NEW p \in Proc, StartHttp(p) PROVE CloserInv'
  BY <1>15 DEF StartHttp
<1>16. CASE UNCHANGED vars
  BY <1>16 DEF vars
<1>17. QED
  BY <1>1, <1>2, <1>3, <1>4, <1>5, <1>6, <1>7, <1>8, <1>9, <1>10, <1>11, <1>12, <1>14, <1>15, <1>16
     DEF Next, Create, Main, Close

-----------------------------------------------------------------------------
(* Close goes on to remove the PID file when the group is empty: then no   *)
(* handler is left, and whoever has been accepted will find the context    *)
(* done.                                                                   *)
LEMMA EmptyGroupIsClosed ==
  ASSUME IInv, NEW p \in Proc, Alive(p), closer[p] \in {"wait", "woken"}, wg[p] = 0
  PROVE  /\ port # p /\ health[p] # "up" /\ ticker[p] \notin {"select", "reload"}
         /\ \A c \in Client : conn[c].srv = p => conn[c].at = "accepted"
<1>1. port # p
  BY DEF IInv, PortInv
<1>2. Members(p) = 0
  BY DEF IInv, GroupInv, Alive
<1>3. Cardinality(Handlers(p)) = 0 /\ health[p] # "up" /\ ticker[p] \notin {"select", "reload"}
  BY <1>2, MembersIsNat DEF Members, Count
<1>4. Handlers(p) = {}
  BY <1>3, MembersIsNat, FS_EmptySet
<1>5. ASSUME NEW c \in Client, conn[c].srv = p PROVE conn[c].at = "accepted"
  BY <1>1, <1>4, <1>5, ProcessesDiffer DEF IInv, ConnInv, NoConn, Handlers
<1>6. QED
  BY <1>1, <1>3, <1>5

LEMMA ClosedStep == IInv /\ [Next]_vars => ClosedIsClosed'
<1> SUFFICES ASSUME IInv, [Next]_vars PROVE ClosedIsClosed'
  OBVIOUS
<1> USE ProcessesDiffer
    DEF IInv, ClosedIsClosed, Alive, NoConn, TypeOK, processes, pidFiles, MainGoto
<1>1. ASSUME NEW p \in Proc,
             Start(p) \/ TruncateTmp(p) \/ WriteTmp(p) \/ WriteFails(p)
      PROVE  ClosedIsClosed'
  BY <1>1 DEF Start, TruncateTmp, WriteTmp, WriteFails, CreationInv, Creating
<1>2. ASSUME NEW p \in Proc, Rename(p) \/ RenameFails(p) \/ LoadRules(p) \/ Listen(p)
      PROVE  ClosedIsClosed'
  BY <1>2 DEF Rename, RenameFails, LoadRules, Listen, CreationInv, Creating
<1>3. ASSUME NEW p \in Proc, CreationFails(p) PROVE ClosedIsClosed'
  BY <1>3 DEF CreationFails, CloseListener, CreationInv, Creating
<1>4. ASSUME NEW p \in Proc, StartGoroutines(p) PROVE ClosedIsClosed'
  BY <1>4 DEF StartGoroutines, CreationInv, Creating
<1>5. ASSUME NEW p \in Proc, AcceptFails(p) \/ CreateHttp(p) \/ CreateHttpFails(p)
      PROVE  ClosedIsClosed'
  BY <1>5 DEF AcceptFails, CreateHttp, CreateHttpFails
<1>6. ASSUME NEW p \in Daemon, StartHttp(p) PROVE ClosedIsClosed'
  BY <1>6 DEF StartHttp, CloserInv, Proc
<1>7. ASSUME NEW p \in Proc, Exit(p) \/ Kill(p) PROVE ClosedIsClosed'
  BY <1>7 DEF Exit, Kill, Release
<1>8. ASSUME NEW p \in Proc, NEW c \in Client, Spawn(p, c) \/ Accept(p, c)
      PROVE  ClosedIsClosed'
  BY <1>8 DEF Spawn, Accept
<1>9. ASSUME NEW p \in Proc, BeginClose(p) \/ Cancel(p) PROVE ClosedIsClosed'
  BY <1>9 DEF BeginClose, Cancel, CloserGoto
<1>10. ASSUME NEW p \in Proc, Wait(p) PROVE ClosedIsClosed'
  BY <1>10, EmptyGroupIsClosed DEF Wait, CloserGoto
<1>11. ASSUME NEW p \in Proc, ListenerClosed(p) PROVE ClosedIsClosed'
  BY <1>11 DEF ListenerClosed, CloserGoto, CloseListener
<1>12. ASSUME NEW p \in Proc, WakeUp(p) PROVE ClosedIsClosed'
  BY <1>12, EmptyGroupIsClosed DEF WakeUp, CloserGoto, Release
<1>13. ASSUME NEW p \in Proc, RemovePidFile(p) PROVE ClosedIsClosed'
  BY <1>13 DEF RemovePidFile, CloserGoto
<1>14. ASSUME NEW p \in Proc, CloseHttp(p) PROVE ClosedIsClosed'
  BY <1>14 DEF CloseHttp, CloserGoto, CreationInv, Proc
<1>15. ASSUME NEW p \in Proc, Tick(p) \/ Reloaded(p) PROVE ClosedIsClosed'
  BY <1>15 DEF Tick, Reloaded
<1>16. ASSUME NEW p \in Proc, StopTicker(p) \/ StopHealth(p) PROVE ClosedIsClosed'
  BY <1>16 DEF StopTicker, StopHealth, Leave
<1>17. ASSUME NEW p \in Embedded, ServeEmbedded(p) PROVE ClosedIsClosed'
  BY <1>17 DEF ServeEmbedded, Proc
<1>18. ASSUME NEW c \in Client, Connect(c) PROVE ClosedIsClosed'
  BY <1>18 DEF Connect
<1>19. ASSUME NEW c \in Client, Return(c) PROVE ClosedIsClosed'
  BY <1>19 DEF Return, Leave
<1>20. ASSUME NEW c \in Client, NEW s \in Stages, NEW t \in Stages, Proceeds(c, s, t),
              s = "check" => ~cancelled[conn[c].srv]
       PROVE  ClosedIsClosed'
  <2>1. conn[c].srv \in Proc /\ conn[c].at = s /\ main[conn[c].srv] \in Serving
    BY <1>20, HandlerIsAlive DEF Proceeds, At
  <2>2. closer[conn[c].srv] \notin {"unlink", "closed", "done"}
    BY <1>20, <2>1 DEF CloserInv, Stages, Serving
  <2>3. QED
    BY <1>20, <2>1, <2>2 DEF Proceeds
<1>21. ASSUME NEW c \in Client, CheckContext(c) \/ Read(c) \/ ReadFails(c) \/ Handle(c) \/ Send(c)
       PROVE  ClosedIsClosed'
  BY <1>19, <1>20, <1>21, HandlerStep
<1>22. CASE UNCHANGED vars
  BY <1>22 DEF vars
<1>23. QED
  BY <1>1, <1>2, <1>3, <1>4, <1>5, <1>6, <1>7, <1>8, <1>9, <1>10, <1>11, <1>12, <1>13, <1>14,
     <1>15, <1>16, <1>17, <1>18, <1>21, <1>22 DEF Next, Create, Main, Close

-----------------------------------------------------------------------------
LEMMA InvInit == Init => IInv
<1> SUFFICES ASSUME Init PROVE IInv
  OBVIOUS
<1>1. TypeOK
  BY TypeInit
<1>2. CreationInv /\ PortInv /\ ConnInv /\ CloserInv /\ ClosedIsClosed
  BY ProcessesDiffer
     DEF Init, CreationInv, PortInv, ConnInv, CloserInv, ClosedIsClosed, Creating, NoConn
<1>3. \A p \in Proc : Handlers(p) = {}
  BY DEF Init, Handlers, NoConn, Stages
<1>4. GroupInv
  BY <1>3, FS_EmptySet DEF Init, GroupInv, Members, Count
<1>5. QED
  BY <1>1, <1>2, <1>4 DEF IInv

LEMMA LifecycleInvariant == Spec => []IInv
<1>1. IInv /\ [Next]_vars => IInv'
  BY TypeStep, CreationStep, PortStep, ConnStep, GroupStep, CloserStep, ClosedStep DEF IInv
<1>2. QED
  BY <1>1, InvInit, PTL DEF Spec

(* The variables keep their types; of the wait groups this says that no    *)
(* goroutine leaves a group it is not in, whoever comes and goes while     *)
(* Close waits (server.go:222-224, 229-248 and 252): Done never panics.                     *)
THEOREM TypeCorrect == Spec => []TypeOK
<1>1. IInv => TypeOK
  BY DEF IInv
<1>2. QED
  BY <1>1, LifecycleInvariant, PTL

(* When Close has returned nothing listens, no counted goroutine is left,  *)
(* and a connection accepted too late is not served, for any number of     *)
(* clients and any overlap of processes (server.go:229-248).               *)
THEOREM CloseIsComplete == Spec => []ClosedIsClosed
<1>1. IInv => ClosedIsClosed
  BY DEF IInv
<1>2. QED
  BY <1>1, LifecycleInvariant, PTL

-----------------------------------------------------------------------------
(***************************************************************************)
(* The PID file, when a process starts only after the others have ended or *)
(* closed.                                                                 *)
(***************************************************************************)
AtWork(p) == main[p] # "off" /\ ~Over(p)

OneAtWork == \A p, q \in Proc : AtWork(p) /\ AtWork(q) => p = q

(* What is written beside the PID file is renamed by who wrote it, nobody  *)
(* else removes the file of a process that is at work, and a PID that has  *)
(* not been written yet, or is of a server that failed, is not in it.      *)
PidInv ==
  /\ pidFile # Empty
  /\ \A p \in Proc :
       /\ main[p] = "rename" => tmpFile = p
       /\ main[p] \in Written /\ closer[p] = "idle" => pidFile = p
       /\ main[p] \in {"off", "pid", "pidwrite", "rename", "failed"} => pidFile # p

LEMMA OneAtWorkStep == ~MayOverlap /\ IInv /\ OneAtWork /\ [Next]_vars => OneAtWork'
<1> SUFFICES ASSUME ~MayOverlap, IInv, OneAtWork, [Next]_vars PROVE OneAtWork'
  OBVIOUS
<1> USE ProcessesDiffer
    DEF IInv, OneAtWork, AtWork, Over, TypeOK, processes, pidFiles, MainGoto
<1>1. ASSUME NEW p \in Proc, Start(p) PROVE OneAtWork'
  BY <1>1 DEF Start
<1>2. ASSUME NEW p \in Proc,
             \/ TruncateTmp(p) \/ WriteTmp(p) \/ WriteFails(p)
             \/ Rename(p) \/ RenameFails(p) \/ LoadRules(p) \/ Listen(p)
      PROVE  OneAtWork'
  BY <1>2 DEF TruncateTmp, WriteTmp, WriteFails, Rename, RenameFails, LoadRules, Listen
<1>3. ASSUME NEW p \in Proc, CreationFails(p) \/ StartGoroutines(p) PROVE OneAtWork'
  BY <1>3 DEF CreationFails, StartGoroutines
<1>4. ASSUME NEW p \in Proc, AcceptFails(p) \/ StartHttp(p) PROVE OneAtWork'
  BY <1>4 DEF AcceptFails, StartHttp
<1>5. ASSUME NEW p \in Daemon, CreateHttp(p) \/ CreateHttpFails(p) PROVE OneAtWork'
  BY <1>5 DEF CreateHttp, CreateHttpFails, CreationInv, Proc
<1>6. ASSUME NEW p \in Proc, Exit(p) \/ Kill(p) PROVE OneAtWork'
  BY <1>6 DEF Exit, Kill
<1>7. ASSUME NEW p \in Proc, NEW c \in Client, Spawn(p, c) \/ Accept(p, c) PROVE OneAtWork'
  BY <1>7 DEF Spawn, Accept
<1>8. ASSUME NEW p \in Proc, BeginClose(p) \/ Cancel(p) \/ Wait(p) \/ ListenerClosed(p)
      PROVE  OneAtWork'
  BY <1>8 DEF BeginClose, Cancel, Wait, ListenerClosed, CloserGoto
<1>9. ASSUME NEW p \in Proc, WakeUp(p) \/ RemovePidFile(p) \/ CloseHttp(p) PROVE OneAtWork'
  BY <1>9 DEF WakeUp, RemovePidFile, CloseHttp, CloserGoto
<1>10. ASSUME NEW p \in Proc, Tick(p) \/ Reloaded(p) PROVE OneAtWork'
  BY <1>10 DEF Tick, Reloaded
<1>11. ASSUME NEW p \in Proc, StopTicker(p) \/ StopHealth(p) PROVE OneAtWork'
  BY <1>11 DEF StopTicker, StopHealth, Leave
<1>12. ASSUME NEW p \in Embedded, ServeEmbedded(p) PROVE OneAtWork'
  BY <1>12 DEF ServeEmbedded, Proc
<1>13. ASSUME NEW c \in Client, Connect(c) PROVE OneAtWork'
  BY <1>13 DEF Connect
<1>14. ASSUME NEW c \in Client, Return(c) PROVE OneAtWork'
  BY <1>14 DEF Return, Leave
<1>15. ASSUME NEW c \in Client, CheckContext(c) \/ Read(c) \/ ReadFails(c) \/ Handle(c) \/ Send(c)
       PROVE  OneAtWork'
  BY <1>14, <1>15, HandlerStep DEF Proceeds
<1>16. CASE UNCHANGED vars
  BY <1>16 DEF vars
<1>17. QED
  BY <1>1, <1>2, <1>3, <1>4, <1>5, <1>6, <1>7, <1>8, <1>9, <1>10, <1>11, <1>12, <1>13, <1>15,
     <1>16 DEF Next, Create, Main, Close

LEMMA PidStep == IInv /\ OneAtWork /\ PidInv /\ [Next]_vars => PidInv'
<1> SUFFICES ASSUME IInv, OneAtWork, PidInv, [Next]_vars PROVE PidInv'
  OBVIOUS
<1> USE ProcessesDiffer
    DEF IInv, PidInv, Written, TypeOK, processes, pidFiles, MainGoto
<1>1. ASSUME NEW p \in Proc, Start(p) \/ WriteFails(p) \/ RenameFails(p) PROVE PidInv'
  BY <1>1 DEF Start, WriteFails, RenameFails, OneAtWork, AtWork, Over, CreationInv, Creating
<1>2. ASSUME NEW p \in Proc, TruncateTmp(p) \/ WriteTmp(p) PROVE PidInv'
  BY <1>2 DEF TruncateTmp, WriteTmp, OneAtWork, AtWork, Over, CreationInv, Creating
<1>3. ASSUME NEW p \in Proc, Rename(p) PROVE PidInv'
  BY <1>3 DEF Rename, OneAtWork, AtWork, Over, CreationInv, Creating
<1>4. ASSUME NEW p \in Proc, LoadRules(p) \/ Listen(p) \/ StartGoroutines(p) PROVE PidInv'
  BY <1>4 DEF LoadRules, Listen, StartGoroutines
<1>5. ASSUME NEW p \in Proc, CreationFails(p) PROVE PidInv'
  BY <1>5 DEF CreationFails, OneAtWork, AtWork, Over, CreationInv, Creating
<1>6. ASSUME NEW p \in Proc, AcceptFails(p) \/ CreateHttp(p) \/ CreateHttpFails(p) \/ StartHttp(p)
      PROVE  PidInv'
  BY <1>6 DEF AcceptFails, CreateHttp, CreateHttpFails, StartHttp
<1>7. ASSUME NEW p \in Proc, Exit(p) \/ Kill(p) PROVE PidInv'
  BY <1>7 DEF Exit, Kill
<1>8. ASSUME NEW p \in Proc, NEW c \in Client, Spawn(p, c) \/ Accept(p, c) PROVE PidInv'
  BY <1>8 DEF Spawn, Accept
<1>9. ASSUME NEW p \in Proc, BeginClose(p) \/ Cancel(p) \/ Wait(p) \/ ListenerClosed(p)
      PROVE  PidInv'
  BY <1>9 DEF BeginClose, Cancel, Wait, ListenerClosed, CloserGoto
<1>10. ASSUME NEW p \in Proc, WakeUp(p) \/ CloseHttp(p) PROVE PidInv'
  BY <1>10 DEF WakeUp, CloseHttp, CloserGoto
<1>11. ASSUME NEW p \in Proc, RemovePidFile(p) PROVE PidInv'
  <2>1. closer[p] = "unlink" /\ main[p] \notin Creating \union {"failed", "exited", "dead"}
    BY <1>11 DEF RemovePidFile, CloserGoto, Alive, CreationInv
  <2>2. \A q \in Proc : main[q] \in Written /\ closer[q] = "idle" => FALSE
    BY <2>1 DEF OneAtWork, AtWork, Over, Creating
  <2>3. QED
    BY <1>11, <2>1, <2>2 DEF RemovePidFile, CloserGoto
<1>12. ASSUME NEW p \in Proc, Tick(p) \/ Reloaded(p) PROVE PidInv'
  BY <1>12 DEF Tick, Reloaded
<1>13. ASSUME NEW p \in Proc, StopTicker(p) \/ StopHealth(p) PROVE PidInv'
  BY <1>13 DEF StopTicker, StopHealth, Leave
<1>14. ASSUME NEW p \in Embedded, ServeEmbedded(p) PROVE PidInv'
  BY <1>14 DEF ServeEmbedded, Proc
<1>15. ASSUME NEW c \in Client, Connect(c) PROVE PidInv'
  BY <1>15 DEF Connect
<1>16. ASSUME NEW c \in Client, Return(c) PROVE PidInv'
  BY <1>16 DEF Return, Leave
<1>17. ASSUME NEW c \in Client, CheckContext(c) \/ Read(c) \/ ReadFails(c) \/ Handle(c) \/ Send(c)
       PROVE  PidInv'
  BY <1>16, <1>17, HandlerStep DEF Proceeds
<1>18. CASE UNCHANGED vars
  BY <1>18 DEF vars
<1>19. QED
  BY <1>1, <1>2, <1>3, <1>4, <1>5, <1>6, <1>7, <1>8, <1>9, <1>10, <1>11, <1>12, <1>13, <1>14,
     <1>15, <1>17, <1>18 DEF Next, Create, Main, Close

LEMMA PidInit == Init => OneAtWork /\ PidInv
BY ProcessesDiffer DEF Init, OneAtWork, AtWork, PidInv, Written

LEMMA PidInvariant == ~MayOverlap => (Spec => [](IInv /\ PidInv))
<1> SUFFICES ASSUME ~MayOverlap PROVE Spec => [](IInv /\ PidInv)
  OBVIOUS
<1>1. IInv /\ OneAtWork /\ [Next]_vars => OneAtWork'
  BY OneAtWorkStep
<1>2. QED
  BY <1>1, PidInit, PidStep, LifecycleInvariant, PTL DEF Spec

(* Whoever finds a server by its PID file finds the one that serves, and   *)
(* never half of a number, whatever crashes and failures came before, if   *)
(* each process starts after the last one is over (server.go:513-548).     *)
THEOREM PidFileIsRight == ~MayOverlap => (Spec => []PidFileNamesServer)
<1> SUFFICES ASSUME ~MayOverlap PROVE Spec => []PidFileNamesServer
  OBVIOUS
<1>1. PidInv => PidFileNamesServer
  BY DEF PidInv, PidFileNamesServer, Written
<1>2. QED
  BY <1>1, PidInvariant, PTL

(* A NewServer that fails leaves nothing behind (server.go:100-204).       *)
THEOREM FailedStartIsClean == ~MayOverlap => (Spec => []FailedStartLeavesNothing)
<1> SUFFICES ASSUME ~MayOverlap PROVE Spec => []FailedStartLeavesNothing
  OBVIOUS
<1>1. IInv /\ PidInv => FailedStartLeavesNothing
  BY ProcessesDiffer
     DEF IInv, PidInv, CreationInv, PortInv, ConnInv, FailedStartLeavesNothing, NoConn, Serving
<1>2. QED
  BY <1>1, PidInvariant, PTL
=============================================================================

---------------------------- MODULE ServerProofs ----------------------------
(***************************************************************************)
(* The server's locks keep readers and writers of the engine apart, and    *)
(* its reloads install whole and ever newer readings of the files; and it  *)
(* implements RuleStore: for any number of connections, HTTP requests and  *)
(* files, any rules, and any number of edits.  The server with counters is *)
(* such a server, and its counters and its gauge are right.                *)
(***************************************************************************)
EXTENDS ServerMetrics, FiniteSetTheorems, WellFoundedInduction, TLAPS

LOCAL FX == INSTANCE FiniteSetsExt

-----------------------------------------------------------------------------
(***************************************************************************)
(* The next file of a reload is one of those it has to load.               *)
(***************************************************************************)
NatLess == {ss \in Nat \X Nat : ss[1] < ss[2]}

LEMMA NatLessIsWellFounded == IsWellFoundedOn(NatLess, Nat)
BY NatLessThanWellFounded DEF OpToRel, NatLess

LEMMA MinIsMember ==
  ASSUME NEW S \in SUBSET Nat, S # {}
  PROVE  FX!Min(S) \in S
<1>1. PICK n \in S : \A m \in S : <<m, n>> \notin NatLess
  BY NatLessIsWellFounded, WFMin
<1>2. ASSUME NEW m \in S PROVE n <= m
  <2>1. m \in Nat /\ n \in Nat
    OBVIOUS
  <2>2. ~(m < n)
    <3>1. SUFFICES ASSUME m < n PROVE FALSE
      OBVIOUS
    <3>2. <<m, n>> \in Nat \X Nat /\ <<m, n>>[1] = m /\ <<m, n>>[2] = n
      BY <2>1
    <3>3. <<m, n>> \in NatLess
      BY <3>1, <3>2 DEF NatLess
    <3>4. QED
      BY <1>1, <3>3
  <2>3. QED
    BY <2>1, <2>2
<1>3. QED
  BY <1>2 DEF FX!Min

-----------------------------------------------------------------------------
(***************************************************************************)
(* Types.  What a goroutine is doing fits what it is and was asked.        *)
(***************************************************************************)
ReloadSteps == {"mutex", "scan", "load", "publish"}
WriteSteps  == {"wlock", "wwait", "writing"}
ReadSteps   == {"rlock", "blocked", "reading"}

StepsFitRequests ==
  /\ \A t \in Ticker : pc[t] \in {"recv"} \union WriteSteps \union ReloadSteps
  /\ \A h \in Http : pc[h] \in {"recv", "respond"} \union ReadSteps
  /\ \A c \in Conn :
       /\ pc[c] \in ReadSteps => request[c].op = "QUERY"
       /\ pc[c] \in WriteSteps => \/ request[c].op = "RELOAD"
                                  \/ request[c].op = "ADD" /\ request[c].arg \in Rule
       /\ pc[c] \in ReloadSteps => request[c].op = "RELOAD"

TypeInv == TypeOK /\ StepsFitRequests

LEMMA ContentsAreRules ==
  ASSUME NEW c \in Contents \ {Bad, Absent}
  PROVE  c \subseteq Rule
BY SetsAreDisjoint DEF Contents

LEMMA DiskIsContents ==
  ASSUME TypeOK, NEW f \in File
  PROVE  Disk(f) \in Contents /\ Len(past[f]) \in Nat \ {0}
<1>1. past[f] \in Seq(Contents) \ {<<>>}
  BY DEF TypeOK
<1>2. Len(past[f]) \in Nat \ {0}
  BY <1>1
<1>3. QED
  BY <1>1, <1>2 DEF Disk

LEMMA NextFileIsFile ==
  ASSUME TypeOK, NEW p \in Reloader, job[p].todo # {}
  PROVE  FX!Min(job[p].todo) \in job[p].todo /\ FX!Min(job[p].todo) \in File
<1>1. job[p].todo \in SUBSET File /\ File \subseteq Nat
  BY BoundsAreNat DEF TypeOK, File
<1>2. QED
  BY <1>1, MinIsMember

Job == [todo : SUBSET File, loaded : SUBSET Rule, seen : [File -> Nat]]

LEMMA InitTyped == Init => TypeInv
<1> SUFFICES ASSUME Init PROVE TypeInv
  OBVIOUS
<1>1. ASSUME NEW f \in File PROVE past[f] \in Seq(Contents) \ {<<>>} /\ Disk(f) \in Contents
  <2>1. PICK c \in Contents : past[f] = <<c>>
    BY DEF Init
  <2>2. Len(<<c>>) = 1 /\ <<c>>[1] = c /\ <<c>> \in Seq(Contents) /\ <<c>> # <<>>
    OBVIOUS
  <2>3. QED
    BY <2>1, <2>2 DEF Disk
<1>2. ASSUME NEW f \in File PROVE RulesIn(Disk(f)) \subseteq Rule
  <2>1. Disk(f) \in Contents
    BY <1>1
  <2>2. QED
    BY <2>1, ContentsAreRules DEF RulesIn
<1>3. engine \subseteq Rule
  BY <1>2 DEF Init
<1>4. job \in [Reloader -> Job]
  BY DEF Init, NoJob, NoVersions, Job
<1>5. installed \in [File -> Nat]
  <2>1. \A f \in File : Len(past[f]) \in Nat
    BY <1>1
  <2>2. QED
    BY <2>1 DEF Init, Versions
<1>6. past \in [File -> Seq(Contents) \ {<<>>}]
  BY <1>1 DEF Init
<1>7. TypeOK
  BY <1>3, <1>4, <1>5, <1>6 DEF Init, TypeOK, Job, Proc, Reloader, Steps, NoVersions
<1>8. StepsFitRequests
  BY SetsAreDisjoint DEF Init, StepsFitRequests, Proc, Reloader, ReadSteps, WriteSteps,
     ReloadSteps
<1>9. QED
  BY <1>7, <1>8 DEF TypeInv

LEMMA AppendIsNotEmpty ==
  ASSUME NEW S, NEW s \in Seq(S), NEW x \in S
  PROVE  Append(s, x) \in Seq(S) /\ Append(s, x) # <<>>
<1>1. Append(s, x) \in Seq(S) /\ Len(Append(s, x)) = Len(s) + 1 /\ Len(s) \in Nat
  OBVIOUS
<1>2. QED
  BY <1>1

LEMMA LoadedJobType ==
  ASSUME job \in [Reloader -> Job], NEW p \in Reloader, NEW f \in File,
         NEW rules \in SUBSET Rule, NEW n \in Nat,
         job' = [job EXCEPT ![p].todo = @ \ {f}, ![p].loaded = @ \union rules,
                            ![p].seen[f] = n]
  PROVE  /\ job' \in [Reloader -> Job]
         /\ job'[p] = [todo |-> job[p].todo \ {f}, loaded |-> job[p].loaded \union rules,
                       seen |-> [job[p].seen EXCEPT ![f] = n]]
         /\ \A q \in Reloader : q # p => job'[q] = job[q]
<1>1. job[p] \in Job
  OBVIOUS
<1>2. /\ job[p].todo \in SUBSET File /\ job[p].loaded \in SUBSET Rule
      /\ job[p].seen \in [File -> Nat]
  BY <1>1 DEF Job
<1>3. job'[p] = [todo |-> job[p].todo \ {f}, loaded |-> job[p].loaded \union rules,
                 seen |-> [job[p].seen EXCEPT ![f] = n]]
  BY <1>1 DEF Job
<1>4. job'[p] \in Job
  <2>1. [job[p].seen EXCEPT ![f] = n] \in [File -> Nat]
    BY <1>2
  <2>2. QED
    BY <1>2, <1>3, <2>1 DEF Job
<1>5. \A q \in Reloader : q # p => job'[q] = job[q]
  OBVIOUS
<1>6. DOMAIN job' = Reloader /\ job' = [q \in Reloader |-> job'[q]]
  OBVIOUS
<1>7. QED
  BY <1>3, <1>4, <1>5, <1>6

LEMMA TypeStep == TypeInv /\ [Next]_vars => TypeInv'
<1> SUFFICES ASSUME TypeInv, [Next]_vars PROVE TypeInv'
  OBVIOUS
<1> USE SetsAreDisjoint DEF TypeInv, TypeOK, Job, StepsFitRequests, Steps, ReadSteps,
        WriteSteps, ReloadSteps, Goto, Proc, Reloader, files, engines, locks, histories
<1>1. ASSUME NEW c \in Conn, Accept(c) PROVE TypeInv'
  BY <1>1 DEF Accept
<1>2. ASSUME NEW c \in Conn, Disconnect(c) PROVE TypeInv'
  BY <1>2 DEF Disconnect
<1>3. ASSUME NEW c \in Conn, Add(c) PROVE TypeInv'
  <2>1. request[c].arg \in Rule
    BY <1>3 DEF Add
  <2>2. engine' \subseteq Rule /\ added' \subseteq Rule /\ readers' \subseteq Conn \union Http
    BY <1>3, <2>1 DEF Add, Unlock, Blocked
  <2>3. pc' \in [Proc -> Steps]
    BY <1>3 DEF Add, Unlock, Blocked
  <2>4. TypeOK'
    BY <1>3, <2>2, <2>3 DEF Add, Unlock
  <2>5. StepsFitRequests'
    BY <1>3 DEF Add, Unlock, Blocked
  <2>6. QED
    BY <2>4, <2>5
<1>4. ASSUME NEW c \in Conn, NEW m \in Requests, Receive(c, m) PROVE TypeInv'
  <2>1. /\ request' = [request EXCEPT ![c] = m]
        /\ request' \in [Conn \union Http -> Requests \union {NoRequest}]
    BY <1>4 DEF Receive
  <2>2. answer' \in [Conn \union Http -> {"none", "ok", "denied", "error", "bye", "unknown"}]
    BY <1>4 DEF Receive
  <2>3. asked' \in [Conn -> [File -> Nat]]
    <3>1. Versions \in [File -> Nat]
      BY DiskIsContents DEF Versions
    <3>2. QED
      BY <1>4, <3>1 DEF Receive
  <2>4. TypeOK'
    BY <1>4, <2>1, <2>2, <2>3 DEF Receive
  <2>5. StepsFitRequests'
    <3>1. /\ m.op \in {"QUERY", "ADD"} => m.arg \in Rule \union {Malformed}
          /\ m.op \in {"RELOAD", "LOGOUT", "other"} => m.arg = Malformed
          /\ m.op \in {"QUERY", "ADD", "RELOAD", "LOGOUT", "other"}
      BY DEF Requests
    <3>2. /\ pc'[c] \in {"respond", "mutex", "rlock", "wlock"}
          /\ pc'[c] = "mutex" => m.op = "RELOAD"
          /\ pc'[c] = "rlock" => m.op = "QUERY"
          /\ pc'[c] = "wlock" => m.op = "ADD" /\ m.arg \in Rule
      BY <1>4, <3>1 DEF Receive
    <3>3. request'[c] = m /\ \A d \in Conn \ {c} : request'[d] = request[d]
      BY <2>1
    <3>4. \A p \in Proc \ {c} : pc'[p] = pc[p]
      BY <1>4 DEF Receive
    <3>5. \A q \in Conn \union Http : q # c => pc'[q] = pc[q] /\ request'[q] = request[q]
      BY <3>4, <2>1
    <3>6. ASSUME NEW t \in Ticker PROVE pc'[t] = pc[t]
      <4>1. t \in Proc \ {c}
        OBVIOUS
      <4>2. QED
        BY <3>4, <4>1
    <3>7. ASSUME NEW h \in Http PROVE pc'[h] = pc[h]
      <4>1. h \in Proc \ {c}
        OBVIOUS
      <4>2. QED
        BY <3>4, <4>1
    <3>8. QED
      BY <3>2, <3>3, <3>5, <3>6, <3>7
  <2>6. QED
    BY <2>4, <2>5
<1>5. ASSUME NEW h \in Http, NEW q \in Rule, HttpReceive(h, q) PROVE TypeInv'
  BY <1>5 DEF HttpReceive, Requests
<1>6. ASSUME NEW p \in Conn \union Http, RLock(p) PROVE TypeInv'
  <2>1. CASE writer = NoProc
    <3>1. pc' = [pc EXCEPT ![p] = "reading"] /\ pc[p] = "rlock" /\ readers' = readers \union {p}
      BY <1>6, <2>1 DEF RLock
    <3>2. TypeOK'
      BY <1>6, <3>1 DEF RLock
    <3>3. StepsFitRequests'
      BY <1>6, <3>1 DEF RLock
    <3>4. QED
      BY <3>2, <3>3
  <2>2. CASE writer # NoProc
    <3>1. pc' = [pc EXCEPT ![p] = "blocked"] /\ pc[p] = "rlock" /\ readers' = readers
      BY <1>6, <2>2 DEF RLock
    <3>2. TypeOK'
      BY <1>6, <3>1 DEF RLock
    <3>3. StepsFitRequests'
      BY <1>6, <3>1 DEF RLock
    <3>4. QED
      BY <3>2, <3>3
  <2>3. QED
    BY <2>1, <2>2
<1>7. ASSUME NEW p \in Conn \union Http, Query(p) PROVE TypeInv'
  BY <1>7 DEF Query
<1>8. ASSUME NEW p \in Conn \union Http, Respond(p) PROVE TypeInv'
  <2>1. /\ request' \in [Conn \union Http -> Requests \union {NoRequest}]
        /\ asked' \in [Conn -> [File -> Nat]]
    BY <1>8 DEF Respond, NoVersions
  <2>2. PICK s \in {"recv", "closed"} :
          pc' = [pc EXCEPT ![p] = s] /\ (p \in Http => s = "recv")
    BY <1>8 DEF Respond
  <2>3. TypeOK'
    BY <1>8, <2>1, <2>2 DEF Respond
  <2>4. StepsFitRequests'
    <3>1. request' = [request EXCEPT ![p] = NoRequest]
      BY <1>8 DEF Respond
    <3>2. p \in Proc /\ pc'[p] = s /\ \A q \in Proc : q # p => pc'[q] = pc[q]
      BY <2>2
    <3>3. \A c \in Conn : c # p => pc'[c] = pc[c] /\ request'[c] = request[c]
      BY <3>1, <3>2
    <3>4. QED
      BY <2>2, <3>2, <3>3
  <2>5. QED
    BY <2>3, <2>4
<1>9. ASSUME NEW p \in Reloader, Announce(p) PROVE TypeInv'
  BY <1>9 DEF Announce
<1>10. ASSUME NEW p \in Reloader, Lock(p) PROVE TypeInv'
  BY <1>10 DEF Lock
<1>11. ASSUME NEW p \in Reloader, StartReload(p) PROVE TypeInv'
  BY <1>11 DEF StartReload
<1>12. ASSUME NEW p \in Reloader, ScanFails(p) PROVE TypeInv'
  BY <1>12 DEF ScanFails, FailReload, NoJob, NoVersions
<1>13. ASSUME NEW p \in Reloader, Scan(p) PROVE TypeInv'
  <2>1. \A f \in File : Len(past[f]) \in Nat
    BY DiskIsContents
  <2>2. job' \in [Reloader -> Job]
    BY <1>13, <2>1 DEF Scan, NoJob, NoVersions
  <2>3. TypeOK'
    BY <1>13, <2>2 DEF Scan
  <2>4. StepsFitRequests'
    BY <1>13 DEF Scan
  <2>5. QED
    BY <2>3, <2>4
<1>14. ASSUME NEW p \in Reloader, LoadFile(p) PROVE TypeInv'
  <2> DEFINE f == FX!Min(job[p].todo)
  <2>0. job[p].todo # {} /\ Disk(f) \notin {Bad, Absent} /\ p \in Reloader
    BY <1>14 DEF LoadFile
  <2>1. f \in File /\ Disk(f) \subseteq Rule /\ Len(past[f]) \in Nat
    <3>1. f \in File
      BY <2>0, NextFileIsFile
    <3>2. QED
      BY <2>0, <3>1, DiskIsContents, ContentsAreRules
  <2>2. job' = [job EXCEPT ![p].todo = @ \ {f}, ![p].loaded = @ \union Disk(f),
                           ![p].seen[f] = Len(past[f])]
    BY <1>14 DEF LoadFile
  <2> HIDE DEF f
  <2>3. job' \in [Reloader -> Job]
    BY <2>1, <2>2, LoadedJobType
  <2>4. QED
    BY <1>14, <2>3 DEF LoadFile
<1>15. ASSUME NEW p \in Reloader, LoadFails(p) PROVE TypeInv'
  BY <1>15 DEF LoadFails, FailReload, NoJob, NoVersions
<1>16. ASSUME NEW p \in Reloader, LoadDone(p) PROVE TypeInv'
  BY <1>16 DEF LoadDone
<1>17. ASSUME NEW p \in Reloader, Swap(p) PROVE TypeInv'
  BY <1>17 DEF Swap, Unlock, Blocked
<1>18. ASSUME NEW p \in Reloader, FinishReload(p) PROVE TypeInv'
  BY <1>18 DEF FinishReload, NoJob, NoVersions
<1>19. ASSUME NEW t \in Ticker, Tick(t) PROVE TypeInv'
  BY <1>19 DEF Tick
<1>20. ASSUME NEW f \in File, Edit(f) PROVE TypeInv'
  <2>1. PICK c \in Contents : past' = [past EXCEPT ![f] = Append(@, c)]
    BY <1>20 DEF Edit
  <2>2. past[f] \in Seq(Contents)
    OBVIOUS
  <2>3. Append(past[f], c) \in Seq(Contents) /\ Append(past[f], c) # <<>>
    BY <2>2, AppendIsNotEmpty
  <2>4. past' \in [File -> Seq(Contents) \ {<<>>}]
    BY <2>1, <2>3
  <2>5. QED
    BY <1>20, <2>4 DEF Edit
<1>21. CASE ToggleDirectory
  BY <1>21 DEF ToggleDirectory
<1>22. CASE UNCHANGED vars
  BY <1>22 DEF vars
<1>23. QED
  BY <1>1, <1>2, <1>3, <1>4, <1>5, <1>6, <1>7, <1>8, <1>9, <1>10, <1>11, <1>12, <1>13,
     <1>14, <1>15, <1>16, <1>17, <1>18, <1>19, <1>20, <1>21, <1>22 DEF Next, Handle,
     Reload

LEMMA TypeInvariant == Spec => []TypeInv
BY InitTyped, TypeStep, PTL DEF Spec

(* The variables of the server have their types in every reachable state,  *)
(* whatever is requested, edited or reloaded (server.go, httpserver.go).   *)
THEOREM TypeCorrect == Spec => []TypeOK
<1>1. TypeInv => TypeOK
  BY DEF TypeInv
<1>2. QED
  BY <1>1, TypeInvariant, PTL

-----------------------------------------------------------------------------
(***************************************************************************)
(* Locks.  Each lock is held by exactly those that have reached the steps  *)
(* it protects.                                                            *)
(***************************************************************************)
InReload(p) ==
  \/ pc[p] \in ReloadSteps \ {"mutex"}
  \/ pc[p] \in WriteSteps /\ (p \in Conn => request[p].op = "RELOAD")

LockInv ==
  /\ \A p \in Reloader : pc[p] \in {"wwait", "writing"} <=> writer = p
  /\ \A p \in Conn \union Http : pc[p] = "reading" <=> p \in readers
  /\ \A p \in Reloader : pc[p] = "writing" => readers = {}
  /\ \A p \in Reloader : InReload(p) <=> reloader = p

LEMMA InitLocks == Init => LockInv
BY SetsAreDisjoint DEF Init, LockInv, InReload, Proc, Reloader, ReloadSteps, WriteSteps

(* Steps that neither take nor release a lock.                            *)
LEMMA SameLocks ==
  ASSUME LockInv, UNCHANGED locks,
         \A p \in Proc : /\ pc'[p] \in {"wwait", "writing"} <=> pc[p] \in {"wwait", "writing"}
                         /\ pc'[p] = "writing" <=> pc[p] = "writing"
                         /\ pc'[p] = "reading" <=> pc[p] = "reading",
         \A p \in Reloader : InReload(p)' <=> InReload(p)
  PROVE  LockInv'
<1>1. writer' = writer /\ readers' = readers /\ reloader' = reloader
  BY DEF locks
<1>2. Reloader \subseteq Proc /\ Conn \union Http \subseteq Proc
  BY DEF Proc, Reloader
<1>3. \A p \in Reloader : pc'[p] \in {"wwait", "writing"} <=> writer' = p
  BY <1>1, <1>2 DEF LockInv
<1>4. \A p \in Conn \union Http : pc'[p] = "reading" <=> p \in readers'
  BY <1>1, <1>2 DEF LockInv
<1>5. \A p \in Reloader : pc'[p] = "writing" => readers' = {}
  BY <1>1, <1>2 DEF LockInv
<1>6. \A p \in Reloader : InReload(p)' <=> reloader' = p
  BY <1>1 DEF LockInv
<1>7. QED
  BY <1>3, <1>4, <1>5, <1>6 DEF LockInv

LEMMA ReceiveKeepsLocks ==
  ASSUME TypeInv, LockInv, NEW c \in Conn, NEW m \in Requests, Receive(c, m)
  PROVE  LockInv'
<1>1. pc \in [Proc -> Steps] /\ request \in [Conn \union Http -> Requests \union {NoRequest}]
  BY DEF TypeInv, TypeOK
<1>2. /\ pc[c] = "recv" /\ pc'[c] \in {"respond", "mutex", "rlock", "wlock"}
      /\ \A p \in Proc : p # c => pc'[p] = pc[p]
      /\ pc'[c] = "wlock" => m.op # "RELOAD"
  BY <1>1 DEF Receive, Goto, Proc
<1>3. request'[c] = m /\ \A p \in Conn : p # c => request'[p] = request[p]
  BY <1>1 DEF Receive
<1>4. ~InReload(c) /\ ~InReload(c)'
  BY <1>2, <1>3 DEF InReload, ReloadSteps, WriteSteps
<1>5. \A p \in Reloader : p # c => (InReload(p)' <=> InReload(p))
  BY <1>2, <1>3 DEF InReload, Proc, Reloader
<1>6. UNCHANGED locks
  BY DEF Receive, locks
<1>7. \A p \in Proc : /\ pc'[p] \in {"wwait", "writing"} <=> pc[p] \in {"wwait", "writing"}
                      /\ pc'[p] = "writing" <=> pc[p] = "writing"
                      /\ pc'[p] = "reading" <=> pc[p] = "reading"
  BY <1>2
<1>8. QED
  BY <1>4, <1>5, <1>6, <1>7, SameLocks

LEMMA RespondKeepsLocks ==
  ASSUME TypeInv, LockInv, NEW r \in Conn \union Http, Respond(r)
  PROVE  LockInv'
<1>1. pc \in [Proc -> Steps] /\ request \in [Conn \union Http -> Requests \union {NoRequest}]
  BY DEF TypeInv, TypeOK
<1>2. /\ pc[r] = "respond" /\ pc'[r] \in {"recv", "closed"}
      /\ \A p \in Proc : p # r => pc'[p] = pc[p]
  BY <1>1 DEF Respond, Goto, Proc
<1>3. \A p \in Conn : p # r => request'[p] = request[p]
  BY <1>1 DEF Respond
<1>4. ~InReload(r) /\ ~InReload(r)'
  BY <1>2 DEF InReload, ReloadSteps, WriteSteps
<1>5. \A p \in Reloader : p # r => (InReload(p)' <=> InReload(p))
  BY <1>2, <1>3 DEF InReload, Proc, Reloader
<1>6. UNCHANGED locks
  BY DEF Respond, locks
<1>7. \A p \in Proc : /\ pc'[p] \in {"wwait", "writing"} <=> pc[p] \in {"wwait", "writing"}
                      /\ pc'[p] = "writing" <=> pc[p] = "writing"
                      /\ pc'[p] = "reading" <=> pc[p] = "reading"
  BY <1>2
<1>8. QED
  BY <1>4, <1>5, <1>6, <1>7, SameLocks

LEMMA RLockKeepsLocks ==
  ASSUME TypeInv, LockInv, NEW r \in Conn \union Http, RLock(r)
  PROVE  LockInv'
<1>1. pc \in [Proc -> Steps] /\ Reloader \subseteq Proc /\ Conn \union Http \subseteq Proc
  BY DEF TypeInv, TypeOK, Proc, Reloader
<1>2. /\ pc[r] = "rlock" /\ \A p \in Proc : p # r => pc'[p] = pc[p]
      /\ writer' = writer /\ reloader' = reloader /\ request' = request
      /\ \/ writer = NoProc /\ pc'[r] = "reading" /\ readers' = readers \union {r}
         \/ pc'[r] = "blocked" /\ readers' = readers
  BY <1>1 DEF RLock, Goto
<1>3. \A p \in Reloader : InReload(p)' <=> InReload(p)
  BY <1>1, <1>2 DEF InReload, ReloadSteps, WriteSteps
<1>4. \A p \in Reloader : /\ pc'[p] \in {"wwait", "writing"} <=> pc[p] \in {"wwait", "writing"}
                          /\ pc'[p] = "writing" <=> pc[p] = "writing"
  BY <1>1, <1>2
<1>5. \A p \in Reloader : pc[p] = "writing" => writer # NoProc
  BY <1>1, SetsAreDisjoint DEF LockInv
<1>6. \A p \in Reloader : pc'[p] = "writing" => readers' = {}
  BY <1>2, <1>4, <1>5 DEF LockInv
<1>7. \A p \in Conn \union Http : pc'[p] = "reading" <=> p \in readers'
  <2>1. \A p \in Conn \union Http : p # r => (p \in readers' <=> p \in readers)
    BY <1>2
  <2>2. r \notin readers
    BY <1>2 DEF LockInv
  <2>3. QED
    BY <1>1, <1>2, <2>1, <2>2 DEF LockInv
<1>8. QED
  BY <1>2, <1>3, <1>4, <1>6, <1>7 DEF LockInv

LEMMA AddKeepsLocks ==
  ASSUME TypeInv, LockInv, NEW c \in Conn, Add(c)
  PROVE  LockInv'
<1>1. /\ c \in Reloader /\ Reloader \subseteq Proc /\ Conn \union Http \subseteq Proc
      /\ \A t \in Ticker : pc[t] # "blocked"
  BY DEF TypeInv, StepsFitRequests, Proc, Reloader, WriteSteps, ReloadSteps
<1>2. pc[c] = "writing" /\ request[c].op = "ADD" /\ request' = request /\ reloader' = reloader
  BY DEF Add
<1>3. writer = c /\ readers = {} /\ ~InReload(c)
  BY <1>1, <1>2 DEF LockInv, InReload, ReloadSteps
<1>4. /\ writer' = NoProc /\ readers' = Blocked /\ pc'[c] = "respond"
      /\ \A p \in Proc : p # c => pc'[p] = IF p \in Blocked THEN "reading" ELSE pc[p]
  BY <1>1, <1>3 DEF Add, Unlock
<1>5. \A p \in Proc : p \in Blocked <=> pc[p] = "blocked"
  BY DEF Blocked
<1>6. c \notin Blocked
  BY <1>2 DEF Blocked
<1>7. ASSUME NEW p \in Reloader PROVE pc'[p] \notin {"wwait", "writing"} /\ writer' # p
  <2>1. writer' # p
    BY <1>1, <1>4, SetsAreDisjoint
  <2>2. CASE p = c
    BY <1>4, <2>1, <2>2
  <2>3. CASE p # c
    <3>1. pc[p] \notin {"wwait", "writing"}
      BY <1>3, <2>3 DEF LockInv
    <3>2. pc'[p] = pc[p] \/ pc'[p] = "reading"
      BY <1>1, <1>4, <2>3
    <3>3. QED
      BY <2>1, <3>1, <3>2
  <2>4. QED
    BY <2>2, <2>3
<1>8. ASSUME NEW p \in Reloader PROVE InReload(p)' <=> reloader' = p
  <2>1. CASE p = c
    BY <1>2, <1>3, <1>4, <2>1 DEF LockInv, InReload, ReloadSteps, WriteSteps
  <2>2. CASE p # c /\ pc[p] = "blocked"
    BY <1>1, <1>2, <1>4, <1>5, <2>2 DEF LockInv, InReload, ReloadSteps, WriteSteps
  <2>3. CASE p # c /\ pc[p] # "blocked"
    BY <1>1, <1>2, <1>4, <1>5, <2>3 DEF LockInv, InReload
  <2>4. QED
    BY <2>1, <2>2, <2>3
<1>9. ASSUME NEW p \in Conn \union Http PROVE pc'[p] = "reading" <=> p \in readers'
  <2>1. CASE p = c
    BY <1>4, <1>6, <2>1
  <2>2. CASE p # c
    <3>1. pc[p] # "reading"
      BY <1>3 DEF LockInv
    <3>2. QED
      BY <1>1, <1>4, <2>2, <3>1
  <2>3. QED
    BY <2>1, <2>2
<1>10. QED
  BY <1>7, <1>8, <1>9 DEF LockInv

LEMMA LockStep == TypeInv /\ LockInv /\ [Next]_vars => LockInv'
<1> SUFFICES ASSUME TypeInv, LockInv, [Next]_vars PROVE LockInv'
  OBVIOUS
<1> USE SetsAreDisjoint DEF TypeInv, TypeOK, StepsFitRequests, LockInv, InReload, Steps,
        ReadSteps, WriteSteps, ReloadSteps, Goto, Proc, Reloader, files, engines, locks,
        histories
<1>1. ASSUME NEW c \in Conn, Accept(c) PROVE LockInv'
  BY <1>1 DEF Accept
<1>2. ASSUME NEW c \in Conn, Disconnect(c) PROVE LockInv'
  BY <1>2 DEF Disconnect
<1>3. ASSUME NEW c \in Conn, Add(c) PROVE LockInv'
  BY <1>3, AddKeepsLocks
<1>4. ASSUME NEW c \in Conn, NEW m \in Requests, Receive(c, m) PROVE LockInv'
  BY <1>4, ReceiveKeepsLocks
<1>5. ASSUME NEW h \in Http, NEW q \in Rule, HttpReceive(h, q) PROVE LockInv'
  BY <1>5 DEF HttpReceive
<1>6. ASSUME NEW p \in Conn \union Http, RLock(p) PROVE LockInv'
  BY <1>6, RLockKeepsLocks
<1>7. ASSUME NEW p \in Conn \union Http, Query(p) PROVE LockInv'
  BY <1>7 DEF Query
<1>8. ASSUME NEW p \in Conn \union Http, Respond(p) PROVE LockInv'
  BY <1>8, RespondKeepsLocks
<1>9. ASSUME NEW p \in Reloader, Announce(p) PROVE LockInv'
  BY <1>9 DEF Announce
<1>10. ASSUME NEW p \in Reloader, Lock(p) PROVE LockInv'
  BY <1>10 DEF Lock
<1>11. ASSUME NEW p \in Reloader, StartReload(p) PROVE LockInv'
  BY <1>11 DEF StartReload
<1>12. ASSUME NEW p \in Reloader, ScanFails(p) PROVE LockInv'
  BY <1>12 DEF ScanFails, FailReload
<1>13. ASSUME NEW p \in Reloader, Scan(p) PROVE LockInv'
  BY <1>13 DEF Scan
<1>14. ASSUME NEW p \in Reloader, LoadFile(p) PROVE LockInv'
  BY <1>14 DEF LoadFile
<1>15. ASSUME NEW p \in Reloader, LoadFails(p) PROVE LockInv'
  BY <1>15 DEF LoadFails, FailReload
<1>16. ASSUME NEW p \in Reloader, LoadDone(p) PROVE LockInv'
  BY <1>16 DEF LoadDone
<1>17. ASSUME NEW p \in Reloader, Swap(p) PROVE LockInv'
  BY <1>17 DEF Swap, Unlock, Blocked
<1>18. ASSUME NEW p \in Reloader, FinishReload(p) PROVE LockInv'
  BY <1>18 DEF FinishReload
<1>19. ASSUME NEW t \in Ticker, Tick(t) PROVE LockInv'
  BY <1>19 DEF Tick
<1>20. ASSUME NEW f \in File, Edit(f) PROVE LockInv'
  BY <1>20 DEF Edit
<1>21. CASE ToggleDirectory
  BY <1>21 DEF ToggleDirectory
<1>22. CASE UNCHANGED vars
  BY <1>22 DEF vars
<1>23. QED
  BY <1>1, <1>2, <1>3, <1>4, <1>5, <1>6, <1>7, <1>8, <1>9, <1>10, <1>11, <1>12, <1>13,
     <1>14, <1>15, <1>16, <1>17, <1>18, <1>19, <1>20, <1>21, <1>22 DEF Next, Handle,
     Reload

LEMMA LockInvariant == Spec => [](TypeInv /\ LockInv)
BY InitTyped, TypeStep, InitLocks, LockStep, PTL DEF Spec

(* No goroutine reads or changes the engine while another one changes it,  *)
(* for any number of connections and HTTP requests (server.go:343-378 and  *)
(* 452, httpserver.go:198).                                                *)
THEOREM LocksExclude == Spec => []MutualExclusion
<1>1. ASSUME TypeInv, LockInv PROVE MutualExclusion
  <2>1. SUFFICES ASSUME NEW p \in Proc, NEW q \in Proc, pc[p] = "writing", p # q,
                        pc[q] \in {"reading", "writing"}
                 PROVE  FALSE
    BY DEF MutualExclusion
  <2>2. \A x \in Proc : pc[x] = "writing" => x \in Reloader
    BY <1>1 DEF Proc, Reloader, TypeInv, StepsFitRequests, ReadSteps
  <2>3. \A x \in Proc : pc[x] = "reading" => x \in Conn \union Http
    BY <1>1 DEF Proc, TypeInv, StepsFitRequests, WriteSteps, ReloadSteps
  <2>4. writer = p /\ readers = {}
    BY <1>1, <2>1, <2>2 DEF LockInv
  <2>5. CASE pc[q] = "writing"
    BY <1>1, <2>1, <2>2, <2>4, <2>5 DEF LockInv
  <2>6. CASE pc[q] = "reading"
    BY <1>1, <2>3, <2>4, <2>6 DEF LockInv
  <2>7. QED
    BY <2>1, <2>5, <2>6
<1>2. QED
  BY <1>1, LockInvariant, PTL

-----------------------------------------------------------------------------
(***************************************************************************)
(* Reloads.  The engine holds one version of each file, and what a reload  *)
(* has read so far is as new as that and as new as its client wants.       *)
(***************************************************************************)
Loading(p) ==
  \/ pc[p] = "load"
  \/ pc[p] \in WriteSteps /\ (p \in Conn => request[p].op = "RELOAD")

FilesInv ==
  /\ \A f \in File : installed[f] \in 1..Len(past[f]) /\ past[f][installed[f]] # Bad
  /\ engine = added \union UNION {RulesIn(past[f][installed[f]]) : f \in File}
  /\ \A c \in Conn, f \in File : asked[c][f] \in 0..Len(past[f])

WholeReading(p) ==
  /\ \A f \in File \ job[p].todo :
       /\ job[p].seen[f] \in installed[f]..Len(past[f])
       /\ past[f][job[p].seen[f]] # Bad
       /\ p \in Conn => asked[p][f] <= job[p].seen[f]
  /\ job[p].loaded = UNION {RulesIn(past[f][job[p].seen[f]]) : f \in File \ job[p].todo}

ReloadInv ==
  \A p \in Reloader :
    Loading(p) => WholeReading(p) /\ (pc[p] # "load" => job[p].todo = {})

Told(c) ==
  \/ pc[c] = "publish"
  \/ pc[c] = "respond" /\ request[c].op = "RELOAD" /\ answer[c] = "ok"

FreshInv == \A c \in Conn : Told(c) => \A f \in File : installed[f] >= asked[c][f]

IInv == TypeInv /\ LockInv /\ FilesInv /\ ReloadInv /\ FreshInv

LEMMA InitReloads == Init => FilesInv /\ ReloadInv /\ FreshInv
<1> SUFFICES ASSUME Init PROVE FilesInv /\ ReloadInv /\ FreshInv
  OBVIOUS
<1>1. ASSUME NEW f \in File
      PROVE  installed[f] = 1 /\ Len(past[f]) = 1 /\ past[f][1] = Disk(f) /\ Disk(f) # Bad
  <2>1. PICK c \in Contents \ {Bad} : past[f] = <<c>>
    BY <1>1 DEF Init
  <2>2. QED
    BY <2>1 DEF Init, Versions, Disk
<1>2. FilesInv
  <2>1. engine = UNION {RulesIn(past[f][installed[f]]) : f \in File}
    <3>1. \A f \in File : RulesIn(past[f][installed[f]]) = RulesIn(Disk(f))
      BY <1>1
    <3>2. QED
      BY <3>1 DEF Init
  <2>2. \A c \in Conn, f \in File : asked[c][f] = 0
    BY DEF Init, NoVersions
  <2>3. QED
    BY <1>1, <2>1, <2>2 DEF FilesInv, Init
<1>3. \A p \in Reloader : pc[p] \in {"closed", "recv"}
  BY DEF Init, Proc, Reloader
<1>4. ReloadInv /\ FreshInv
  BY <1>3 DEF ReloadInv, FreshInv, Loading, Told, WriteSteps, Reloader
<1>5. QED
  BY <1>2, <1>4

(* Files only gain versions.                                               *)
PastKept ==
  \A f \in File : /\ Len(past'[f]) \in Nat /\ Len(past[f]) \in Nat \ {0}
                  /\ Len(past'[f]) >= Len(past[f])
                  /\ \A v \in 1..Len(past[f]) : past'[f][v] = past[f][v]

LEMMA PastIsKept == TypeInv /\ [Next]_vars => PastKept
<1> SUFFICES ASSUME TypeInv, [Next]_vars PROVE PastKept
  OBVIOUS
<1>1. \A f \in File : Len(past[f]) \in Nat \ {0} /\ past[f] \in Seq(Contents)
  BY DiskIsContents DEF TypeInv, TypeOK
<1>2. ASSUME NEW f \in File, Edit(f) PROVE PastKept
  <2>1. PICK c \in Contents : past' = [past EXCEPT ![f] = Append(@, c)]
    BY <1>2 DEF Edit
  <2>2. past'[f] = Append(past[f], c) /\ \A g \in File : g # f => past'[g] = past[g]
    BY <2>1 DEF TypeInv, TypeOK
  <2>3. /\ Len(Append(past[f], c)) = Len(past[f]) + 1
        /\ \A v \in 1..Len(past[f]) : Append(past[f], c)[v] = past[f][v]
    BY <1>1
  <2>4. ASSUME NEW g \in File
        PROVE  /\ Len(past'[g]) \in Nat /\ Len(past'[g]) >= Len(past[g])
               /\ \A v \in 1..Len(past[g]) : past'[g][v] = past[g][v]
    <3>1. CASE g = f
      BY <1>1, <2>2, <2>3, <3>1
    <3>2. CASE g # f
      BY <1>1, <2>2, <3>2
    <3>3. QED
      BY <3>1, <3>2
  <2>5. QED
    BY <1>1, <2>4 DEF PastKept
<1>3. CASE past' = past
  BY <1>1, <1>3 DEF PastKept
<1>4. past' = past \/ \E f \in File : Edit(f)
  BY DEF Next, Handle, Reload, vars, files, Accept, Disconnect, Add, Receive,
     HttpReceive,
         RLock, Query, Respond, Announce, Lock, StartReload, ScanFails, Scan, LoadFile,
         LoadFails, LoadDone, Swap, FinishReload, Tick, ToggleDirectory
<1>5. QED
  BY <1>2, <1>3, <1>4

(* Steps that leave the engine's rules as they are.                        *)
LEMMA SameFiles ==
  ASSUME TypeInv, FilesInv, PastKept, UNCHANGED <<engine, installed, added>>,
         \A c \in Conn, f \in File : asked'[c][f] \in 0..Len(past'[f])
  PROVE  FilesInv'
<1>1. \A f \in File : past'[f][installed'[f]] = past[f][installed[f]]
  BY DEF FilesInv, PastKept
<1>2. {RulesIn(past'[f][installed'[f]]) : f \in File}
        = {RulesIn(past[f][installed[f]]) : f \in File}
  BY <1>1
<1>3. \A f \in File : installed'[f] \in 1..Len(past'[f]) /\ past'[f][installed'[f]] # Bad
  BY <1>1 DEF FilesInv, PastKept
<1>4. QED
  BY <1>2, <1>3 DEF FilesInv

LEMMA SameAsked ==
  ASSUME TypeInv, FilesInv, PastKept, UNCHANGED asked
  PROVE  \A c \in Conn, f \in File : asked'[c][f] \in 0..Len(past'[f])
BY DEF FilesInv, PastKept

(* Steps that leave what the reloads have read as it is.                   *)
LEMMA SameReloads ==
  ASSUME TypeInv, FilesInv, ReloadInv, PastKept, UNCHANGED installed,
         \A p \in Reloader : Loading(p)' =>
           /\ Loading(p) /\ job'[p] = job[p]
           /\ p \in Conn => asked'[p] = asked[p]
           /\ pc'[p] # "load" => pc[p] # "load" \/ job[p].todo = {}
  PROVE  ReloadInv'
<1>1. SUFFICES ASSUME NEW p \in Reloader, Loading(p)'
               PROVE  WholeReading(p)' /\ (pc'[p] # "load" => job'[p].todo = {})
  BY DEF ReloadInv
<1>2. /\ WholeReading(p) /\ job'[p] = job[p]
      /\ p \in Conn => asked'[p] = asked[p]
      /\ pc'[p] # "load" => job[p].todo = {}
  BY <1>1 DEF ReloadInv
<1>3. ASSUME NEW f \in File \ job[p].todo
      PROVE  /\ job[p].seen[f] \in installed[f]..Len(past'[f])
             /\ past'[f][job[p].seen[f]] = past[f][job[p].seen[f]]
  <2>1. job[p].seen[f] \in installed[f]..Len(past[f]) /\ installed[f] \in 1..Len(past[f])
    BY <1>2 DEF WholeReading, FilesInv
  <2>2. job[p].seen[f] \in 1..Len(past[f])
    BY <2>1
  <2>3. QED
    BY <2>1, <2>2 DEF PastKept
<1>4. {RulesIn(past'[f][job[p].seen[f]]) : f \in File \ job[p].todo}
        = {RulesIn(past[f][job[p].seen[f]]) : f \in File \ job[p].todo}
  BY <1>3
<1>5. WholeReading(p)'
  BY <1>2, <1>3, <1>4 DEF WholeReading
<1>6. QED
  BY <1>2, <1>5

(* Steps that tell no client of a reload.                                  *)
LEMMA SameTold ==
  ASSUME FreshInv, UNCHANGED installed,
         \A c \in Conn : Told(c)' => Told(c) /\ asked'[c] = asked[c]
  PROVE  FreshInv'
BY DEF FreshInv

LEMMA FilesStep == IInv /\ [Next]_vars => FilesInv'
<1> SUFFICES ASSUME IInv, [Next]_vars PROVE FilesInv'
  OBVIOUS
<1>1. TypeInv /\ FilesInv /\ ReloadInv /\ PastKept
  BY PastIsKept DEF IInv
<1>2. ASSUME NEW c \in Conn, Add(c) PROVE FilesInv'
  <2>1. \A f \in File : past'[f] = past[f] /\ installed'[f] = installed[f]
    BY <1>2 DEF Add, files
  <2>2. engine' = engine \union {request[c].arg} /\ added' = added \union {request[c].arg}
        /\ asked' = asked
    BY <1>2 DEF Add
  <2>3. {RulesIn(past'[f][installed'[f]]) : f \in File}
          = {RulesIn(past[f][installed[f]]) : f \in File}
    BY <2>1
  <2>4. QED
    BY <1>1, <2>1, <2>2, <2>3 DEF FilesInv
<1>3. ASSUME NEW p \in Reloader, Swap(p) PROVE FilesInv'
  <2>1. Loading(p) /\ pc[p] # "load"
    BY <1>3 DEF Swap, Loading, WriteSteps
  <2>2. job[p].todo = {} /\ WholeReading(p)
    BY <1>1, <2>1 DEF ReloadInv
  <2>3. /\ engine' = job[p].loaded /\ installed' = job[p].seen /\ added' = {}
        /\ past' = past /\ asked' = asked
    BY <1>3 DEF Swap, files
  <2>4. \A f \in File : job[p].seen[f] \in 1..Len(past[f]) /\ past[f][job[p].seen[f]] # Bad
    <3>1. TAKE f \in File
    <3>2. job[p].seen[f] \in installed[f]..Len(past[f]) /\ installed[f] \in 1..Len(past[f])
      BY <1>1, <2>2 DEF WholeReading, FilesInv
    <3>3. QED
      BY <2>2, <3>2 DEF WholeReading
  <2>5. job[p].loaded = UNION {RulesIn(past[f][job[p].seen[f]]) : f \in File}
    BY <2>2 DEF WholeReading
  <2>6. QED
    BY <1>1, <2>3, <2>4, <2>5 DEF FilesInv
<1>4. ASSUME NEW c \in Conn, NEW m \in Requests, Receive(c, m) PROVE FilesInv'
  <2>1. UNCHANGED <<engine, installed, added, past>>
        /\ (asked' = asked \/ asked' = [asked EXCEPT ![c] = Versions])
    BY <1>4 DEF Receive, engines, files
  <2>2. asked \in [Conn -> [File -> Nat]]
    BY <1>1 DEF TypeInv, TypeOK
  <2>3. ASSUME NEW d \in Conn, NEW f \in File PROVE asked'[d][f] \in 0..Len(past'[f])
    <3>1. asked'[d] = asked[d] \/ asked'[d] = Versions
      BY <2>1, <2>2
    <3>2. Versions[f] = Len(past[f]) /\ Len(past[f]) \in Nat /\ asked[d][f] \in 0..Len(past[f])
      BY <1>1 DEF Versions, PastKept, FilesInv
    <3>3. QED
      BY <2>1, <3>1, <3>2
  <2>4. QED
    BY <1>1, <2>1, <2>3, SameFiles
<1>5. ASSUME NEW r \in Conn \union Http, Respond(r) PROVE FilesInv'
  <2>1. UNCHANGED <<engine, installed, added, past>>
        /\ (asked' = asked \/ asked' = [asked EXCEPT ![r] = NoVersions])
    BY <1>5 DEF Respond, engines, files
  <2>2. asked \in [Conn -> [File -> Nat]]
    BY <1>1 DEF TypeInv, TypeOK
  <2>3. ASSUME NEW d \in Conn, NEW f \in File PROVE asked'[d][f] \in 0..Len(past'[f])
    <3>1. asked'[d] = asked[d] \/ asked'[d] = NoVersions
      BY <2>1, <2>2
    <3>2. NoVersions[f] = 0 /\ Len(past[f]) \in Nat /\ asked[d][f] \in 0..Len(past[f])
      BY <1>1 DEF NoVersions, PastKept, FilesInv
    <3>3. QED
      BY <2>1, <3>1, <3>2
  <2>4. QED
    BY <1>1, <2>1, <2>3, SameFiles
<1>6. CASE UNCHANGED <<engine, installed, added, asked>>
  BY <1>1, <1>6, SameFiles, SameAsked
<1>7. \/ UNCHANGED <<engine, installed, added, asked>>
      \/ \E c \in Conn : Add(c) \/ \E m \in Requests : Receive(c, m)
      \/ \E p \in Reloader : Swap(p)
      \/ \E r \in Conn \union Http : Respond(r)
  BY DEF Next, Handle, Reload, vars, files, engines, histories, Accept, Disconnect,
     HttpReceive,
         RLock, Query, Announce, Lock, StartReload, ScanFails, Scan, LoadFile,
         LoadFails, LoadDone, FinishReload, Tick, Edit, ToggleDirectory
<1>8. QED
  BY <1>2, <1>3, <1>4, <1>5, <1>6, <1>7

LEMMA InstalledGrows == IInv /\ [Next]_vars => \A f \in File : installed'[f] >= installed[f]
<1> SUFFICES ASSUME IInv, [Next]_vars, NEW f \in File PROVE installed'[f] >= installed[f]
  OBVIOUS
<1>1. installed[f] \in Nat
  BY DEF IInv, TypeInv, TypeOK
<1>2. ASSUME NEW p \in Reloader, Swap(p) PROVE installed'[f] >= installed[f]
  <2>1. Loading(p) /\ pc[p] # "load"
    BY <1>2 DEF Swap, Loading, WriteSteps
  <2>2. job[p].todo = {} /\ WholeReading(p)
    BY <2>1 DEF ReloadInv, IInv
  <2>3. job[p].seen[f] \in installed[f]..Len(past[f]) /\ installed[f] \in 1..Len(past[f])
    BY <2>2 DEF WholeReading, FilesInv, IInv
  <2>4. QED
    BY <1>2, <2>3 DEF Swap
<1>3. installed' = installed \/ \E p \in Reloader : Swap(p)
  BY DEF Next, Handle, Reload, vars, histories, Accept, Disconnect, Add, Receive,
     HttpReceive,
         RLock, Query, Respond, Announce, Lock, StartReload, ScanFails, Scan, LoadFile,
         LoadFails, LoadDone, FinishReload, Tick, Edit, ToggleDirectory
<1>4. QED
  BY <1>1, <1>2, <1>3

LEMMA ScanIsWhole ==
  ASSUME TypeInv, FilesInv, NEW p \in Reloader, Scan(p)
  PROVE  WholeReading(p)'
<1> DEFINE present == {f \in File : Disk(f) # Absent}
<1>1. job \in [Reloader -> Job] /\ UNCHANGED <<past, installed, asked>>
  BY DEF TypeInv, TypeOK, Job, Scan, files, histories
<1>2. /\ job'[p].todo = present /\ job'[p].loaded = {}
      /\ job'[p].seen = [f \in File |-> IF f \in present THEN 0 ELSE Len(past[f])]
  BY <1>1 DEF Scan, NoJob
<1>3. ASSUME NEW f \in File \ present
      PROVE  /\ job'[p].seen[f] = Len(past[f]) /\ past[f][Len(past[f])] = Absent
             /\ Len(past[f]) \in Nat \ {0}
  BY <1>2, DiskIsContents DEF Disk, TypeInv
<1>4. \A f \in File \ present : /\ installed[f] \in 1..Len(past[f])
                                /\ p \in Conn => asked[p][f] \in 0..Len(past[f])
  BY DEF FilesInv
<1>5. \A f \in File \ present : RulesIn(past[f][job'[p].seen[f]]) = {}
  BY <1>3 DEF RulesIn
<1>6. Absent # Bad
  BY SetsAreDisjoint
<1> HIDE DEF present
<1>7. \A f \in File \ present :
        /\ job'[p].seen[f] \in installed[f]..Len(past[f])
        /\ past[f][job'[p].seen[f]] # Bad
        /\ p \in Conn => asked[p][f] <= job'[p].seen[f]
  BY <1>3, <1>4, <1>6
<1>8. past' = past /\ installed' = installed /\ asked' = asked
      /\ File \ job'[p].todo = File \ present
  BY <1>1, <1>2
<1>9. \A f \in File \ job'[p].todo : RulesIn(past'[f][job'[p].seen[f]]) = {}
  BY <1>5, <1>8
<1>10. UNION {RulesIn(past'[f][job'[p].seen[f]]) : f \in File \ job'[p].todo} = {}
  BY <1>9
<1>11. QED
  BY <1>2, <1>7, <1>8, <1>10 DEF WholeReading

LEMMA LoadFileIsWhole ==
  ASSUME TypeInv, FilesInv, NEW p \in Reloader, LoadFile(p), WholeReading(p)
  PROVE  WholeReading(p)'
<1> DEFINE next == FX!Min(job[p].todo)
<1>1. job \in [Reloader -> Job] /\ UNCHANGED <<past, installed, asked>>
  BY DEF TypeInv, TypeOK, Job, LoadFile, files, histories
<1>2. next \in job[p].todo /\ next \in File /\ Disk(next) \notin {Bad, Absent}
  BY NextFileIsFile DEF LoadFile, TypeInv
<1>3. /\ Len(past[next]) \in Nat \ {0} /\ Disk(next) = past[next][Len(past[next])]
      /\ RulesIn(Disk(next)) = Disk(next) /\ Disk(next) \subseteq Rule
  BY <1>2, DiskIsContents, ContentsAreRules DEF Disk, RulesIn, TypeInv
<1>4. job' = [job EXCEPT ![p].todo = @ \ {next}, ![p].loaded = @ \union Disk(next),
                         ![p].seen[next] = Len(past[next])]
  BY DEF LoadFile
<1> HIDE DEF next
<1>5. job'[p] = [todo |-> job[p].todo \ {next}, loaded |-> job[p].loaded \union Disk(next),
                 seen |-> [job[p].seen EXCEPT ![next] = Len(past[next])]]
  <2>1. job[p] \in Job
    BY <1>1
  <2>2. QED
    BY <1>1, <1>4, <2>1 DEF Job
<1>6. job[p].todo \in SUBSET File /\ job[p].seen \in [File -> Nat]
  BY <1>1 DEF Job
<1>7. File \ job'[p].todo = (File \ job[p].todo) \union {next}
  BY <1>2, <1>5, <1>6
<1>8. /\ job'[p].seen[next] = Len(past[next])
      /\ \A f \in File \ job[p].todo : job'[p].seen[f] = job[p].seen[f]
  BY <1>2, <1>5, <1>6
<1>9. UNION {RulesIn(past[f][job'[p].seen[f]]) : f \in File \ job'[p].todo}
        = Disk(next) \union UNION {RulesIn(past[f][job[p].seen[f]]) : f \in File \ job[p].todo}
  <2> DEFINE A == File \ job[p].todo
             R(f) == RulesIn(past[f][job[p].seen[f]])
             S(f) == RulesIn(past[f][job'[p].seen[f]])
  <2>1. \A f \in A : S(f) = R(f)
    BY <1>8
  <2>2. S(next) = Disk(next)
    BY <1>3, <1>8
  <2>3. File \ job'[p].todo = A \union {next}
    BY <1>7
  <2> HIDE DEF A, R, S
  <2>4. UNION {S(f) : f \in A \union {next}} = S(next) \union UNION {S(f) : f \in A}
    OBVIOUS
  <2>5. {S(f) : f \in A} = {R(f) : f \in A}
    BY <2>1
  <2>6. UNION {S(f) : f \in A \union {next}} = Disk(next) \union UNION {R(f) : f \in A}
    BY <2>2, <2>4, <2>5
  <2>7. QED
    BY <2>3, <2>6 DEF A, R, S
<1>10. /\ installed[next] \in 1..Len(past[next])
       /\ p \in Conn => asked[p][next] \in 0..Len(past[next])
  BY <1>2 DEF FilesInv
<1>11. \A f \in File \ job'[p].todo :
         /\ job'[p].seen[f] \in installed[f]..Len(past[f])
         /\ past[f][job'[p].seen[f]] # Bad
         /\ p \in Conn => asked[p][f] <= job'[p].seen[f]
  <2>1. TAKE f \in File \ job'[p].todo
  <2>2. CASE f = next
    BY <1>2, <1>3, <1>8, <1>10, <2>2
  <2>3. CASE f # next
    BY <1>7, <1>8, <2>3 DEF WholeReading
  <2>4. QED
    BY <2>2, <2>3
<1>12. job'[p].loaded = job[p].loaded \union Disk(next)
  BY <1>5
<1>13. past' = past /\ installed' = installed /\ asked' = asked
  BY <1>1
<1>14. job'[p].loaded = UNION {RulesIn(past'[f][job'[p].seen[f]]) : f \in File \ job'[p].todo}
  <2>1. {RulesIn(past'[f][job'[p].seen[f]]) : f \in File \ job'[p].todo}
          = {RulesIn(past[f][job'[p].seen[f]]) : f \in File \ job'[p].todo}
    BY <1>13
  <2>2. QED
    BY <1>9, <1>12, <2>1 DEF WholeReading
<1>15. QED
  BY <1>11, <1>13, <1>14 DEF WholeReading

(* Whoever loads, loads alone.                                             *)
LEMMA OneLoads ==
  ASSUME LockInv, NEW p \in Reloader, NEW q \in Reloader, InReload(p), Loading(q)
  PROVE  p = q
BY DEF LockInv, Loading, InReload, WriteSteps, ReloadSteps

LEMMA ReloadStep == IInv /\ [Next]_vars => ReloadInv'
<1> SUFFICES ASSUME IInv, [Next]_vars PROVE ReloadInv'
  OBVIOUS
<1> DEFINE Kept ==
      \A r \in Reloader : Loading(r)' =>
        /\ Loading(r) /\ job'[r] = job[r]
        /\ r \in Conn => asked'[r] = asked[r]
        /\ pc'[r] # "load" => pc[r] # "load" \/ job[r].todo = {}
<1>1. TypeInv /\ LockInv /\ FilesInv /\ ReloadInv /\ PastKept
  BY PastIsKept DEF IInv
<1>2. ASSUME UNCHANGED installed, Kept PROVE ReloadInv'
  BY <1>1, <1>2, SameReloads
<1> USE SetsAreDisjoint DEF Goto, Proc, Reloader, Loading, Steps, WriteSteps, ReadSteps,
        ReloadSteps, locks, histories, files, engines
<1>3. ASSUME NEW c \in Conn, Accept(c) PROVE ReloadInv'
  BY <1>1, <1>2, <1>3 DEF Accept, TypeInv, TypeOK, StepsFitRequests, Job
<1>4. ASSUME NEW c \in Conn, Disconnect(c) PROVE ReloadInv'
  BY <1>1, <1>2, <1>4 DEF Disconnect, TypeInv, TypeOK, StepsFitRequests, Job
<1>5. ASSUME NEW c \in Conn, Add(c) PROVE ReloadInv'
  BY <1>1, <1>2, <1>5 DEF Add, Unlock, Blocked, TypeInv, TypeOK, StepsFitRequests, Job
<1>6. ASSUME NEW c \in Conn, NEW m \in Requests, Receive(c, m) PROVE ReloadInv'
  BY <1>1, <1>2, <1>6 DEF Receive, TypeInv, TypeOK, StepsFitRequests, Job
<1>7. ASSUME NEW h \in Http, NEW q \in Rule, HttpReceive(h, q) PROVE ReloadInv'
  BY <1>1, <1>2, <1>7 DEF HttpReceive, TypeInv, TypeOK, StepsFitRequests, Job
<1>8. ASSUME NEW p \in Conn \union Http, RLock(p) PROVE ReloadInv'
  BY <1>1, <1>2, <1>8 DEF RLock, TypeInv, TypeOK, StepsFitRequests, Job
<1>9. ASSUME NEW p \in Conn \union Http, Query(p) PROVE ReloadInv'
  BY <1>1, <1>2, <1>9 DEF Query, TypeInv, TypeOK, StepsFitRequests, Job
<1>10. ASSUME NEW p \in Conn \union Http, Respond(p) PROVE ReloadInv'
  BY <1>1, <1>2, <1>10 DEF Respond, TypeInv, TypeOK, StepsFitRequests, Job
<1>11. ASSUME NEW p \in Reloader, Announce(p) PROVE ReloadInv'
  BY <1>1, <1>2, <1>11 DEF Announce, TypeInv, TypeOK, StepsFitRequests, Job
<1>12. ASSUME NEW p \in Reloader, Lock(p) PROVE ReloadInv'
  BY <1>1, <1>2, <1>12 DEF Lock, TypeInv, TypeOK, StepsFitRequests, Job
<1>13. ASSUME NEW p \in Reloader, StartReload(p) PROVE ReloadInv'
  BY <1>1, <1>2, <1>13 DEF StartReload, TypeInv, TypeOK, StepsFitRequests, Job
<1>14. ASSUME NEW p \in Reloader, ScanFails(p) PROVE ReloadInv'
  BY <1>1, <1>2, <1>14 DEF ScanFails, FailReload, TypeInv, TypeOK, StepsFitRequests, Job
<1>15. ASSUME NEW p \in Reloader, LoadFails(p) PROVE ReloadInv'
  BY <1>1, <1>2, <1>15 DEF LoadFails, FailReload, TypeInv, TypeOK, StepsFitRequests, Job
<1>16. ASSUME NEW p \in Reloader, LoadDone(p) PROVE ReloadInv'
  BY <1>1, <1>2, <1>16 DEF LoadDone, TypeInv, TypeOK, StepsFitRequests, Job
<1>17. ASSUME NEW p \in Reloader, FinishReload(p) PROVE ReloadInv'
  BY <1>1, <1>2, <1>17 DEF FinishReload, TypeInv, TypeOK, StepsFitRequests, Job
<1>18. ASSUME NEW t \in Ticker, Tick(t) PROVE ReloadInv'
  BY <1>1, <1>2, <1>18 DEF Tick, TypeInv, TypeOK, StepsFitRequests, Job
<1>19. ASSUME NEW f \in File, Edit(f) PROVE ReloadInv'
  BY <1>1, <1>2, <1>19 DEF Edit, TypeInv, TypeOK, StepsFitRequests, Job
<1>20. ASSUME NEW p \in Reloader, Scan(p) PROVE ReloadInv'
  <2>1. WholeReading(p)' /\ InReload(p) /\ pc' = [pc EXCEPT ![p] = "load"] /\ request' = request
    BY <1>1, <1>20, ScanIsWhole DEF Scan, InReload
  <2>2. \A q \in Reloader : Loading(q)' => q = p
    BY <1>1, <2>1, OneLoads DEF TypeInv, TypeOK
  <2>3. pc'[p] = "load"
    BY <1>1, <2>1 DEF TypeInv, TypeOK
  <2>4. QED
    BY <2>1, <2>2, <2>3 DEF ReloadInv
<1>21. ASSUME NEW p \in Reloader, LoadFile(p) PROVE ReloadInv'
  <2>1. pc[p] = "load" /\ InReload(p) /\ pc' = pc /\ request' = request
    BY <1>21 DEF LoadFile, InReload
  <2>2. Loading(p) /\ \A q \in Reloader : Loading(q)' => q = p
    BY <1>1, <2>1, OneLoads
  <2>3. WholeReading(p)'
    BY <1>1, <1>21, <2>2, LoadFileIsWhole DEF ReloadInv
  <2>4. QED
    BY <2>1, <2>2, <2>3 DEF ReloadInv
<1>22. ASSUME NEW p \in Reloader, Swap(p) PROVE ReloadInv'
  <2>1. /\ pc[p] = "writing" /\ pc'[p] = "publish" /\ InReload(p) /\ request' = request
        /\ \A q \in Proc : q # p => pc'[q] = pc[q] \/ pc'[q] = "reading"
    BY <1>1, <1>22 DEF Swap, Unlock, InReload, TypeInv, TypeOK
  <2>2. ASSUME NEW q \in Reloader, Loading(q)' PROVE FALSE
    <3>1. q # p
      BY <2>1, <2>2
    <3>2. pc'[q] = pc[q]
      BY <2>1, <2>2, <3>1
    <3>3. Loading(q)
      BY <2>1, <2>2, <3>2
    <3>4. QED
      BY <1>1, <2>1, <3>1, <3>3, OneLoads
  <2>3. QED
    BY <2>2 DEF ReloadInv
<1>23. CASE ToggleDirectory
  BY <1>1, <1>2, <1>23 DEF ToggleDirectory
<1>24. CASE UNCHANGED vars
  BY <1>1, <1>2, <1>24 DEF vars
<1>25. QED
  BY <1>3, <1>4, <1>5, <1>6, <1>7, <1>8, <1>9, <1>10, <1>11, <1>12, <1>13, <1>14, <1>15,
     <1>16, <1>17, <1>18, <1>19, <1>20, <1>21, <1>22, <1>23, <1>24 DEF Next, Handle,
     Reload

LEMMA ToldStep == IInv /\ [Next]_vars => FreshInv'
<1> SUFFICES ASSUME IInv, [Next]_vars PROVE FreshInv'
  OBVIOUS
<1> DEFINE Kept == \A d \in Conn : Told(d)' => Told(d) /\ asked'[d] = asked[d]
<1>1. /\ TypeInv /\ LockInv /\ ReloadInv /\ FreshInv
      /\ \A f \in File : installed'[f] >= installed[f]
      /\ installed \in [File -> Nat] /\ asked \in [Conn -> [File -> Nat]]
  BY InstalledGrows DEF IInv, TypeInv, TypeOK
<1>2. ASSUME UNCHANGED installed, Kept PROVE FreshInv'
  BY <1>1, <1>2, SameTold
<1>3. ASSUME NEW p \in Reloader, Swap(p) PROVE FreshInv'
  <2>1. Loading(p) /\ pc[p] # "load"
    BY <1>3 DEF Swap, Loading, WriteSteps
  <2>2. job[p].todo = {} /\ WholeReading(p)
    BY <1>1, <2>1 DEF ReloadInv
  <2>3. installed' = job[p].seen /\ asked' = asked
    BY <1>3 DEF Swap
  <2>4. installed' \in [File -> Nat]
    BY <1>1, <2>3 DEF TypeInv, TypeOK
  <2>5. p \in Conn => \A f \in File : asked[p][f] <= installed'[f]
    BY <2>2, <2>3 DEF WholeReading
  <2>6. ASSUME NEW d \in Conn, d # p, Told(d)' PROVE Told(d)
    <3>1. pc \in [Proc -> Steps] /\ d \in Proc /\ request' = request
      BY <1>1, <1>3 DEF TypeInv, TypeOK, Proc, Swap
    <3>2. pc'[d] = pc[d] \/ pc'[d] = "reading"
      BY <1>3, <2>6, <3>1 DEF Swap, Unlock
    <3>3. p \in Conn => answer'[d] = answer[d]
      BY <1>1, <1>3, <2>6 DEF Swap, TypeInv, TypeOK
    <3>4. p \notin Conn => answer' = answer
      BY <1>3 DEF Swap
    <3>5. QED
      BY <2>6, <3>1, <3>2, <3>3, <3>4 DEF Told
  <2>7. ASSUME NEW d \in Conn, Told(d)', NEW f \in File PROVE installed'[f] >= asked'[d][f]
    <3>1. installed[f] \in Nat /\ installed'[f] \in Nat /\ asked[d][f] \in Nat
      BY <1>1, <2>4
    <3>2. CASE d = p
      BY <2>3, <2>5, <3>1, <3>2
    <3>3. CASE d # p
      <4>1. installed[f] >= asked[d][f]
        BY <1>1, <2>6, <2>7, <3>3 DEF FreshInv
      <4>2. QED
        BY <1>1, <2>3, <3>1, <4>1
    <3>4. QED
      BY <3>2, <3>3
  <2>8. QED
    BY <2>7 DEF FreshInv
<1> USE SetsAreDisjoint DEF Goto, Proc, Reloader, Told, Steps, WriteSteps, ReadSteps,
        ReloadSteps, locks, histories, files, engines
<1>4. ASSUME NEW c \in Conn, Accept(c) PROVE FreshInv'
  BY <1>1, <1>2, <1>4 DEF Accept, TypeInv, TypeOK, StepsFitRequests
<1>5. ASSUME NEW c \in Conn, Disconnect(c) PROVE FreshInv'
  BY <1>1, <1>2, <1>5 DEF Disconnect, TypeInv, TypeOK, StepsFitRequests
<1>6. ASSUME NEW c \in Conn, Add(c) PROVE FreshInv'
  BY <1>1, <1>2, <1>6 DEF Add, Unlock, Blocked, TypeInv, TypeOK, StepsFitRequests
<1>7. ASSUME NEW c \in Conn, NEW m \in Requests, Receive(c, m) PROVE FreshInv'
  BY <1>1, <1>2, <1>7 DEF Receive, TypeInv, TypeOK, StepsFitRequests
<1>8. ASSUME NEW h \in Http, NEW q \in Rule, HttpReceive(h, q) PROVE FreshInv'
  BY <1>1, <1>2, <1>8 DEF HttpReceive, TypeInv, TypeOK, StepsFitRequests
<1>9. ASSUME NEW p \in Conn \union Http, RLock(p) PROVE FreshInv'
  BY <1>1, <1>2, <1>9 DEF RLock, TypeInv, TypeOK, StepsFitRequests
<1>10. ASSUME NEW p \in Conn \union Http, Query(p) PROVE FreshInv'
  BY <1>1, <1>2, <1>10 DEF Query, TypeInv, TypeOK, StepsFitRequests
<1>11. ASSUME NEW p \in Conn \union Http, Respond(p) PROVE FreshInv'
  BY <1>1, <1>2, <1>11 DEF Respond, TypeInv, TypeOK, StepsFitRequests
<1>12. ASSUME NEW p \in Reloader, Announce(p) PROVE FreshInv'
  BY <1>1, <1>2, <1>12 DEF Announce, TypeInv, TypeOK, StepsFitRequests
<1>13. ASSUME NEW p \in Reloader, Lock(p) PROVE FreshInv'
  BY <1>1, <1>2, <1>13 DEF Lock, TypeInv, TypeOK, StepsFitRequests
<1>14. ASSUME NEW p \in Reloader, StartReload(p) PROVE FreshInv'
  BY <1>1, <1>2, <1>14 DEF StartReload, TypeInv, TypeOK, StepsFitRequests
<1>15. ASSUME NEW p \in Reloader, ScanFails(p) PROVE FreshInv'
  BY <1>1, <1>2, <1>15 DEF ScanFails, FailReload, TypeInv, TypeOK, StepsFitRequests
<1>16. ASSUME NEW p \in Reloader, Scan(p) PROVE FreshInv'
  BY <1>1, <1>2, <1>16 DEF Scan, TypeInv, TypeOK, StepsFitRequests
<1>17. ASSUME NEW p \in Reloader, LoadFile(p) PROVE FreshInv'
  BY <1>1, <1>2, <1>17 DEF LoadFile, TypeInv, TypeOK, StepsFitRequests
<1>18. ASSUME NEW p \in Reloader, LoadFails(p) PROVE FreshInv'
  BY <1>1, <1>2, <1>18 DEF LoadFails, FailReload, TypeInv, TypeOK, StepsFitRequests
<1>19. ASSUME NEW p \in Reloader, LoadDone(p) PROVE FreshInv'
  BY <1>1, <1>2, <1>19 DEF LoadDone, TypeInv, TypeOK, StepsFitRequests
<1>20. ASSUME NEW p \in Reloader, FinishReload(p) PROVE FreshInv'
  BY <1>1, <1>2, <1>20 DEF FinishReload, TypeInv, TypeOK, StepsFitRequests
<1>21. ASSUME NEW t \in Ticker, Tick(t) PROVE FreshInv'
  BY <1>1, <1>2, <1>21 DEF Tick, TypeInv, TypeOK, StepsFitRequests
<1>22. ASSUME NEW f \in File, Edit(f) PROVE FreshInv'
  BY <1>1, <1>2, <1>22 DEF Edit, TypeInv, TypeOK, StepsFitRequests
<1>23. CASE ToggleDirectory
  BY <1>1, <1>2, <1>23 DEF ToggleDirectory
<1>24. CASE UNCHANGED vars
  BY <1>1, <1>2, <1>24 DEF vars
<1>25. QED
  BY <1>3, <1>4, <1>5, <1>6, <1>7, <1>8, <1>9, <1>10, <1>11, <1>12, <1>13, <1>14, <1>15,
     <1>16, <1>17, <1>18, <1>19, <1>20, <1>21, <1>22, <1>23, <1>24 DEF Next, Handle,
     Reload

LEMMA ReloadInvariant == Spec => []IInv
<1>1. Init => IInv
  BY InitTyped, InitLocks, InitReloads DEF IInv
<1>2. IInv /\ [Next]_vars => IInv'
  BY TypeStep, LockStep, FilesStep, ReloadStep, ToldStep DEF IInv
<1>3. QED
  BY <1>1, <1>2, PTL DEF Spec

(* The rules in use come from one whole version of every file, none of     *)
(* which failed to parse, and from the ADDs since (server.go:418-455).     *)
THEOREM EngineStaysWhole == Spec => []EngineIsWhole
<1>1. IInv => EngineIsWhole
  BY DEF IInv, FilesInv, EngineIsWhole
<1>2. QED
  BY <1>1, ReloadInvariant, PTL

(* reloadMutex keeps a slow reload from undoing a later one, for any       *)
(* number of them (server.go:411).                                         *)
THEOREM ReloadsNeverGoBack == Spec => InstalledNeverOlder
<1>1. IInv /\ [Next]_vars => [\A f \in File : installed'[f] >= installed[f]]_vars
  BY InstalledGrows
<1>2. QED
  BY <1>1, ReloadInvariant, PTL DEF Spec, InstalledNeverOlder

(* A RELOAD that is answered OK has read every file after it was asked     *)
(* for, also when it waited for another reload (server.go:386-397).        *)
THEOREM ReloadsAreFresh == Spec => []ReloadIsFresh
<1>1. IInv => ReloadIsFresh
  BY DEF IInv, FreshInv, Told, ReloadIsFresh
<1>2. QED
  BY <1>1, ReloadInvariant, PTL

-----------------------------------------------------------------------------
(***************************************************************************)
(* The server implements RuleStore: to its TCP clients, the locks, the     *)
(* loops of the reloads and the HTTP handlers are not visible.             *)
(***************************************************************************)
(* The phase of a client in the abstract store.                            *)
LEMMA PhaseOfStep ==
  ASSUME NEW c \in Conn
  PROVE  /\ pc[c] \in {"closed", "recv"} => Phase(c) = "idle"
         /\ pc[c] \in {"publish", "respond"} => Phase(c) = "done"
         /\ pc[c] \notin {"closed", "recv", "publish", "respond"} => Phase(c) = "asked"
BY DEF Phase

LEMMA PhaseOfNextStep ==
  ASSUME NEW c \in Conn
  PROVE  /\ pc'[c] \in {"closed", "recv"} => Phase(c)' = "idle"
         /\ pc'[c] \in {"publish", "respond"} => Phase(c)' = "done"
         /\ pc'[c] \notin {"closed", "recv", "publish", "respond"} => Phase(c)' = "asked"
BY DEF Phase

(* Until a request is decided there is no answer to it.                    *)
NoAnswerYet == \A c \in Conn : pc[c] \notin {"publish", "respond"} => answer[c] = "none"

LEMMA InitAnswers == Init => NoAnswerYet
BY DEF Init, NoAnswerYet

LEMMA AnswerStep == TypeInv /\ NoAnswerYet /\ [Next]_vars => NoAnswerYet'
<1> SUFFICES ASSUME TypeInv, NoAnswerYet, [Next]_vars PROVE NoAnswerYet'
  OBVIOUS
<1> USE SetsAreDisjoint DEF TypeInv, TypeOK, NoAnswerYet, Goto, Proc, Reloader
<1>1. ASSUME NEW c \in Conn, Accept(c) PROVE NoAnswerYet'
  BY <1>1 DEF Accept
<1>2. ASSUME NEW c \in Conn, Disconnect(c) PROVE NoAnswerYet'
  BY <1>2 DEF Disconnect
<1>3. ASSUME NEW c \in Conn, Add(c) PROVE NoAnswerYet'
  BY <1>3 DEF Add, Unlock, Blocked
<1>4. ASSUME NEW c \in Conn, NEW m \in Requests, Receive(c, m) PROVE NoAnswerYet'
  <2>1. /\ pc[c] = "recv"
        /\ \A d \in Conn : d # c => pc'[d] = pc[d] /\ answer'[d] = answer[d]
    BY <1>4 DEF Receive
  <2>2. pc'[c] # "respond" => answer'[c] = "none"
    <3>1. CASE m.op # "RELOAD" /\ m.arg = Malformed
      BY <1>4, <3>1 DEF Receive
    <3>2. CASE ~(m.op # "RELOAD" /\ m.arg = Malformed)
      BY <1>4, <3>2 DEF Receive
    <3>3. QED
      BY <3>1, <3>2
  <2>3. QED
    BY <2>1, <2>2
<1>5. ASSUME NEW h \in Http, NEW q \in Rule, HttpReceive(h, q) PROVE NoAnswerYet'
  BY <1>5 DEF HttpReceive
<1>6. ASSUME NEW p \in Conn \union Http, RLock(p) PROVE NoAnswerYet'
  <2>1. pc[p] = "rlock" /\ pc' \in {[pc EXCEPT ![p] = "reading"], [pc EXCEPT ![p] = "blocked"]}
        /\ answer' = answer
    BY <1>6 DEF RLock
  <2>2. QED
    BY <2>1
<1>7. ASSUME NEW p \in Conn \union Http, Query(p) PROVE NoAnswerYet'
  BY <1>7 DEF Query
<1>8. ASSUME NEW p \in Conn \union Http, Respond(p) PROVE NoAnswerYet'
  BY <1>8 DEF Respond
<1>9. ASSUME NEW p \in Reloader, Announce(p) PROVE NoAnswerYet'
  BY <1>9 DEF Announce
<1>10. ASSUME NEW p \in Reloader, Lock(p) PROVE NoAnswerYet'
  BY <1>10 DEF Lock
<1>11. ASSUME NEW p \in Reloader, StartReload(p) PROVE NoAnswerYet'
  BY <1>11 DEF StartReload
<1>12. ASSUME NEW p \in Reloader, ScanFails(p) PROVE NoAnswerYet'
  BY <1>12 DEF ScanFails, FailReload
<1>13. ASSUME NEW p \in Reloader, Scan(p) PROVE NoAnswerYet'
  BY <1>13 DEF Scan
<1>14. ASSUME NEW p \in Reloader, LoadFile(p) PROVE NoAnswerYet'
  BY <1>14 DEF LoadFile
<1>15. ASSUME NEW p \in Reloader, LoadFails(p) PROVE NoAnswerYet'
  BY <1>15 DEF LoadFails, FailReload
<1>16. ASSUME NEW p \in Reloader, LoadDone(p) PROVE NoAnswerYet'
  BY <1>16 DEF LoadDone
<1>17. ASSUME NEW p \in Reloader, Swap(p) PROVE NoAnswerYet'
  BY <1>17 DEF Swap, Unlock, Blocked
<1>18. ASSUME NEW p \in Reloader, FinishReload(p) PROVE NoAnswerYet'
  BY <1>18 DEF FinishReload
<1>19. ASSUME NEW t \in Ticker, Tick(t) PROVE NoAnswerYet'
  BY <1>19 DEF Tick
<1>20. ASSUME NEW f \in File, Edit(f) PROVE NoAnswerYet'
  BY <1>20 DEF Edit
<1>21. CASE ToggleDirectory
  BY <1>21 DEF ToggleDirectory
<1>22. CASE UNCHANGED vars
  BY <1>22 DEF vars
<1>23. QED
  BY <1>1, <1>2, <1>3, <1>4, <1>5, <1>6, <1>7, <1>8, <1>9, <1>10, <1>11, <1>12, <1>13,
     <1>14, <1>15, <1>16, <1>17, <1>18, <1>19, <1>20, <1>21, <1>22
  DEF Next, Handle, Reload

LEMMA AnswerInvariant == Spec => [](TypeInv /\ NoAnswerYet)
BY InitTyped, InitAnswers, TypeStep, AnswerStep, PTL DEF Spec

-----------------------------------------------------------------------------
(***************************************************************************)
(* The steps of the server, as steps of the store.                         *)
(***************************************************************************)
StorePhase   == [c \in Conn |-> Phase(c)]
StoreRequest == [c \in Conn |-> request[c]]
StoreAnswer  == [c \in Conn |-> answer[c]]

(* What no client sees.                                                    *)
LEMMA Invisible ==
  ASSUME engine' = engine,
         \A c \in Conn : Phase(c)' = Phase(c) /\ request'[c] = request[c] /\ answer'[c] = answer[c]
  PROVE  UNCHANGED Store!vars
<1>1. UNCHANGED <<StorePhase, StoreRequest, StoreAnswer>>
  BY DEF StorePhase, StoreRequest, StoreAnswer
<1>2. QED
  BY <1>1 DEF Store!vars, StorePhase, StoreRequest, StoreAnswer

Others(c) ==
  \A d \in Conn : d # c =>
    Phase(d)' = Phase(d) /\ request'[d] = request[d] /\ answer'[d] = answer[d]

(* What one client sees.                                                   *)
LEMMA OnlyOne ==
  ASSUME NEW c \in Conn, Others(c)
  PROVE  /\ StorePhase' = [StorePhase EXCEPT ![c] = Phase(c)']
         /\ StoreRequest' = [StoreRequest EXCEPT ![c] = request'[c]]
         /\ StoreAnswer' = [StoreAnswer EXCEPT ![c] = answer'[c]]
BY DEF StorePhase, StoreRequest, StoreAnswer, Others

(* A request of c that takes effect.                                       *)
LEMMA TakesEffect ==
  ASSUME NEW c \in Conn, NEW op, NEW result, Others(c),
         Phase(c) = "asked", Phase(c)' = "done", request[c].op = op, request'[c] = request[c],
         answer'[c] = result
  PROVE  Store!Effect(c, op, result)
<1>1. /\ StorePhase[c] = "asked" /\ StoreRequest[c] = request[c]
      /\ StorePhase' = [StorePhase EXCEPT ![c] = "done"]
      /\ StoreAnswer' = [StoreAnswer EXCEPT ![c] = result]
  BY OnlyOne DEF StorePhase, StoreRequest
<1>2. StoreRequest' = StoreRequest
  BY DEF StoreRequest, Others
<1>3. QED
  BY <1>1, <1>2 DEF Store!Effect, StorePhase, StoreRequest, StoreAnswer

(* Releasing the mutex moves other clients within their phases only.       *)
LEMMA UnlockIsInvisible ==
  ASSUME TypeInv, NEW p \in Reloader, NEW there, Unlock(p, there), NEW c \in Conn, c # p
  PROVE  Phase(c)' = Phase(c)
<1>1. pc'[c] = IF c \in Blocked THEN "reading" ELSE pc[c]
  BY DEF Unlock, Proc
<1>2. pc'[c] = pc[c] \/ (pc[c] = "blocked" /\ pc'[c] = "reading")
  BY <1>1 DEF Blocked
<1>3. CASE pc'[c] = pc[c]
  BY <1>3, PhaseOfStep, PhaseOfNextStep
<1>4. CASE pc[c] = "blocked" /\ pc'[c] = "reading"
  BY <1>4, PhaseOfStep, PhaseOfNextStep
<1>5. QED
  BY <1>2, <1>3, <1>4

LEMMA InitRefines == Init => Store!Init
<1> SUFFICES ASSUME Init PROVE Store!Init
  OBVIOUS
<1>1. engine \in SUBSET Rule
  BY InitTyped DEF TypeInv, TypeOK
<1>2. \A c \in Conn : Phase(c) = "idle"
  BY PhaseOfStep DEF Init, Proc
<1>3. QED
  BY <1>1, <1>2 DEF Store!Init, Store!NoRequest, Init, NoRequest

Waiting == {"rlock", "blocked", "reading", "wlock", "wwait", "writing", "mutex", "scan", "load"}

\* A step from one program counter to another that no client sees.
Quiet(here, there) ==
  \/ here \in Waiting /\ there \in Waiting
  \/ here \in {"closed", "recv"} /\ there \in {"closed", "recv"}
  \/ here = "publish" /\ there = "respond"

(* A goroutine moves on within a phase, and changes nothing else a client  *)
(* sees.                                                                   *)
LEMMA QuietStep ==
  ASSUME TypeInv, NEW p \in Proc, NEW there, pc' = [pc EXCEPT ![p] = there],
         p \in Conn => Quiet(pc[p], there),
         engine' = engine, request' = request, answer' = answer
  PROVE  UNCHANGED Store!vars
<1>1. ASSUME NEW c \in Conn PROVE Phase(c)' = Phase(c)
  <2>1. pc'[c] = IF c = p THEN there ELSE pc[c]
    BY DEF TypeInv, TypeOK, Proc
  <2>2. pc'[c] = pc[c] \/ Quiet(pc[c], pc'[c])
    BY <2>1
  <2>3. QED
    BY <2>2, PhaseOfStep, PhaseOfNextStep DEF Quiet, Waiting
<1>2. QED
  BY <1>1, Invisible

(* What goroutines other than the connections do, as the clients see it.   *)
LEMMA NotAConnection ==
  ASSUME NEW p \in Proc \ Conn, TypeInv,
         \A c \in Conn : pc'[c] = pc[c] /\ request'[c] = request[c] /\ answer'[c] = answer[c]
  PROVE  UNCHANGED <<StorePhase, StoreRequest, StoreAnswer>>
<1>1. \A c \in Conn : Phase(c)' = Phase(c)
  BY PhaseOfStep, PhaseOfNextStep
<1>2. QED
  BY <1>1 DEF StorePhase, StoreRequest, StoreAnswer

LEMMA ReceiveRefines ==
  ASSUME TypeInv, NoAnswerYet, NEW c \in Conn, NEW m \in Requests, Receive(c, m)
  PROVE  Store!Ask(c, m) \/ Store!Dismiss(c, m)
<1>1. /\ pc[c] = "recv" /\ engine' = engine
      /\ \A d \in Conn : d # c => pc'[d] = pc[d] /\ request'[d] = request[d]
                                  /\ answer'[d] = answer[d]
      /\ request'[c] = m /\ answer[c] = "none"
  BY SetsAreDisjoint DEF Receive, Goto, TypeInv, TypeOK, NoAnswerYet, Proc, engines
<1>2. Others(c)
  BY <1>1, PhaseOfStep, PhaseOfNextStep DEF Others
<1>3. /\ Phase(c) = "idle" /\ StorePhase[c] = "idle"
      /\ StoreRequest' = [StoreRequest EXCEPT ![c] = m]
  BY <1>1, <1>2, PhaseOfStep, OnlyOne DEF StorePhase
<1>4. CASE m.op # "RELOAD" /\ m.arg = Malformed
  <2>1. pc'[c] = "respond"
    BY <1>4 DEF Receive, Goto, TypeInv, TypeOK, Proc
  <2>2. answer'[c] = CASE m.op = "LOGOUT" -> "bye"
                       [] m.op = "other"  -> "unknown"
                       [] OTHER           -> "error"
    BY <1>4 DEF Receive, TypeInv, TypeOK
  <2>3. /\ StorePhase' = [StorePhase EXCEPT ![c] = "done"]
        /\ StoreAnswer' = [StoreAnswer EXCEPT ![c] = answer'[c]]
    BY <1>2, <2>1, OnlyOne, PhaseOfNextStep
  <2>4. Store!Dismiss(c, m)
    BY <1>1, <1>3, <1>4, <2>2, <2>3 DEF Store!Dismiss, StorePhase, StoreRequest, StoreAnswer
  <2>5. QED
    BY <2>4
<1>5. CASE ~(m.op # "RELOAD" /\ m.arg = Malformed)
  <2>1. pc'[c] \in {"mutex", "rlock", "wlock"}
    BY <1>5 DEF Receive, Goto, TypeInv, TypeOK, Proc
  <2>2. answer'[c] = "none"
    BY <1>5 DEF Receive, TypeInv, TypeOK
  <2>3. StorePhase' = [StorePhase EXCEPT ![c] = "asked"]
    BY <1>2, <2>1, OnlyOne, PhaseOfNextStep
  <2>4. StoreAnswer' = StoreAnswer
    BY <1>1, <2>2 DEF StoreAnswer
  <2>5. Store!Ask(c, m)
    BY <1>1, <1>3, <2>3, <2>4 DEF Store!Ask, StorePhase, StoreRequest, StoreAnswer
  <2>6. QED
    BY <2>5
<1>6. QED
  BY <1>4, <1>5

LEMMA QueryRefines ==
  ASSUME TypeInv, NEW c \in Conn, Query(c)
  PROVE  Store!Query(c)
<1> DEFINE granted == \E r \in engine : Leq(request[c].arg, r)
<1>1. c \notin Http
  BY SetsAreDisjoint
<1>2. /\ pc[c] = "reading" /\ pc'[c] = "respond"
      /\ engine' = engine /\ request' = request
      /\ \A d \in Conn : d # c => pc'[d] = pc[d] /\ answer'[d] = answer[d]
  BY DEF Query, Goto, TypeInv, TypeOK, Proc, engines
<1>3. answer'[c] = IF granted THEN "ok" ELSE "denied"
  BY <1>1 DEF Query, TypeInv, TypeOK
<1>4. Others(c)
  BY <1>2, PhaseOfStep, PhaseOfNextStep DEF Others
<1>5. Phase(c) = "asked" /\ Phase(c)' = "done" /\ request[c].op = "QUERY"
  BY <1>2, PhaseOfStep, PhaseOfNextStep DEF TypeInv, StepsFitRequests, ReadSteps
<1>6. \A result : answer'[c] = result => Store!Effect(c, "QUERY", result)
  BY <1>2, <1>4, <1>5, TakesEffect
<1>7. [d \in Conn |-> request[d]][c] = request[c]
  OBVIOUS
<1>8. CASE granted
  <2>1. Store!Effect(c, "QUERY", "ok")
    BY <1>3, <1>6, <1>8
  <2>2. QED
    BY <1>2, <1>7, <1>8, <2>1 DEF Store!Query, Store!Effect
<1>9. CASE ~granted
  <2>1. Store!Effect(c, "QUERY", "denied")
    BY <1>3, <1>6, <1>9
  <2>2. QED
    BY <1>2, <1>7, <1>9, <2>1 DEF Store!Query, Store!Effect
<1>10. QED
  BY <1>8, <1>9

LEMMA AddRefines ==
  ASSUME TypeInv, NEW c \in Conn, Add(c)
  PROVE  Store!Add(c)
<1>1. /\ pc[c] = "writing" /\ pc'[c] = "respond" /\ c \in Reloader
      /\ engine' = engine \union {request[c].arg} /\ request' = request
      /\ request[c].op = "ADD" /\ answer'[c] = "ok"
      /\ \A d \in Conn : d # c => answer'[d] = answer[d]
  BY DEF Add, Unlock, TypeInv, TypeOK, Proc, Reloader
<1>2. Unlock(c, "respond")
  BY DEF Add
<1>3. Others(c)
  BY <1>1, <1>2, UnlockIsInvisible DEF Others
<1>4. Phase(c) = "asked" /\ Phase(c)' = "done"
  BY <1>1, PhaseOfStep, PhaseOfNextStep
<1>5. Store!Effect(c, "ADD", "ok")
  BY <1>1, <1>3, <1>4, TakesEffect
<1>6. StoreRequest[c] = request[c]
  BY DEF StoreRequest
<1>7. QED
  BY <1>1, <1>5, <1>6 DEF Store!Add, StoreRequest

LEMMA RespondRefines ==
  ASSUME TypeInv, NEW c \in Conn, Respond(c)
  PROVE  Store!Respond(c)
<1>1. /\ pc[c] = "respond" /\ pc'[c] \in {"recv", "closed"} /\ engine' = engine
      /\ \A d \in Conn : d # c => pc'[d] = pc[d] /\ request'[d] = request[d]
                                  /\ answer'[d] = answer[d]
      /\ request'[c] = NoRequest /\ answer'[c] = "none"
  BY DEF Respond, Goto, TypeInv, TypeOK, Proc, engines
<1>2. Others(c)
  BY <1>1, PhaseOfStep, PhaseOfNextStep DEF Others
<1>3. Phase(c) = "done" /\ Phase(c)' = "idle"
  BY <1>1, PhaseOfStep, PhaseOfNextStep
<1>4. /\ StorePhase[c] = "done"
      /\ StorePhase' = [StorePhase EXCEPT ![c] = "idle"]
      /\ StoreRequest' = [StoreRequest EXCEPT ![c] = NoRequest]
      /\ StoreAnswer' = [StoreAnswer EXCEPT ![c] = "none"]
  BY <1>1, <1>2, <1>3, OnlyOne DEF StorePhase
<1>5. QED
  BY <1>1, <1>4 DEF Store!Respond, Store!NoRequest, NoRequest, StorePhase, StoreRequest,
     StoreAnswer

(* A reload that fails, by a client or by the ticker.                      *)
LEMMA FailureRefines ==
  ASSUME TypeInv, NEW p \in Reloader, pc[p] \in {"scan", "load"}, FailReload(p),
         UNCHANGED <<engine, request>>
  PROVE  (Store!ReloadFails(p) /\ p \in Conn) \/ UNCHANGED Store!vars
<1>1. CASE p \in Conn
  <2>1. /\ pc'[p] = "respond" /\ answer'[p] = "error"
        /\ \A d \in Conn : d # p => pc'[d] = pc[d] /\ answer'[d] = answer[d]
    BY <1>1 DEF FailReload, TypeInv, TypeOK, Proc
  <2>2. Others(p)
    BY <2>1, PhaseOfStep, PhaseOfNextStep DEF Others
  <2>3. Phase(p) = "asked" /\ Phase(p)' = "done" /\ request[p].op = "RELOAD"
    BY <1>1, <2>1, PhaseOfStep, PhaseOfNextStep DEF TypeInv, StepsFitRequests, ReloadSteps
  <2>4. Store!Effect(p, "RELOAD", "error")
    BY <1>1, <2>1, <2>2, <2>3, TakesEffect
  <2>5. QED
    BY <1>1, <2>4 DEF Store!ReloadFails
<1>2. CASE p \notin Conn
  <2>1. answer' = answer /\ pc' = [pc EXCEPT ![p] = "recv"] /\ p \in Proc
    BY <1>2 DEF FailReload, Proc, Reloader
  <2>2. QED
    BY <1>2, <2>1, QuietStep
<1>3. QED
  BY <1>1, <1>2

LEMMA SwapRefines ==
  ASSUME TypeInv, NEW p \in Reloader, Swap(p)
  PROVE  (Store!Reload(p) /\ p \in Conn) \/ Store!AutoReload
<1>1. engine' \in SUBSET Rule /\ request' = request /\ Unlock(p, "publish")
  BY DEF Swap, TypeInv, TypeOK
<1>2. \A c \in Conn : c # p => Phase(c)' = Phase(c) /\ request'[c] = request[c]
  BY <1>1, UnlockIsInvisible
<1>3. CASE p \in Conn
  <2>1. /\ pc[p] = "writing" /\ pc'[p] = "publish" /\ answer'[p] = "ok"
        /\ request[p].op = "RELOAD"
        /\ \A d \in Conn : d # p => answer'[d] = answer[d]
    BY <1>3 DEF Swap, Unlock, TypeInv, TypeOK, Proc
  <2>2. Others(p)
    BY <1>2, <2>1 DEF Others
  <2>3. Phase(p) = "asked" /\ Phase(p)' = "done"
    BY <1>3, <2>1, PhaseOfStep, PhaseOfNextStep
  <2>4. Store!Effect(p, "RELOAD", "ok")
    BY <1>1, <1>3, <2>1, <2>2, <2>3, TakesEffect
  <2>5. QED
    BY <1>1, <1>3, <2>4 DEF Store!Reload
<1>4. CASE p \notin Conn
  <2>1. answer' = answer
    BY <1>4 DEF Swap
  <2>2. UNCHANGED <<StorePhase, StoreRequest, StoreAnswer>>
    BY <1>2, <1>4, <2>1 DEF StorePhase, StoreRequest, StoreAnswer
  <2>3. QED
    BY <1>1, <2>2 DEF Store!AutoReload, StorePhase, StoreRequest, StoreAnswer
<1>5. QED
  BY <1>3, <1>4

(* Every step of the server is a step of the store, or none.               *)
LEMMA StepRefines == TypeInv /\ NoAnswerYet /\ [Next]_vars => [Store!Next]_Store!vars
<1> SUFFICES ASSUME TypeInv, NoAnswerYet, [Next]_vars PROVE Store!Next \/ UNCHANGED Store!vars
  OBVIOUS
<1> USE DEF Goto
<1>0. Conn \subseteq Proc /\ Http \subseteq Proc /\ Reloader \subseteq Proc /\ Ticker \subseteq Proc
  BY DEF Proc, Reloader
<1>1. ASSUME NEW c \in Conn, Accept(c) PROVE UNCHANGED Store!vars
  BY <1>0, <1>1, QuietStep DEF Accept, engines, Quiet
<1>2. ASSUME NEW c \in Conn, Disconnect(c) PROVE UNCHANGED Store!vars
  BY <1>0, <1>2, QuietStep DEF Disconnect, engines, Quiet
<1>3. ASSUME NEW c \in Conn, Add(c) PROVE Store!Next
  BY <1>3, AddRefines DEF Store!Next
<1>4. ASSUME NEW c \in Conn, NEW m \in Requests, Receive(c, m) PROVE Store!Next
  BY <1>4, ReceiveRefines DEF Store!Next
<1>5. ASSUME NEW h \in Http, NEW q \in Rule, HttpReceive(h, q) PROVE UNCHANGED Store!vars
  <2>1. engine' = engine
        /\ \A c \in Conn : pc'[c] = pc[c] /\ request'[c] = request[c] /\ answer'[c] = answer[c]
    BY <1>5, SetsAreDisjoint DEF HttpReceive, engines, TypeInv, TypeOK, Proc
  <2>2. \A c \in Conn : Phase(c)' = Phase(c)
    BY <2>1, PhaseOfStep, PhaseOfNextStep
  <2>3. QED
    BY <2>1, <2>2, Invisible
<1>6. ASSUME NEW p \in Conn \union Http, RLock(p) PROVE UNCHANGED Store!vars
  <2>1. \/ pc[p] = "rlock" /\ pc' = [pc EXCEPT ![p] = "reading"]
        \/ pc[p] = "rlock" /\ pc' = [pc EXCEPT ![p] = "blocked"]
    BY <1>6 DEF RLock
  <2>2. engine' = engine /\ request' = request /\ answer' = answer
    BY <1>6 DEF RLock, engines
  <2>3. QED
    BY <1>0, <2>1, <2>2, QuietStep DEF Quiet, Waiting
<1>7. ASSUME NEW p \in Conn \union Http, Query(p) PROVE Store!Next \/ UNCHANGED Store!vars
  <2>1. CASE p \in Conn
    BY <1>7, <2>1, QueryRefines DEF Store!Next
  <2>2. CASE p \in Http
    <3>1. engine' = engine
          /\ \A c \in Conn : pc'[c] = pc[c] /\ request'[c] = request[c]
                             /\ answer'[c] = answer[c]
      BY <1>7, <2>2, SetsAreDisjoint DEF Query, engines, TypeInv, TypeOK, Proc
    <3>2. \A c \in Conn : Phase(c)' = Phase(c)
      BY <3>1, PhaseOfStep, PhaseOfNextStep
    <3>3. QED
      BY <3>1, <3>2, Invisible
  <2>3. QED
    BY <2>1, <2>2
<1>8. ASSUME NEW p \in Conn \union Http, Respond(p) PROVE Store!Next \/ UNCHANGED Store!vars
  <2>1. CASE p \in Conn
    BY <1>8, <2>1, RespondRefines DEF Store!Next
  <2>2. CASE p \in Http
    <3>1. engine' = engine
          /\ \A c \in Conn : pc'[c] = pc[c] /\ request'[c] = request[c]
                             /\ answer'[c] = answer[c]
      BY <1>8, <2>2, SetsAreDisjoint DEF Respond, engines, TypeInv, TypeOK, Proc
    <3>2. \A c \in Conn : Phase(c)' = Phase(c)
      BY <3>1, PhaseOfStep, PhaseOfNextStep
    <3>3. QED
      BY <3>1, <3>2, Invisible
  <2>3. QED
    BY <2>1, <2>2
<1>9. ASSUME NEW p \in Reloader, Announce(p) PROVE UNCHANGED Store!vars
  BY <1>0, <1>9, QuietStep DEF Announce, engines, Quiet, Waiting
<1>10. ASSUME NEW p \in Reloader, Lock(p) PROVE UNCHANGED Store!vars
  BY <1>0, <1>10, QuietStep DEF Lock, engines, Quiet, Waiting
<1>11. ASSUME NEW p \in Reloader, StartReload(p) PROVE UNCHANGED Store!vars
  BY <1>0, <1>11, QuietStep DEF StartReload, engines, Quiet, Waiting
<1>12. ASSUME NEW p \in Reloader, ScanFails(p) PROVE Store!Next \/ UNCHANGED Store!vars
  BY <1>12, FailureRefines DEF ScanFails, engines, Store!Next
<1>13. ASSUME NEW p \in Reloader, Scan(p) PROVE UNCHANGED Store!vars
  BY <1>0, <1>13, QuietStep DEF Scan, engines, Quiet, Waiting
<1>14. ASSUME NEW p \in Reloader, LoadFile(p) PROVE UNCHANGED Store!vars
  <2>1. pc' = pc /\ engine' = engine /\ request' = request /\ answer' = answer
    BY <1>14 DEF LoadFile, engines
  <2>2. \A c \in Conn : Phase(c)' = Phase(c)
    BY <2>1, PhaseOfStep, PhaseOfNextStep
  <2>3. QED
    BY <2>1, <2>2, Invisible
<1>15. ASSUME NEW p \in Reloader, LoadFails(p) PROVE Store!Next \/ UNCHANGED Store!vars
  BY <1>15, FailureRefines DEF LoadFails, engines, Store!Next
<1>16. ASSUME NEW p \in Reloader, LoadDone(p) PROVE UNCHANGED Store!vars
  BY <1>0, <1>16, QuietStep DEF LoadDone, engines, Quiet, Waiting
<1>17. ASSUME NEW p \in Reloader, Swap(p) PROVE Store!Next
  BY <1>17, SwapRefines DEF Store!Next
<1>18. ASSUME NEW p \in Reloader, FinishReload(p) PROVE UNCHANGED Store!vars
  BY <1>0, <1>18, QuietStep DEF FinishReload, engines, Quiet
<1>19. ASSUME NEW t \in Ticker, Tick(t) PROVE UNCHANGED Store!vars
  BY <1>0, <1>19, QuietStep, SetsAreDisjoint DEF Tick, engines
<1>20. ASSUME pc' = pc, engine' = engine, request' = request, answer' = answer
       PROVE  UNCHANGED Store!vars
  <2>1. \A c \in Conn : Phase(c)' = Phase(c)
    BY <1>20, PhaseOfStep, PhaseOfNextStep
  <2>2. QED
    BY <1>20, <2>1, Invisible
<1>21. ASSUME NEW f \in File, Edit(f) PROVE UNCHANGED Store!vars
  BY <1>20, <1>21 DEF Edit, engines
<1>22. CASE ToggleDirectory
  BY <1>20, <1>22 DEF ToggleDirectory, engines
<1>23. CASE UNCHANGED vars
  BY <1>20, <1>23 DEF vars, engines
<1>24. QED
  BY <1>1, <1>2, <1>3, <1>4, <1>5, <1>6, <1>7, <1>8, <1>9, <1>10, <1>11, <1>12, <1>13,
     <1>14, <1>15, <1>16, <1>17, <1>18, <1>19, <1>21, <1>22, <1>23
  DEF Next, Handle, Reload

(* ImplementsRuleStore, of the request handlers and reloadRules: for its   *)
(* TCP clients the server is one rule set on which every request acts at   *)
(* one moment.                                                             *)
THEOREM ServerImplementsStore == Spec => ImplementsRuleStore
BY AnswerInvariant, InitRefines, StepRefines, PTL DEF Spec, Store!Spec, ImplementsRuleStore

-----------------------------------------------------------------------------
(***************************************************************************)
(* The counters and the gauge.  The counted server is a Server, so that    *)
(* everything proved of Server holds of it as well.                        *)
(***************************************************************************)
LEMMA CountedStepIsStep == [MetricsNext]_metricsVars => [Next]_vars
<1>1. ASSUME NEW c \in Conn, CountedQuery(c) PROVE Next
  BY <1>1 DEF CountedQuery, Next
<1>2. ASSUME NEW c \in Conn, NEW m \in Requests, CountedReceive(c, m) PROVE Next
  BY <1>2 DEF CountedReceive, Next, Handle
<1>3. ASSUME NEW t \in Ticker, CountedTick(t) PROVE Next
  BY <1>3 DEF CountedTick, Next
<1>4. ASSUME NEW p \in Reloader, CountedFailure(p) PROVE Next
  BY <1>4 DEF CountedFailure, Next, Reload
<1>5. ASSUME NEW p \in Reloader, CountedFinish(p) PROVE Next
  BY <1>5 DEF CountedFinish, Next, Reload
<1>6. ASSUME Uncounted PROVE Next
  BY <1>6 DEF Uncounted, Next, Handle, Reload
<1>7. QED
  BY <1>1, <1>2, <1>3, <1>4, <1>5, <1>6 DEF MetricsNext, metricsVars

LEMMA CountedServerIsServer == MetricsSpec => Spec
BY CountedStepIsStep, PTL DEF MetricsSpec, MetricsInit, Spec

LEMMA CountedReloads == MetricsSpec => []IInv
BY CountedServerIsServer, ReloadInvariant, PTL

-----------------------------------------------------------------------------
(***************************************************************************)
(* Queries and decisions.                                                  *)
(***************************************************************************)
Counter == {"queriesTotal", "queriesOK", "queriesDenied", "addsTotal", "reloadsTotal",
            "reloadsFailed", "rulesLoaded"}

QueryCounters == /\ DOMAIN metrics = Counter
                 /\ metrics.queriesTotal \in Nat
                 /\ metrics.queriesOK \in Nat
                 /\ metrics.queriesDenied \in Nat

DecidedInv == QueryCounters /\ DecisionsAreQueries

LEMMA DecidingIsFinite == IsFiniteSet(Deciding) /\ Cardinality(Deciding) \in Nat
<1>1. Deciding \in SUBSET Conn
  BY DEF Deciding
<1>2. IsFiniteSet(Deciding)
  BY <1>1, ConnIsFinite, FS_Subset
<1>3. QED
  BY <1>2, FS_CardinalityType

LEMMA DecidingIsFiniteNext == IsFiniteSet(Deciding') /\ Cardinality(Deciding') \in Nat
<1>1. Deciding' \in SUBSET Conn
  BY DEF Deciding
<1>2. IsFiniteSet(Deciding')
  BY <1>1, ConnIsFinite, FS_Subset
<1>3. QED
  BY <1>2, FS_CardinalityType

LEMMA FewerDecisions ==
  ASSUME Deciding' \subseteq Deciding
  PROVE  Cardinality(Deciding') <= Cardinality(Deciding)
BY DecidingIsFinite, FS_Subset

(* A step that counts neither a query nor a decision begins no query.      *)
LEMMA NoQueryBegins ==
  ASSUME TypeInv,
         \/ Uncounted
         \/ \E t \in Ticker : CountedTick(t)
         \/ \E p \in Reloader : CountedFailure(p) \/ CountedFinish(p)
         \/ UNCHANGED metricsVars
  PROVE  Deciding' \subseteq Deciding
<1> USE SetsAreDisjoint DEF TypeInv, TypeOK, Deciding, InFlight, Goto, Proc, Reloader
<1>1. ASSUME NEW c \in Conn, Accept(c) \/ Disconnect(c) PROVE Deciding' \subseteq Deciding
  BY <1>1 DEF Accept, Disconnect
<1>2. ASSUME NEW c \in Conn, Add(c) PROVE Deciding' \subseteq Deciding
  BY <1>2 DEF Add, Unlock, Blocked
<1>3. ASSUME NEW h \in Http, Query(h) PROVE Deciding' \subseteq Deciding
  BY <1>3 DEF Query
<1>4. ASSUME NEW h \in Http, NEW q \in Rule, HttpReceive(h, q)
      PROVE  Deciding' \subseteq Deciding
  BY <1>4 DEF HttpReceive
<1>5. ASSUME NEW p \in Conn \union Http, RLock(p) PROVE Deciding' \subseteq Deciding
  BY <1>5 DEF RLock
<1>6. ASSUME NEW p \in Conn \union Http, Respond(p) PROVE Deciding' \subseteq Deciding
  BY <1>6 DEF Respond, NoRequest
<1>7. ASSUME NEW p \in Reloader, Announce(p) \/ Lock(p) \/ StartReload(p)
      PROVE  Deciding' \subseteq Deciding
  BY <1>7 DEF Announce, Lock, StartReload
<1>8. ASSUME NEW p \in Reloader, Scan(p) \/ LoadFile(p) \/ LoadDone(p)
      PROVE  Deciding' \subseteq Deciding
  BY <1>8 DEF Scan, LoadFile, LoadDone
<1>9. ASSUME NEW p \in Reloader, Swap(p) PROVE Deciding' \subseteq Deciding
  BY <1>9 DEF Swap, Unlock, Blocked
<1>10. ASSUME NEW p \in Reloader, CountedFailure(p) \/ CountedFinish(p)
       PROVE  Deciding' \subseteq Deciding
  BY <1>10 DEF CountedFailure, CountedFinish, ScanFails, LoadFails, FailReload, FinishReload
<1>11. ASSUME NEW t \in Ticker, CountedTick(t) PROVE Deciding' \subseteq Deciding
  BY <1>11 DEF CountedTick, Tick
<1>12. CASE UNCHANGED <<pc, request>>
  BY <1>12
<1>13. (\E f \in File : Edit(f)) \/ ToggleDirectory \/ UNCHANGED metricsVars
         => UNCHANGED <<pc, request>>
  BY DEF Edit, ToggleDirectory, metricsVars, vars
<1>14. QED
  BY <1>1, <1>2, <1>3, <1>4, <1>5, <1>6, <1>7, <1>8, <1>9, <1>10, <1>11, <1>12, <1>13
     DEF Uncounted

LEMMA DecidedInit == MetricsInit => DecidedInv
<1> SUFFICES ASSUME MetricsInit PROVE DecidedInv
  OBVIOUS
<1>1. /\ metrics = [NoMetrics EXCEPT !.rulesLoaded = RulesInFiles(Versions)]
      /\ DOMAIN NoMetrics = Counter
  BY DEF MetricsInit, NoMetrics, Counter
<1>2. metrics = [n \in Counter |-> IF n = "rulesLoaded" THEN RulesInFiles(Versions)
                                   ELSE 0]
  BY <1>1 DEF NoMetrics, Counter
<1>3. /\ QueryCounters /\ metrics.queriesTotal = 0
      /\ metrics.queriesOK = 0 /\ metrics.queriesDenied = 0
  BY <1>2 DEF QueryCounters, Counter
<1>4. Deciding = {}
  <2>1. \A c \in Conn : pc[c] = "closed"
    BY DEF MetricsInit, Init, Proc
  <2>2. QED
    BY <2>1 DEF Deciding, InFlight
<1>5. QED
  BY <1>3, <1>4, FS_EmptySet DEF DecidedInv, DecisionsAreQueries

(* What a counter is after a step that counts.                             *)
LEMMA CountAddsOne ==
  ASSUME DOMAIN metrics = Counter, NEW field \in Counter, Count(field)
  PROVE  /\ DOMAIN metrics' = Counter
         /\ metrics'[field] = metrics[field] + 1
         /\ \A other \in Counter : other # field => metrics'[other] = metrics[other]
BY DEF Count

(* A step that counts no query and no decision.                            *)
LEMMA SameQueries ==
  ASSUME DecidedInv, Deciding' \subseteq Deciding, DOMAIN metrics' = Counter,
         UNCHANGED <<metrics.queriesTotal, metrics.queriesOK, metrics.queriesDenied>>
  PROVE  DecidedInv'
<1>1. QueryCounters'
  BY DEF DecidedInv, QueryCounters
<1>2. DecisionsAreQueries'
  BY FewerDecisions, DecidingIsFinite, DecidingIsFiniteNext
     DEF DecidedInv, DecisionsAreQueries, QueryCounters
<1>3. QED
  BY <1>1, <1>2 DEF DecidedInv

(* A query that arrives is counted, and is then at most one more that is   *)
(* being decided.                                                          *)
LEMMA QueryArrives ==
  ASSUME TypeInv, DecidedInv, NEW c \in Conn, NEW m \in Requests, CountedReceive(c, m)
  PROVE  DecidedInv'
<1>1. /\ pc' = [pc EXCEPT ![c] = pc'[c]] /\ request' = [request EXCEPT ![c] = m]
      /\ pc[c] = "recv" /\ request'[c] = m
  BY DEF CountedReceive, Receive, Goto, TypeInv, TypeOK, Proc
<1>2. DOMAIN metrics = Counter
  BY DEF DecidedInv, QueryCounters
<1>3. c \notin Deciding
  BY <1>1 DEF Deciding, InFlight
<1>4. Deciding' \subseteq Deciding \union {c}
  <2>1. \A d \in Conn : d # c => pc'[d] = pc[d] /\ request'[d] = request[d]
    BY <1>1 DEF TypeInv, TypeOK, Proc
  <2>2. QED
    BY <2>1 DEF Deciding, InFlight
<1>5. CASE m.op = "QUERY"
  <2>1. Count("queriesTotal")
    BY <1>5 DEF CountedReceive
  <2>2. /\ DOMAIN metrics' = Counter
        /\ metrics'.queriesTotal = metrics.queriesTotal + 1
        /\ metrics'.queriesOK = metrics.queriesOK
        /\ metrics'.queriesDenied = metrics.queriesDenied
    BY <1>2, <2>1, CountAddsOne DEF Counter
  <2>3. Cardinality(Deciding') <= Cardinality(Deciding) + 1
    <3>1. /\ IsFiniteSet(Deciding \union {c})
          /\ Cardinality(Deciding \union {c}) = Cardinality(Deciding) + 1
      BY <1>3, DecidingIsFinite, FS_AddElement
    <3>2. QED
      BY <1>4, <3>1, FS_Subset
  <2>4. QED
    BY <2>2, <2>3, DecidingIsFinite, DecidingIsFiniteNext
       DEF DecidedInv, DecisionsAreQueries, QueryCounters
<1>6. CASE m.op # "QUERY"
  <2>1. Deciding' \subseteq Deciding
    BY <1>1, <1>4, <1>6 DEF Deciding
  <2>2. Count("addsTotal") \/ Count("reloadsTotal") \/ UNCHANGED metrics
    BY <1>6 DEF CountedReceive
  <2>3. /\ DOMAIN metrics' = Counter
        /\ UNCHANGED <<metrics.queriesTotal, metrics.queriesOK, metrics.queriesDenied>>
    BY <1>2, <2>2, CountAddsOne DEF Counter
  <2>4. QED
    BY <2>1, <2>3, SameQueries
<1>7. QED
  BY <1>5, <1>6

(* A decision is counted when its query is one less that is being decided. *)
LEMMA QueryIsDecided ==
  ASSUME TypeInv, DecidedInv, NEW c \in Conn, CountedQuery(c)
  PROVE  DecidedInv'
<1>1. /\ pc[c] = "reading" /\ pc' = [pc EXCEPT ![c] = "respond"] /\ request' = request
  BY DEF CountedQuery, Query, Goto
<1>2. c \in Deciding
  <2>1. request[c].op = "QUERY"
    BY <1>1 DEF TypeInv, StepsFitRequests, ReadSteps
  <2>2. QED
    BY <1>1, <2>1 DEF Deciding, InFlight
<1>3. Deciding' = Deciding \ {c}
  BY <1>1 DEF Deciding, InFlight, TypeInv, TypeOK, Proc
<1>4. Cardinality(Deciding') = Cardinality(Deciding) - 1
  BY <1>2, <1>3, DecidingIsFinite, FS_RemoveElement
<1>5. DOMAIN metrics = Counter
  BY DEF DecidedInv, QueryCounters
<1>6. CASE Count("queriesOK")
  <2>1. /\ DOMAIN metrics' = Counter
        /\ metrics'.queriesOK = metrics.queriesOK + 1
        /\ metrics'.queriesTotal = metrics.queriesTotal
        /\ metrics'.queriesDenied = metrics.queriesDenied
    BY <1>5, <1>6, CountAddsOne DEF Counter
  <2>2. QED
    BY <1>4, <2>1, DecidingIsFinite DEF DecidedInv, DecisionsAreQueries, QueryCounters
<1>7. CASE Count("queriesDenied")
  <2>1. /\ DOMAIN metrics' = Counter
        /\ metrics'.queriesDenied = metrics.queriesDenied + 1
        /\ metrics'.queriesTotal = metrics.queriesTotal
        /\ metrics'.queriesOK = metrics.queriesOK
    BY <1>5, <1>7, CountAddsOne DEF Counter
  <2>2. QED
    BY <1>4, <2>1, DecidingIsFinite DEF DecidedInv, DecisionsAreQueries, QueryCounters
<1>8. QED
  BY <1>6, <1>7 DEF CountedQuery

LEMMA DecidedStep == TypeInv /\ DecidedInv /\ [MetricsNext]_metricsVars => DecidedInv'
<1> SUFFICES ASSUME TypeInv, DecidedInv, [MetricsNext]_metricsVars PROVE DecidedInv'
  OBVIOUS
<1>1. DOMAIN metrics = Counter
  BY DEF DecidedInv, QueryCounters
<1>2. ASSUME NEW c \in Conn, CountedQuery(c) PROVE DecidedInv'
  BY <1>2, QueryIsDecided
<1>3. ASSUME NEW c \in Conn, NEW m \in Requests, CountedReceive(c, m) PROVE DecidedInv'
  BY <1>3, QueryArrives
<1>4. ASSUME NEW t \in Ticker, CountedTick(t) PROVE DecidedInv'
  <2>1. metrics' = metrics
    BY <1>4 DEF CountedTick
  <2>2. QED
    BY <1>1, <1>4, <2>1, NoQueryBegins, SameQueries
<1>5. ASSUME NEW p \in Reloader, CountedFailure(p) PROVE DecidedInv'
  <2>1. /\ DOMAIN metrics' = Counter
        /\ UNCHANGED <<metrics.queriesTotal, metrics.queriesOK, metrics.queriesDenied>>
    BY <1>1, <1>5, CountAddsOne DEF CountedFailure, Counter
  <2>2. QED
    BY <1>5, <2>1, NoQueryBegins, SameQueries
<1>6. ASSUME NEW p \in Reloader, CountedFinish(p) PROVE DecidedInv'
  <2>1. /\ DOMAIN metrics' = Counter
        /\ UNCHANGED <<metrics.queriesTotal, metrics.queriesOK, metrics.queriesDenied>>
    BY <1>1, <1>6 DEF CountedFinish, SetGauge, Counter
  <2>2. QED
    BY <1>6, <2>1, NoQueryBegins, SameQueries
<1>7. ASSUME Uncounted, UNCHANGED metrics PROVE DecidedInv'
  BY <1>1, <1>7, NoQueryBegins, SameQueries
<1>8. CASE UNCHANGED metricsVars
  BY <1>1, <1>8, NoQueryBegins, SameQueries DEF metricsVars
<1>9. QED
  BY <1>2, <1>3, <1>4, <1>5, <1>6, <1>7, <1>8 DEF MetricsNext

(* At every moment at least as many queries have been counted as received  *)
(* as have been granted, denied or are being decided, for any number of    *)
(* clients and whatever reloads do meanwhile (server.go:333-355).          *)
THEOREM SharesMakeSense == MetricsSpec => []DecisionsAreQueries
<1>1. IInv => TypeInv
  BY DEF IInv
<1>2. DecidedInv => DecisionsAreQueries
  BY DEF DecidedInv
<1>3. QED
  BY <1>1, <1>2, DecidedInit, DecidedStep, CountedReloads, PTL DEF MetricsSpec

-----------------------------------------------------------------------------
(***************************************************************************)
(* The gauge.  Between the swap of the engines and the return of the       *)
(* reload, what it will be set to is what has been installed.              *)
(***************************************************************************)
Publishing == reloader # NoProc /\ pc[reloader] = "publish"

GaugeInv ==
  IF Publishing THEN installed = job[reloader].seen
                ELSE metrics.rulesLoaded = RulesInFiles(installed)

(* Files that are edited keep the versions that are in use.                *)
LEMMA SameRulesInFiles ==
  ASSUME FilesInv, PastKept, UNCHANGED installed
  PROVE  RulesInFiles(installed)' = RulesInFiles(installed)
<1>1. \A f \in File : past'[f][installed'[f]] = past[f][installed[f]]
  BY DEF FilesInv, PastKept
<1>2. [f \in File |-> Cardinality(RulesIn(past'[f][installed'[f]]))]
        = [f \in File |-> Cardinality(RulesIn(past[f][installed[f]]))]
  BY <1>1
<1>3. QED
  BY <1>2 DEF RulesInFiles

LEMMA SameGauge ==
  ASSUME IInv, GaugeInv, PastKept, UNCHANGED <<installed, metrics.rulesLoaded>>,
         Publishing' <=> Publishing,
         Publishing => reloader' = reloader /\ job'[reloader] = job[reloader]
  PROVE  GaugeInv'
<1>1. RulesInFiles(installed)' = RulesInFiles(installed)
  BY SameRulesInFiles DEF IInv
<1>2. CASE Publishing
  BY <1>2 DEF GaugeInv
<1>3. CASE ~Publishing
  BY <1>1, <1>3 DEF GaugeInv
<1>4. QED
  BY <1>2, <1>3

LEMMA HolderReloads ==
  ASSUME IInv
  PROVE  /\ reloader \in Reloader \union {NoProc} /\ NoProc \notin Proc /\ Reloader \subseteq Proc
         /\ \A p \in Reloader : pc[p] \in {"scan", "load", "publish"} => reloader = p
         /\ \A p \in Reloader :
              pc[p] = "writing" /\ (p \in Conn => request[p].op = "RELOAD") => reloader = p
BY SetsAreDisjoint DEF IInv, TypeInv, TypeOK, LockInv, InReload, ReloadSteps, WriteSteps, Proc,
   Reloader

(* Steps that no reload takes while it holds its mutex.                    *)
LEMMA OtherStepsKeepGauge ==
  ASSUME IInv, GaugeInv, PastKept, UNCHANGED <<reloader, job, installed, metrics.rulesLoaded>>,
         \A p \in Reloader : pc'[p] = "publish" <=> pc[p] = "publish"
  PROVE  GaugeInv'
<1>1. Publishing' <=> Publishing
  BY HolderReloads DEF Publishing
<1>2. QED
  BY <1>1, SameGauge

LEMMA GaugeInit == MetricsInit => GaugeInv
<1> SUFFICES ASSUME MetricsInit PROVE GaugeInv
  OBVIOUS
<1>1. ~Publishing
  BY DEF MetricsInit, Init, Publishing
<1>2. metrics.rulesLoaded = RulesInFiles(installed)
  BY DEF MetricsInit, Init, NoMetrics
<1>3. QED
  BY <1>1, <1>2 DEF GaugeInv

LEMMA UncountedKeepsGauge ==
  ASSUME IInv, GaugeInv, PastKept, Uncounted, UNCHANGED metrics
  PROVE  GaugeInv'
<1> USE SetsAreDisjoint DEF IInv, TypeInv, TypeOK, Goto, Proc, Reloader, locks, histories, files
<1>1. ASSUME NEW c \in Conn, Accept(c) \/ Disconnect(c) PROVE GaugeInv'
  BY <1>1, OtherStepsKeepGauge DEF Accept, Disconnect
<1>2. ASSUME NEW c \in Conn, Add(c) PROVE GaugeInv'
  BY <1>2, OtherStepsKeepGauge DEF Add, Unlock, Blocked
<1>3. ASSUME NEW h \in Http, Query(h) PROVE GaugeInv'
  BY <1>3, OtherStepsKeepGauge DEF Query
<1>4. ASSUME NEW h \in Http, NEW q \in Rule, HttpReceive(h, q) PROVE GaugeInv'
  BY <1>4, OtherStepsKeepGauge DEF HttpReceive
<1>5. ASSUME NEW p \in Conn \union Http, RLock(p) PROVE GaugeInv'
  BY <1>5, OtherStepsKeepGauge DEF RLock
<1>6. ASSUME NEW p \in Conn \union Http, Respond(p) PROVE GaugeInv'
  BY <1>6, OtherStepsKeepGauge DEF Respond
<1>7. ASSUME NEW p \in Reloader, Announce(p) \/ Lock(p) \/ LoadDone(p) PROVE GaugeInv'
  BY <1>7, OtherStepsKeepGauge DEF Announce, Lock, LoadDone
<1>8. ASSUME NEW p \in Reloader, StartReload(p) PROVE GaugeInv'
  <2>1. ~Publishing /\ ~Publishing' /\ installed' = installed
    BY <1>8 DEF StartReload, Publishing
  <2>2. QED
    BY <2>1, SameGauge
<1>9. ASSUME NEW p \in Reloader, Scan(p) \/ LoadFile(p) PROVE GaugeInv'
  <2>1. reloader = p /\ pc[p] \in {"scan", "load"} /\ reloader' = reloader
    BY <1>9, HolderReloads DEF Scan, LoadFile
  <2>2. ~Publishing /\ ~Publishing' /\ installed' = installed
    BY <1>9, <2>1 DEF Scan, LoadFile, Publishing
  <2>3. QED
    BY <2>2, SameGauge
<1>10. ASSUME NEW p \in Reloader, Swap(p) PROVE GaugeInv'
  <2>1. reloader = p /\ p # NoProc
    BY <1>10, HolderReloads DEF Swap
  <2>2. /\ reloader' = p /\ pc'[p] = "publish"
        /\ installed' = job[p].seen /\ job' = job
    BY <1>10, <2>1 DEF Swap, Unlock
  <2>3. QED
    BY <2>1, <2>2 DEF GaugeInv, Publishing
<1>11. ASSUME NEW f \in File, Edit(f) PROVE GaugeInv'
  BY <1>11, OtherStepsKeepGauge DEF Edit
<1>12. CASE ToggleDirectory
  BY <1>12, OtherStepsKeepGauge DEF ToggleDirectory
<1>13. QED
  BY <1>1, <1>2, <1>3, <1>4, <1>5, <1>6, <1>7, <1>8, <1>9, <1>10, <1>11, <1>12 DEF Uncounted

LEMMA GaugeStep ==
  IInv /\ QueryCounters /\ GaugeInv /\ [MetricsNext]_metricsVars => GaugeInv'
<1> SUFFICES ASSUME IInv, QueryCounters, GaugeInv, [MetricsNext]_metricsVars PROVE GaugeInv'
  OBVIOUS
<1>1. PastKept
  BY CountedStepIsStep, PastIsKept DEF IInv
<1>2. \A field \in Counter \ {"rulesLoaded"} :
        Count(field) => metrics'.rulesLoaded = metrics.rulesLoaded
  BY CountAddsOne DEF QueryCounters, Counter
<1>3. ASSUME NEW c \in Conn, CountedQuery(c) PROVE GaugeInv'
  <2>1. metrics'.rulesLoaded = metrics.rulesLoaded
    BY <1>2, <1>3 DEF CountedQuery, Counter
  <2>2. UNCHANGED <<reloader, job, installed>>
    BY <1>3 DEF CountedQuery, Query, histories
  <2>3. \A p \in Reloader : pc'[p] = "publish" <=> pc[p] = "publish"
    BY <1>3 DEF CountedQuery, Query, Goto, IInv, TypeInv, TypeOK, Proc, Reloader
  <2>4. QED
    BY <1>1, <2>1, <2>2, <2>3, OtherStepsKeepGauge
<1>4. ASSUME NEW c \in Conn, NEW m \in Requests, CountedReceive(c, m) PROVE GaugeInv'
  <2>1. metrics'.rulesLoaded = metrics.rulesLoaded
    BY <1>2, <1>4 DEF CountedReceive, Counter
  <2>2. UNCHANGED <<reloader, job, installed>>
    BY <1>4 DEF CountedReceive, Receive, locks
  <2>3. \A p \in Reloader : pc'[p] = "publish" <=> pc[p] = "publish"
    BY <1>4 DEF CountedReceive, Receive, Goto, IInv, TypeInv, TypeOK, Proc, Reloader
  <2>4. QED
    BY <1>1, <2>1, <2>2, <2>3, OtherStepsKeepGauge
<1>5. ASSUME NEW t \in Ticker, CountedTick(t) PROVE GaugeInv'
  <2>1. UNCHANGED <<reloader, job, installed, metrics>>
    BY <1>5 DEF CountedTick, Tick, locks, histories
  <2>2. \A p \in Reloader : pc'[p] = "publish" <=> pc[p] = "publish"
    BY <1>5 DEF CountedTick, Tick, Goto, IInv, TypeInv, TypeOK, Proc, Reloader
  <2>3. QED
    BY <1>1, <2>1, <2>2, OtherStepsKeepGauge
<1>6. ASSUME NEW p \in Reloader, CountedFailure(p) PROVE GaugeInv'
  <2>1. reloader = p /\ pc[p] \in {"scan", "load"}
    BY <1>6, HolderReloads DEF CountedFailure, ScanFails, LoadFails
  <2>2. reloader' = NoProc /\ installed' = installed
    BY <1>6 DEF CountedFailure, ScanFails, LoadFails, FailReload, histories
  <2>3. metrics'.rulesLoaded = metrics.rulesLoaded
    BY <1>2, <1>6 DEF CountedFailure, Counter
  <2>4. QED
    BY <1>1, <2>1, <2>2, <2>3, SameGauge DEF Publishing
<1>7. ASSUME NEW p \in Reloader, CountedFinish(p) PROVE GaugeInv'
  <2>1. reloader = p /\ pc[p] = "publish" /\ p # NoProc
    BY <1>7, HolderReloads DEF CountedFinish, FinishReload, Goto
  <2>2. installed = job[p].seen
    BY <2>1 DEF GaugeInv, Publishing
  <2>3. metrics'.rulesLoaded = RulesInFiles(installed)
    BY <1>7, <2>2 DEF CountedFinish, SetGauge, QueryCounters, Counter
  <2>4. reloader' = NoProc /\ installed' = installed
    BY <1>7 DEF CountedFinish, FinishReload, histories
  <2>5. RulesInFiles(installed)' = RulesInFiles(installed)
    BY <1>1, <2>4, SameRulesInFiles DEF IInv
  <2>6. QED
    BY <2>3, <2>4, <2>5 DEF GaugeInv, Publishing
<1>8. CASE Uncounted /\ UNCHANGED metrics
  BY <1>1, <1>8, UncountedKeepsGauge
<1>9. CASE UNCHANGED metricsVars
  BY <1>1, <1>9, OtherStepsKeepGauge DEF metricsVars, vars, locks, histories
<1>10. QED
  BY <1>3, <1>4, <1>5, <1>6, <1>7, <1>8, <1>9 DEF MetricsNext

(* Whoever reloaded last, and however many failed since, the gauge is the  *)
(* number of rules in the files in use, unless a reload is at work.  This  *)
(* rests on reloadMutex, which is released only after the gauge is set     *)
(* (server.go:411-412 and 457-458).                                        *)
THEOREM GaugeIsRight == MetricsSpec => []GaugeCountsFiles
<1>1. IInv => TypeInv
  BY DEF IInv
<1>2. DecidedInv => QueryCounters
  BY DEF DecidedInv
<1>3. GaugeInv => GaugeCountsFiles
  BY DEF GaugeInv, GaugeCountsFiles, Publishing
<1>4. QED
  BY <1>1, <1>2, <1>3, GaugeInit, GaugeStep, DecidedInit, DecidedStep, CountedReloads, PTL
     DEF MetricsSpec
=============================================================================

------------------------------ MODULE Session ------------------------------
(***************************************************************************)
(* A client (pkg/client) and the handler of its connection in the server,  *)
(* over two ordered streams of octets.  A request reaches the handler      *)
(* whole or, if the client ends in between, cut off; of a response any     *)
(* part may have reached the client when its deadline passes, after which  *)
(* the client can be used again.                                           *)
(*                                                                         *)
(* A stream holds what was written to it and not read yet.  How much of it *)
(* has arrived shows only at a deadline, and is chosen there.  The client  *)
(* is used by one goroutine, as its lack of a lock demands.                *)
(***************************************************************************)
EXTENDS Protocol, FiniteSets

CONSTANTS
  Requests,   \* the messages that the calls of the client send
  Parses(_),  \* whether an argument reads as an S-expression (SExp)
  MaxCalls    \* bound: calls in a session

ASSUME RequestsAreMessages == Requests \subseteq Messages

ASSUME MaxCallsIsNat == MaxCalls \in Nat

\* Operations and codes, in octets.
QUERY  == <<81, 85, 69, 82, 89>>
ADD    == <<65, 68, 68>>
RELOAD == <<82, 69, 76, 79, 65, 68>>
LOGOUT == <<76, 79, 71, 79, 85, 84>>

CodeOK      == <<50, 48, 48>>
CodeBye     == <<50, 48, 51>>
CodeDenied  == <<52, 48, 48>>
CodeError   == <<53, 48, 48>>
CodeUnknown == <<53, 48, 49>>

\* Texts are as long as those of the code where they are fixed.
Ok       == Response(CodeOK, <<79, 107>>)
Denied   == Response(CodeDenied, <<68, 101, 110, 105, 101, 100>>)
Bye      == Response(CodeBye, <<66, 121, 101>>)
Reloaded == Response(CodeOK, <<82, 101, 108, 111, 97, 100, 101, 100>>)
Failed   == Response(CodeError, <<69, 114, 114>>)
Unknown  == Response(CodeUnknown, <<69, 114, 114>>)

\* What the methods of the client send: text is an element's canonical form.
QueryFor(text) == Message(QUERY, <<text>>)
AddOf(text)    == Message(ADD, <<text>>)
Reload         == Message(RELOAD, <<>>)
Logout         == Message(LOGOUT, <<>>)

\* handleMessage: the responses a message may get.
Responses[m \in Messages] ==
  LET valid == Len(m.arguments) = 1 /\ Parses(m.arguments[1])
  IN  CASE m.operation = QUERY  -> IF valid THEN {Ok, Denied} ELSE {Failed}
        [] m.operation = ADD    -> IF valid THEN {Ok} ELSE {Failed}
        [] m.operation = RELOAD -> {Reloaded, Failed}
        [] m.operation = LOGOUT -> {Bye}
        [] OTHER                -> {Unknown}

\* What a method of the client makes of a response.
Outcome(m, r) ==
  CASE m.operation = QUERY /\ r.code = CodeDenied -> "no"
    [] m.operation = LOGOUT /\ r.code = CodeBye   -> "yes"
    [] m.operation # LOGOUT /\ r.code = CodeOK    -> "yes"
    [] OTHER                                      -> "error"

-----------------------------------------------------------------------------
VARIABLES
  client,     \* "new", "idle", "waiting" for a response, "closed"
  sent,       \* the messages that the client has written
  requests,   \* octets of them that the handler will or may still read
  results,    \* what the calls of the client have returned
  handler,    \* "none", "reading", "responding", "gone"
  executed,   \* the messages that the handler has read and carried out
  pending,    \* the response that it is about to write
  answers,    \* its responses, the call each is for, the octet it begins at
  responses,  \* octets of them that the client has not read
  consumed    \* the number of octets that it has

callVars    == <<sent, requests>>
handlerVars == <<handler, executed, pending, answers>>
vars        == <<client, callVars, results, handlerVars, responses, consumed>>

Incoming == DecodeResponse[responses]
Request  == DecodeMessage[requests]

\* The answer whose first octet is the next one, 0 if there is none.
NextAnswer ==
  IF \E i \in DOMAIN answers : answers[i].begins = consumed
  THEN CHOOSE i \in DOMAIN answers : answers[i].begins = consumed
  ELSE 0

Init ==
  /\ client = "new" /\ handler = "none"
  /\ sent = <<>> /\ requests = <<>> /\ responses = <<>> /\ consumed = 0
  /\ results = <<>> /\ executed = <<>> /\ pending = Bye /\ answers = <<>>

-----------------------------------------------------------------------------
(***************************************************************************)
(* The client.                                                             *)
(***************************************************************************)
NewClient ==
  /\ client = "new"
  /\ client' = "idle" /\ handler' = "reading"
  /\ UNCHANGED <<callVars, results, executed, pending, answers, responses, consumed>>

DialFails ==
  /\ client = "new"
  /\ client' = "closed" /\ handler' = "gone"
  /\ UNCHANGED <<callVars, results, executed, pending, answers, responses, consumed>>

\* Query, Add, Reload and Logout.  To a connection that the handler has left
\* the message is written in vain; if that fails, nothing has changed.
SendMessage ==
  /\ client = "idle" /\ Len(sent) < MaxCalls
  /\ \E m \in Requests :
       /\ sent' = Append(sent, m)
       /\ requests' = requests \o EncodeMessage(m)
  /\ client' = "waiting"
  /\ UNCHANGED <<results, handlerVars, responses, consumed>>

\* The call under way returns; rest is what stays of the stream, and from the
\* answer that it has read.
Return(outcome, from, rest) ==
  /\ results' = Append(results, [outcome |-> outcome, from |-> from])
  /\ client' = "idle"
  /\ responses' = rest
  /\ consumed' = consumed + (Len(responses) - Len(rest))
  /\ UNCHANGED <<callVars, handlerVars>>

ReadResponse ==
  /\ client = "waiting" /\ Incoming.kind = "value"
  /\ Return(Outcome(sent[Len(sent)], Incoming.value), NextAnswer, Incoming.rest)

ReadInvalid ==
  /\ client = "waiting" /\ Incoming.kind = "invalid"
  /\ Return("error", 0, Incoming.rest)

\* The deadline of 30 seconds.  What has arrived of the response is lost.
Timeout ==
  /\ client = "waiting"
  /\ \E n \in 0..Len(responses) :
       /\ DecodeResponse[SubSeq(responses, 1, n)].kind = "incomplete"
       /\ Return("timeout", 0, SubSeq(responses, n + 1, Len(responses)))

\* The connection ends, by an end of file or a reset: what has not been read
\* may be lost.
Disconnected ==
  /\ client = "waiting" /\ handler = "gone"
  /\ Return("error", 0, <<>>)

\* The last octets of a message may stay behind: one of them, or half of them,
\* which bounds the places of the cut.
Leave(m) ==
  /\ sent' = Append(sent, m)
  /\ LET octets == EncodeMessage(m)
     IN  \E n \in {Len(octets) \div 2, Len(octets) - 1, Len(octets)} :
           requests' = requests \o SubSeq(octets, 1, n)
  /\ client' = "closed"
  /\ UNCHANGED <<results, handlerVars, responses, consumed>>

\* Close says LOGOUT, with a deadline of one second, and waits for nothing.
CloseClient == client = "idle" /\ Leave(Logout)

\* The program ends while it writes a message, or waits.
DieSending == client = "idle" /\ Len(sent) < MaxCalls /\ \E m \in Requests : Leave(m)

Die ==
  /\ client \in {"idle", "waiting"}
  /\ client' = "closed"
  /\ UNCHANGED <<callVars, results, handlerVars, responses, consumed>>

-----------------------------------------------------------------------------
(***************************************************************************)
(* The handler.                                                            *)
(***************************************************************************)
Say(r, to) ==
  /\ answers' = Append(answers, [to |-> to, begins |-> consumed + Len(responses)])
  /\ responses' = responses \o EncodeResponse(r)

\* A message is read, whole, and carried out.
Receive ==
  /\ handler = "reading" /\ Request.kind = "value"
  /\ requests' = Request.rest
  /\ executed' = Append(executed, Request.value)
  /\ pending' \in Responses[Request.value]
  /\ handler' = "responding"
  /\ UNCHANGED <<client, sent, results, answers, responses, consumed>>

\* After the response the loop ends with a LOGOUT or with the server.
Respond ==
  /\ handler = "responding"
  /\ Say(pending, Len(executed))
  /\ handler' \in IF executed[Len(executed)].operation = LOGOUT THEN {"gone"}
                                                             ELSE {"reading", "gone"}
  /\ UNCHANGED <<client, callVars, results, executed, pending, consumed>>

RespondFails ==
  /\ handler = "responding" /\ client = "closed"
  /\ handler' = "gone"
  /\ UNCHANGED <<client, callVars, results, executed, pending, answers, responses, consumed>>

\* A handler that complains and stays.
ReadFailsAndStays ==
  /\ handler = "reading" /\ Len(answers) <= MaxCalls
  /\ Say(Failed, 0)
  /\ UNCHANGED <<client, callVars, results, handler, executed, pending, consumed>>

\* A handler that takes the end of the stream for a pause.
ReadFailsOfClients ==
  /\ handler = "reading" /\ client # "closed"
  /\ handler' = "gone"
  /\ UNCHANGED <<client, callVars, results, executed, pending, answers, responses, consumed>>

\* The message is invalid, the client is gone, or five minutes have passed in
\* which no message has arrived whole.  The handler says so to whoever listens.
ReadFails ==
  /\ handler = "reading"
  /\ Say(Failed, 0) \/ UNCHANGED <<answers, responses>>
  /\ handler' = "gone"
  /\ UNCHANGED <<client, callVars, results, executed, pending, consumed>>

-----------------------------------------------------------------------------
ReadEnds    == Timeout \/ Disconnected \/ ReadResponse \/ ReadInvalid
HandlerStep == ReadFails \/ RespondFails \/ Respond \/ Receive

Next ==
  \/ NewClient \/ DialFails \/ SendMessage \/ ReadEnds \/ CloseClient \/ DieSending \/ Die
  \/ HandlerStep

Spec == Init /\ [][Next]_vars

\* Reads end at their deadlines, and a handler that has a response writes it.
\* That a message is read before the deadline is not assumed.
FairSpec ==
  Spec /\ WF_vars(ReadEnds) /\ WF_vars(ReadFails) /\ WF_vars(RespondFails \/ Respond)

-----------------------------------------------------------------------------
(* The handler carries out exactly what the client has sent, in its order: *)
(* no message twice, none changed on the way, and none that was cut off.   *)
ExecutedInOrder == \E n \in 0..Len(sent) : executed = SubSeq(sent, 1, n)

(* Whatever else a call may return, yes or no is a response that the       *)
(* handler has written, whole, and to this call or to an earlier one.  No  *)
(* response serves two calls, answers that come late come in order, and    *)
(* they come late only by calls that have returned neither yes nor no:     *)
(* without a timeout before it, a decision is the one about its own query. *)
Calls(outcomes, i) == {j \in 1..(i - 1) : results[j].outcome \in outcomes}

DecisionsAreAnswers ==
  \A i \in DOMAIN results : results[i].outcome \in {"yes", "no"} =>
    LET from == results[i].from
    IN  /\ from \in DOMAIN answers
        /\ \A j \in 1..(i - 1) : results[j].from < from
        /\ answers[from].to \in (i - Cardinality(Calls({"timeout", "error"}, i)))..i
        /\ Calls({"timeout"}, i) = {} => answers[from].to = i

(* Every call returns, answered or not, and a handler does not outlive its *)
(* client: Close of the server, which waits for handlers, depends on it.   *)
SessionsEnd ==
  /\ client = "waiting" ~> client # "waiting"
  /\ client = "closed" ~> handler = "gone"
=============================================================================

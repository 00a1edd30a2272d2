------------------------------- MODULE MCHttp -------------------------------
(***************************************************************************)
(* Requests to read one document, and rules that constrain the action, the *)
(* subject or the method.                                                  *)
(***************************************************************************)
EXTENDS HttpServer, MCCalls

\* No star form but the wildcard occurs: values need no structure.
MCValue == {}
MCDates == {}
MCLeq(v, w)    == v = w
MCInstant(v)   == 0
MCAffix(v, p)  == v = p

MCSubject(type, id) == [type |-> type, id |-> id, properties |-> NoEntries]
MCRead(props)       == [name |-> "read", properties |-> props]
MCDoc(props)        == [type |-> "doc", id |-> "1", properties |-> props]

MCRequest(doc, action, subject, context) ==
  [resource |-> doc, action |-> action, subject |-> subject, context |-> context]

Method == [method |-> Text("GET")]

MCRequests ==
  {MCRequest(MCDoc(NoEntries), MCRead(NoEntries), MCSubject("user", "bob"), NoEntries),
   MCRequest(MCDoc(NoEntries), MCRead(NoEntries), MCSubject("bob", ""), Method),
   MCRequest(MCDoc(NoEntries), MCRead(NoEntries), MCSubject("", "bob"), Method),
   MCRequest(MCDoc([subject |-> Object([id |-> Text("bob")])]), MCRead(NoEntries),
             MCSubject("", ""), NoEntries),
   MCRequest(MCDoc(NoEntries),
             MCRead([method |-> Text("GET"), tags |-> Array(<<"a", "b">>)]),
             MCSubject("", "bob"), NoEntries)}

\* Bob may read; whoever is called bob may do anything; a method is GET.
MCRules ==
  {List("doc", <<Entry("id", "1"), List("action", <<Atom("read")>>),
                 List("subject", <<Entry("type", "user"), Entry("id", "bob")>>)>>),
   List("doc", <<Wildcard, Wildcard, List("subject", <<Entry("id", "bob")>>)>>),
   List("doc", <<Wildcard, List("action", <<Atom("read"), Entry("method", "GET")>>)>>)}

\* The values of these requests.
RECURSIVE MCInside(_)
MCInside(v) == {v} \union (IF v.kind = "object" THEN UNION {MCInside(v.fields[k]) : k \in DOMAIN v.fields} ELSE {})
MCValues == UNION {UNION {MCInside(map[k]) : k \in DOMAIN map} : map \in UNION {Maps(r) : r \in MCRequests}}
MCNesting(v) == Cardinality(MCInside(v))

MCWritten(v) == LET written == PropertyParts(v) IN written
MCHeld(v)    == LET held == ValuesOf(v) IN held

MCDirectories == {<<>>, <<FileOf(MCRules), Broken>>, <<FileOf({}), FileOf(MCRules)>>}
=============================================================================

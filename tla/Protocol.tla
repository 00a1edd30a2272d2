------------------------------ MODULE Protocol ------------------------------
(***************************************************************************)
(* The wire format (pkg/protocol): messages and responses in lengths and   *)
(* values, nested.  A decoder is given the octets that a stream holds at   *)
(* the moment.  Its result is "incomplete" if the code would go on to wait *)
(* for more; then the reader has swallowed all of them.  Otherwise rest is *)
(* what stays unread.                                                      *)
(***************************************************************************)
EXTENDS Wire

Messages == [operation : Octets, arguments : Seq(Octets)]

Message(op, args)    == [operation |-> op, arguments |-> args]
Response(code, text) == [code |-> code, message |-> text]

\* The loop over the arguments, after some of them.
LengthValues(values) ==
  LET joined[i \in 0..Len(values)] ==
        IF i = 0 THEN <<>> ELSE joined[i - 1] \o LengthValue(values[i])
  IN  joined

\* Arguments written as they are.
EncodeMessageBare(m) ==
  LengthValue(LengthValue(m.operation) \o Concat(m.arguments))

EncodeMessage(m) ==
  LengthValue(LengthValue(m.operation) \o LengthValues(m.arguments)[Len(m.arguments)])

EncodeResponse(r) == LengthValue(r.code \o <<Colon>> \o r.message)

-----------------------------------------------------------------------------
Incomplete     == [kind |-> "incomplete", rest |-> <<>>]
Invalid(rest)  == [kind |-> "invalid", rest |-> rest]
Got(v, rest)   == [kind |-> "value", value |-> v, rest |-> rest]

\* readLV, which knows no colon yet (ended), or not the whole value (short).
ReadLV[s \in Octets] ==
  LET colon  == IndexByte(s, Colon)
      digits == SubSeq(s, 1, colon - 1)
      rest   == SubSeq(s, colon + 1, Len(s))
  IN  IF colon = 0 THEN [kind |-> "ended"]
      ELSE IF ~IsNumber(digits) \/ Atoi(digits) < 0 THEN Invalid(rest)
      ELSE IF Len(rest) < Atoi(digits) THEN [kind |-> "short"]
      ELSE Got(SubSeq(rest, 1, Atoi(digits)), SubSeq(rest, Atoi(digits) + 1, Len(rest)))

\* One round of the loop over the arguments: a tail without a colon is taken for
\* the end.
Reading(args, rest) == [kind |-> "reading", value |-> args, rest |-> rest]

ReadArgument(loop) ==
  LET next == ReadLV[loop.rest]
  IN  CASE loop.kind # "reading" -> loop
        [] loop.kind = "reading" /\ next.kind = "value" ->
             Reading(Append(loop.value, next.value), next.rest)
        [] loop.kind = "reading" /\ next.kind = "ended" -> Got(loop.value, <<>>)
        [] OTHER -> Invalid(<<>>)

\* Every round but the last reads two octets or more, so that the loop has ended
\* when it has gone round as often as there are octets, and once more.
ReadArguments(content) ==
  LET loop[i \in 0..(Len(content) + 1)] ==
        IF i = 0 THEN Reading(<<>>, content) ELSE ReadArgument(loop[i - 1])
  IN  loop

\* The inside of a message, and what follows the message.
MessageIn(content, rest) ==
  LET op   == ReadLV[content]
      args == ReadArguments(op.rest)[Len(op.rest) + 1]
  IN  IF op.kind # "value" \/ args.kind # "value" THEN Invalid(rest)
      ELSE Got(Message(op.value, args.value), rest)

DecodeMessage[s \in Octets] ==
  LET outer == ReadLV[s]
  IN  IF outer.kind \in {"ended", "short"} THEN Incomplete
      ELSE IF outer.kind = "invalid" THEN outer
      ELSE MessageIn(outer.value, outer.rest)

ResponseIn(content, rest) ==
  LET colon == IndexByte(content, Colon)
  IN  IF colon = 0 THEN Invalid(rest)
      ELSE Got(Response(SubSeq(content, 1, colon - 1),
                        SubSeq(content, colon + 1, Len(content))), rest)

DecodeResponse[s \in Octets] ==
  LET outer == ReadLV[s]
  IN  IF outer.kind \in {"ended", "short"} THEN Incomplete
      ELSE IF outer.kind = "invalid" THEN outer
      ELSE ResponseIn(outer.value, outer.rest)
=============================================================================

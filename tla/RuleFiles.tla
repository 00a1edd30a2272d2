------------------------------ MODULE RuleFiles ------------------------------
(***************************************************************************)
(* Rule files (pkg/persist): the three formats, and one file that is saved *)
(* again and again.  A save truncates the file and then writes it in some  *)
(* number of writes; it may break off in between, with its process or with *)
(* a full disk.  Loading changes nothing: it is an operator on what the    *)
(* file contains at the moment, which is what the reader of a file of one  *)
(* buffer gets.                                                            *)
(***************************************************************************)
EXTENDS SExp

CONSTANT RuleLists    \* what is saved

Newline     == 10
Whitespace  == {9, 10, 11, 12, 13, Space}
Quote       == 34
Separators  == {9, 10, 13, Space}
Comments    == {<<35>>, <<47, 47>>, <<59>>}      \* # // ;
Formats     == {"canonical", "advanced", "binary"}

Magic   == <<83, 80, 79, 67, 80>>                \* SPOCP
Version == <<1>>

-----------------------------------------------------------------------------
(***************************************************************************)
(* Saving: the octets that a save writes in the end.                       *)
(***************************************************************************)
\* One rule of saveCanonical or saveAdvanced.
Line(text) == Append(text, Newline)

\* A uint32 in little-endian order.
Uint32(n) == <<n % 256, (n \div 256) % 256, (n \div 65536) % 256, n \div 16777216>>

\* saveBinary refuses a number that a uint32 cannot hold.
FitsUint32(n) == n \div 16777216 < 256

\* What a program saves without an error.
ASSUME RulesAreElements == RuleLists \subseteq Seq(Elements)
ASSUME RulesFit ==
  \A rs \in RuleLists : FitsUint32(Len(rs)) /\ \A i \in DOMAIN rs : FitsUint32(Len(String[rs[i]]))

\* One rule: its length and its canonical form.
SerializeRule(rule) == Uint32(Len(String[rule])) \o String[rule]

\* The head of a binary file, with the number of rules.
Header(n) == Magic \o Version \o Uint32(n)

SaveBinary(rules) ==
  Header(Len(rules)) \o Concat([i \in DOMAIN rules |-> SerializeRule(rules[i])])

SaveAdvanced(rules)  == Concat([i \in DOMAIN rules |-> Line(AdvancedForm[rules[i]])])
SaveCanonical(rules) == Concat([i \in DOMAIN rules |-> Line(String[rules[i]])])

SaveFile(rules, format) ==
  CASE format = "binary"   -> SaveBinary(rules)
    [] format = "advanced" -> SaveAdvanced(rules)
    [] OTHER               -> SaveCanonical(rules)

-----------------------------------------------------------------------------
(***************************************************************************)
(* Advanced form to canonical form.                                        *)
(***************************************************************************)
\* An octet in place of a slice that ends before it begins.
Panicking == -1

TrimSpace(s) ==
  LET solid == {i \in DOMAIN s : s[i] \notin Whitespace}
  IN  IF solid = {} THEN <<>>
      ELSE SubSeq(s, CHOOSE i \in solid : \A j \in solid : i <= j,
                     CHOOSE i \in solid : \A j \in solid : j <= i)

FlushToken(t) == [t EXCEPT !.tokens = Append(@, t.current), !.current = <<>>]
NonEmpty(t)   == IF t.current = <<>> THEN t ELSE FlushToken(t)
Keep(t, c)    == [t EXCEPT !.current = Append(@, c)]

\* One round of the loop of tokenize: a parenthesis that opens ends the token
\* before it at any depth, one that closes only at depth 0.
Scan(t, c) ==
  CASE c = Open /\ ~t.quoted  -> Keep([NonEmpty(t) EXCEPT !.depth = @ + 1], c)
    [] c = Close /\ ~t.quoted ->
         LET kept == [Keep(t, c) EXCEPT !.depth = @ - 1]
         IN  IF kept.depth = 0 THEN FlushToken(kept) ELSE kept
    [] c = Quote              -> Keep([t EXCEPT !.quoted = ~@], c)
    [] c \in Separators /\ ~t.quoted /\ t.depth = 0 -> NonEmpty(t)
    [] OTHER                  -> Keep(t, c)

Scanned(s) ==
  LET scanned[i \in 0..Len(s)] ==
        IF i = 0 THEN [tokens |-> <<>>, current |-> <<>>, depth |-> 0, quoted |-> FALSE]
                 ELSE Scan(scanned[i - 1], s[i])
  IN  scanned

Tokenize(s) == NonEmpty(Scanned(s)[Len(s)]).tokens

\* A token without its first and its last octet.
Inner(token) == IF Len(token) < 2 THEN <<Panicking>> ELSE SubSeq(token, 2, Len(token) - 1)

TokensToCanonical[tokens \in Seq(Seq(Octet \union {Panicking}))] ==
  LET Canonical(token) ==
        IF token # <<>> /\ Head(token) = Open
        THEN TokensToCanonical[Tokenize(Inner(token))]
        ELSE LengthValue(token)
      parts == Concat([i \in DOMAIN tokens |-> Canonical(tokens[i])])
  IN  IF Len(tokens) < 2 THEN parts ELSE <<Open>> \o parts \o <<Close>>

AdvancedToCanonical(line) ==
  LET bare == IF line # <<>> /\ Head(line) = Open /\ line[Len(line)] = Close
              THEN Inner(line) ELSE line
  IN  TokensToCanonical[Tokenize(bare)]

-----------------------------------------------------------------------------
(***************************************************************************)
(* Loading.                                                                *)
(***************************************************************************)
Options(format, skipInvalid, maxRules) ==
  [format |-> format, skipInvalid |-> skipInvalid, maxRules |-> maxRules]
DefaultLoadOptions == Options("canonical", FALSE, 0)

Loaded(rules) == [ok |-> TRUE, rules |-> rules]
LoadFailed    == [ok |-> FALSE, rules |-> <<>>]

\* The lines of bufio.Scanner: the last one need not end.
ScanOctet(t, c) == IF c = Newline THEN FlushToken(t) ELSE Keep(t, c)

Split(content) ==
  LET split[i \in 0..Len(content)] ==
        IF i = 0 THEN [tokens |-> <<>>, current |-> <<>>] ELSE ScanOctet(split[i - 1], content[i])
  IN  split

Lines(content) == NonEmpty(Split(content)[Len(content)]).tokens

StartsWith(s, p) == Len(p) <= Len(s) /\ SubSeq(s, 1, Len(p)) = p

IsComment(line) == \E mark \in Comments : StartsWith(line, mark)

\* A limit that lets one rule more in.
LimitReachedLate(opts, loaded) == opts.maxRules > 0 /\ Len(loaded.rules) > opts.maxRules

LimitReached(opts, loaded) == opts.maxRules > 0 /\ Len(loaded.rules) >= opts.maxRules

\* One round of the loop of loadText, with a line that has a rule.
TakeRule(opts, loaded, canonical, rule) ==
  IF Panicking \in {canonical[i] : i \in DOMAIN canonical} THEN LoadFailed
  ELSE IF rule.kind = "parsed" THEN [loaded EXCEPT !.rules = Append(@, rule.elem)]
  ELSE IF rule.kind = "failure" /\ opts.skipInvalid THEN loaded
  ELSE LoadFailed

LoadRule(opts, loaded, canonical) == TakeRule(opts, loaded, canonical, Parse[canonical])

\* And with any line.
LoadTrimmed(opts, loaded, text) ==
  IF ~loaded.ok \/ LimitReached(opts, loaded) \/ text = <<>> \/ IsComment(text) THEN loaded
  ELSE LoadRule(opts, loaded,
                IF opts.format = "advanced" THEN AdvancedToCanonical(text) ELSE text)

LoadLine(opts, loaded, line) == LoadTrimmed(opts, loaded, TrimSpace(line))

LoadLines(opts, lines) ==
  LET loaded[i \in 0..Len(lines)] ==
        IF i = 0 THEN Loaded(<<>>) ELSE LoadLine(opts, loaded[i - 1], lines[i])
  IN  loaded

LoadText(content, opts) == LoadLines(opts, Lines(content))[Len(Lines(content))]

ReadUint32(s) == s[1] + (256 * s[2]) + (65536 * s[3]) + (16777216 * s[4])

\* DeserializeRule: reading one rule off the front of s.
RuleBefore(rest, rule) == IF rule.kind = "parsed" THEN Parsed(rule.elem, rest) ELSE rule

DeserializeRule(s) ==
  IF Len(s) < 4 THEN Failure
  ELSE LET end == 4 + ReadUint32(s)
       IN  IF Len(s) < end THEN Failure
           ELSE RuleBefore(SubSeq(s, end + 1, Len(s)), Parse[SubSeq(s, 5, end)])

\* One round of the loop of loadBinary: rules are those read, rest what is left.
TakeBinary(loading, next) ==
  IF loading.ok /\ next.kind = "parsed"
  THEN [ok |-> TRUE, rules |-> Append(loading.rules, next.elem), rest |-> next.rest]
  ELSE [ok |-> FALSE, rules |-> <<>>, rest |-> <<>>]

LoadBinaryRules(s, count) ==
  LET loading[i \in 0..count] ==
        IF i = 0 THEN [ok |-> TRUE, rules |-> <<>>, rest |-> s]
                 ELSE TakeBinary(loading[i - 1], DeserializeRule(loading[i - 1].rest))
  IN  loading

LoadBinary(s) ==
  IF Len(s) < 10 \/ SubSeq(s, 1, 6) # Magic \o Version THEN LoadFailed
  ELSE LET count   == ReadUint32(SubSeq(s, 7, 10))
           loading == LoadBinaryRules(SubSeq(s, 11, Len(s)), count)[count]
       IN  IF loading.ok THEN Loaded(loading.rules) ELSE LoadFailed

\* The options or the name of the file, .spocp or .bin, say that it is binary.
LoadFile(content, opts, binaryName) ==
  IF opts.format = "binary" \/ binaryName THEN LoadBinary(content) ELSE LoadText(content, opts)

-----------------------------------------------------------------------------
VARIABLES
  rules,      \* the rules of the last save
  format,     \* and its format
  content,    \* the octets in the file
  unwritten   \* the octets that the save has still to write

vars == <<rules, format, content, unwritten>>

Init ==
  /\ rules = <<>>
  /\ format = "canonical"
  /\ content = <<>>
  /\ unwritten = <<>>

\* Opening the file without truncating it.
CreateAppending ==
  /\ unwritten = <<>>
  /\ \E rs \in RuleLists, f \in Formats :
       /\ rules' = rs
       /\ format' = f
       /\ unwritten' = SaveFile(rs, f)
  /\ UNCHANGED content

\* os.Create: the rules that were in the file are gone.
Create ==
  /\ unwritten = <<>>
  /\ \E rs \in RuleLists, f \in Formats :
       /\ rules' = rs
       /\ format' = f
       /\ unwritten' = SaveFile(rs, f)
  /\ content' = <<>>

Write ==
  /\ \E n \in 1..Len(unwritten) :
       /\ content' = content \o SubSeq(unwritten, 1, n)
       /\ unwritten' = SubSeq(unwritten, n + 1, Len(unwritten))
  /\ UNCHANGED <<rules, format>>

\* The disk is full or the process ends: what is in the file stays, and a
\* program started later may save again.
BreakOff ==
  /\ unwritten # <<>>
  /\ unwritten' = <<>>
  /\ UNCHANGED <<rules, format, content>>

Next == Create \/ Write \/ BreakOff
Spec == Init /\ [][Next]_vars
-----------------------------------------------------------------------------
\* Parameters of the properties: which rules a format can hold.
HasStarForm[e \in Elements] ==
  \/ e.kind \notin {"atom", "list"}
  \/ e.kind = "list" /\ \E i \in DOMAIN e.elems : HasStarForm[e.elems[i]]

OctetsOf(s) == {s[i] : i \in DOMAIN s}

\* One word: what tokenize leaves in one piece.
Word(s) ==
  /\ s # <<>>
  /\ OctetsOf(s) \intersect ({Open, Close, Quote} \union Whitespace) = {}
  /\ ~IsComment(s)

Words(e) ==
  /\ Word(e.tag) /\ e.elems # <<>>
  /\ \A i \in DOMAIN e.elems : e.elems[i].kind = "atom" /\ Word(e.elems[i].value)

Survives(e, f) ==
  CASE f = "binary"    -> ~HasStarForm[e]
    [] f = "canonical" -> /\ ~HasStarForm[e]
                          /\ Newline \notin OctetsOf(String[e])
                          /\ TrimSpace(String[e]) = String[e]
    [] f = "advanced"  -> \/ e.kind = "atom" /\ Word(e.value)
                          \/ /\ e.kind = "list" /\ Word(e.tag) /\ e.elems # <<>>
                             /\ \A i \in DOMAIN e.elems :
                                  \/ e.elems[i].kind = "atom" /\ Word(e.elems[i].value)
                                  \/ e.elems[i].kind = "list" /\ Words(e.elems[i])

AllSurvive == \A i \in DOMAIN rules : Survives(rules[i], format)

(* A printed rule is read back as itself and no further, and an unfinished *)
(* one is never taken for a rule: what a rule's octets are followed by, or *)
(* where they are cut off, cannot change it.                               *)
PrintedRulesAreExact ==
  \A i \in DOMAIN rules : ~HasStarForm[rules[i]] =>
    LET text == String[rules[i]]
    IN  /\ Parse[text] = Parsed(rules[i], <<>>)
        /\ \A c \in {Close, 48, 97} : Parse[Append(text, c)] = Parsed(rules[i], <<c>>)
        /\ \A n \in 0..(Len(text) - 1) : Parse[SubSeq(text, 1, n)].kind = "failure"

(* A file that was written to its end is read, in its format, as the rules *)
(* that were saved, if the format can hold them; with a limit, as the      *)
(* first of them.                                                          *)
SavedFilesLoad ==
  content = SaveFile(rules, format) /\ AllSurvive =>
    \A skip \in BOOLEAN, limit \in 0..2 :
      LoadFile(content, Options(format, skip, limit), FALSE) =
        Loaded(IF format # "binary" /\ limit \in 1..Len(rules)
               THEN SubSeq(rules, 1, limit) ELSE rules)

\* What the file may be loaded as, by the format of the load, what it does with
\* an invalid line, and whether the name of the file is that of a binary one.
Loads(f, skips, binaryName) ==
  {LoadFile(content, Options(f, skip, 0), binaryName) : skip \in skips}

(* Of a canonical or a binary save whose rules its format can hold         *)
(* (AllSurvive), whatever it has left in the file, whole, broken off or    *)
(* still at work: a load of the binary format yields all the rules or      *)
(* fails, and one of the canonical format a beginning of the rules or      *)
(* fails, if it does not skip invalid lines of a binary file.              *)
(*                                                                         *)
(* Each condition is needed.  A load that skips invalid lines finds inside *)
(* an atom with line breaks, in a binary file or in a canonical one, even  *)
(* a whole one, a rule that nobody saved.  A star form loads as a list     *)
(* under the tag *, and a torn line of an advanced save as another rule.   *)
TornFilesAddNothing ==
  format \in {"canonical", "binary"} /\ AllSurvive =>
    /\ \A got \in Loads("canonical", {FALSE} \union {format = "canonical"}, FALSE) :
         got.ok => StartsWith(rules, got.rules)
    /\ \A got \in Loads("canonical", BOOLEAN, TRUE) \union Loads("binary", BOOLEAN, FALSE) :
         got.ok => got.rules = rules
=============================================================================

# A model of go-spocp

TLA+ modules of the SPOCP authorization engine and server in this repository,
the TLC configurations that check them, and theorems that TLAPS proves.

- Sources are named by path and line of the repository.
- `PROJECT.json` maps every definition that models code to its lines, and lists
  the runs, the mutants each property refutes, the findings, the hazards and the
  theorems.

## Inventory

| Part | State | Operations | Talks to |
|---|---|---|---|
| Comparison (`pkg/compare`, `pkg/starform`) | none | `LessPermissive`, `Match` | called by the engine for every rule it looks at |
| Engine (`spocp.go`, `persist_helpers.go`) | rules, tag index, atom index, `indexEnabled` | add, load, import, clear, query, find | no lock of its own |
| Adaptive engine (`adaptive_engine.go`) | an engine and statistics | the same, and `ForceIndexing` | decides the index strategy at every rule |
| TCP server (`pkg/server`) | engine pointer, `mu` (RW mutex), `reloadMutex`, metrics, listener, wait group, PID file | QUERY, ADD, RELOAD, LOGOUT, automatic reload, health listener, close | reads the rules directory; hands engine and mutex to the HTTP server |
| HTTP server (`pkg/httpserver`) | engine pointer, mutex pointer, metrics | AuthZEN evaluation, ready, stats, metrics | the engine it was given, or its own |
| AuthZEN (`pkg/authzen`) | none | request to S-expression | HTTP server |
| Client (`pkg/client`) | connection | query, add, reload, logout, with deadlines | TCP server |
| Wire protocol, S-expressions (`pkg/protocol`, `pkg/sexp`) | parser position | encode, decode, parse | server and client |
| Rule files (`pkg/persist`) | files | load and save in three formats | engine and server |
| Daemon (`cmd/spocpd`) | both servers | start, signal, shutdown | operating system |

What makes each correct, and what is hard about it:

- **Comparison.** `<=` must say what the rules mean: a request is granted exactly
  if it is one the rule describes, and S <= T only if T permits whatever S
  permits. Nine rules with early returns, six range types and missing or strict
  bounds make this hard to test by example.
- **Engines.** The index is a second copy of the rules. It must not change an
  answer, whichever sequence of adds, loads, imports, clears and strategy changes
  came before.
- **TCP server.** Connection handlers, the automatic reload and HTTP handlers
  share one engine under one RW mutex. A reload spends most of its time outside
  that mutex reading files that others are changing. Requests must act on one
  rule set, reloads must install whole readings and never go back, and failures
  must not leave a lock behind.
- **Metrics.** Atomic counters without a lock around them must still describe
  what happened.
- **Start and stop.** A start fails at any of five steps and must undo the others;
  `Close` must wait for every handler although connections still arrive; the PID
  file must survive kills; the end of `main` must not overtake `Close`.
- **Client and wire.** A call that times out leaves its answer, or a part of it, in
  the stream. Messages are lengths within lengths; a client may end in the middle
  of one. A decision must still be the answer to the right call, and the handler
  must carry out what was sent and nothing else.
- **Rule files.** A save truncates the file and writes it bit by bit. What a load
  finds at any moment must not be a rule that nobody saved, in any format.
- **HTTP and AuthZEN.** Handlers count and answer while others report and the
  server closes. The entries of a map come in any order, and properties stand
  beside the action and the subject in one list.

## Modules

| Module | Models | Builds on |
|---|---|---|
| `StarForms` | range, prefix and suffix forms: matching and containment | octet strings as an ordered set with prefixes, suffixes and dates |
| `Compare` | elements, `LessPermissive` | `StarForms` |
| `CompareSpec` | `Permits`, the meaning of a rule, and the properties of `<=` over all pairs of a universe | `Compare` |
| `RuleBook` | abstract: what an engine promises | |
| `Engine` | `Engine`, one action per operation | `Leq` is a constant here |
| `AdaptiveEngine` | `AdaptiveEngine` | `Engine` |
| `RuleStore` | abstract: what the TCP server promises its clients | |
| `Server` | handlers, locks, reloads, directory, HTTP evaluation | |
| `ServerMetrics` | the counters of the same server | `Server` |
| `Lifecycle` | start, `Serve`, `Close`, PID file, exit of the daemon | |
| `Wire` | octets, numerals, values behind their lengths | |
| `SExp` | S-expressions in octets: the printers and the parser | `Wire` |
| `RuleFiles` | the three file formats; a file that is saved, torn and loaded | `SExp` |
| `Protocol` | messages and responses in octets | `Wire` |
| `Session` | the client, the handler of its connection, two streams | `Protocol`; whether an argument is an S-expression is a constant, for which `MCSession` gives the parser of `SExp` |
| `AuthZen` | evaluation requests and their queries | `Compare` |
| `HttpServer` | its two modes, handlers, counters, reports, start and close | `AuthZen`, and by it `LessPermissive` of `Compare` |
| `MC*` | values for the constants | |
| `CompareProofs`, `EngineProofs` (both engines), `ServerProofs` (with the refinement of `RuleStore` and `ServerMetrics`), `LifecycleProofs`, `HttpProofs`, `WireProofs` (`Wire` and `Protocol`), `SessionProofs`, `RuleFileProofs` (`SExp` and `RuleFiles`) | theorems | the module in the name |

### Comparison

An element is a record whose `kind` is its Go type. Octet strings are abstract;
the code asks of them only their order, prefixes, suffixes and whether they are
RFC 3339 dates. `LessPermissive` has one disjunct per rule of the code, with the
early returns as guards. `Permits(t, g)` is an independent definition of what rule
`t` permits, and takes the order that the values of a range type really have.

The functions of the code call themselves for the parts of an element. These
calls are constants (`Below`, `Same`, `Grants`), to which every configuration
gives the function that is called, by way of `MCCalls`. TLC evaluates the
recursion; a theorem knows the equation `Below(e, f) <=> LessPermissive(e, f)`
(`CallsAreMade`), which together with the sizes of elements determines the
relation. A rule or a query is a finite tree, so that it has a size.

### Engine

`rules`, `tagIndex`, `atomRules`, `indexEnabled` are the fields of the struct;
indices start at 1. `pending` is the rest of the loop of a load or an import.
Queries are operators on the state: `Candidates` is the index lookup,
`Search` the loop over places, which permits, denies, or panics at a place past the
end of `rules`, `QueryElement` its answer, and `FindPanics` the same panic of
`FindMatchingRules`. `FindMatchingRules` has two loops in the code, over the places in
the index and over the rules; `FindAmong` and `FindLinear` are these loops.

`AdaptiveEngine` replaces the add by one that always fills the index and then
decides the strategy (`ShouldIndex`). A clear empties the index only while it is
in use (`spocp.go:175`), and `stale`, a history variable, remembers a clear that
left places behind.

### Server

Every goroutine has a program counter; the list is at the head of the module. The
two locks are `writer`/`readers` (the RW mutex `mu`, where an announced writer
keeps new readers out and its unlock lets the waiting readers in) and `reloader`
(the mutex `reloadMutex`). A local computation is one step with the lock
operation beside it, since no other goroutine can tell.

An engine is a set of rules here; which rules a query is below is `Leq`. The HTTP
server holds the engine that main gave it: `shared` says whether that is still
the server's, `held` is its content if not. The rules directory is the
environment's: `past` keeps every version of every file, `Edit` and
`ToggleDirectory` change it at any time. A reload walks the directory in one
step and reads each file in one step, with any edit in between.

`installed`, `added` and `asked` are history variables: the file versions in the
engine, the rules added since, and the versions at the arrival of a RELOAD.

`ServerMetrics` conjoins the counters to the steps of `Server` in which the code
counts. An atomic add that follows a lock release is counted in the step of the
release.

### Start and stop

`Lifecycle` has one program counter for the goroutine that creates and serves
(`main`), one for the goroutine in `Close` (`closer`), and one per connection;
the other goroutines of the wait group have a state each. `wg` counts as
`sync.WaitGroup` does, with its panic when it is entered again while a woken
waiter has not returned. A process is a `Daemon`, which ends when `Serve` returns
as `main.go` does, or `Embedded`, a program that goes on, as the tests do.
Sockets, signals and the removal of files are the operating system's: a process
that ends loses its sockets, and removing the PID file succeeds. An end of file
is one of the ways in which a read fails, because `DecodeMessage` wraps it
(`protocol.go:84`) and the comparison with "EOF" at `server.go:274` never holds.

### Octets: S-expressions, rule files and the wire

`Wire`, `SExp`, `RuleFiles` and `Protocol` are the only modules in which a string
is put together of its characters: their properties are about lengths, cuts and what
follows a cut. A printer returns the octets, a parser what it has read and what
is left, or that it failed; `Panic` and `Panicking` are slices that end before
they begin. `Protocol` tells a value from an invalid one and from an incomplete
one, for which the code would wait. A loop is a function of the number of its rounds,
and what calls itself a recursive function, so that theorems can be proved about
them. An element has a size (`SizeOf`), greater than those of its parts
(`ElementsAreBuilt`); `RulesFit` is what `saveBinary` would refuse to save
otherwise (`persist.go:211`, `224`).

`RuleFiles` has one file and two variables for it, `content` and `unwritten`:
`Create` truncates, `Write` moves any number of octets, `BreakOff` is the end of
the process or of the disk. Loads change nothing, so that each is an operator on
`content`, and the invariants load it in every format at every moment. `tokenize`
and `TrimSpace` work on runes in Go; here they work on octets, and what is true of the
advanced form is true of words in ASCII.

`Session` has a stream in each direction, of which the reader consumes a prefix.
The client's `Timeout` chooses how much of a response has arrived, consumes that
and makes the client usable again, as `sendMessage` does; nothing skips the rest.
`Leave` is a client that ends while it writes: half of the message, all but the
last octet, or all of it arrives. `ReadFails` is every end of the handler's loop
in a read: its deadline, the end of the stream, or an invalid message. An answer
remembers the octet at which it begins, so that a result can name the answer it
was read from.

### HTTP server

A request is a record, a map a function, and `ToSExpression` the set of the
queries for all orders in which Go may visit the maps. `Settled` are the requests
for which there is one order; `Plain` those without properties called `id` or
`type` beside the real ones and without arrays that look like another value.
As in `Compare`, the calls by which the conversion and the collection of values
enter a nested object are constants (`Written`, `Held`), and `MCHttp` gives them the
functions that are called.

A handler of `HttpServer` runs `handleEvaluation` or a report step by step: the
query, each counter, the answer. `granted` and `answered` are history variables:
what clients have been told. The engine is the server's own, loaded from a
directory whose files may be broken or empty, or that of the TCP server, to which
rules are added meanwhile; `Server` has the reload, after which this one keeps
the engine it has. `net/http` is external: it serves until it is shut down, and
`Shutdown` returns when no handler is busy or its context ends.

## Runs

| Run | What it shows | Instance |
|---|---|---|
| `compare` | a ground request is granted exactly by the rules that mean it; S <= T only if T permits what S permits; `<=` is transitive and antisymmetric | the pairs of 189 elements of all kinds, each property over the kinds for which the code keeps it |
| `engine` | the index is exact, queries and searches agree with the linear ones, the rule book is implemented | 4 rules, star forms as rules and queries, files of 1 and 3 rules; 3324 states |
| `adaptive` | no answer depends on the strategy, but a query may panic over what a clear left in the index; the index covers the rules and is exact unless a clear met an unused index; the statistics count and name the strategy | 4 rules, thresholds small enough for every turn of the strategy, at most 3 places left behind; 72379 states |
| `server_shared` | mutual exclusion; the server implements `RuleStore` | 2 connections, automatic reload, 1 HTTP request, 1 file; 1.15 million states |
| `server_reload` | whole, fresh and never older rule sets; gauge and query counters | 1 connection, automatic reload, 2 files edited once each, 4 arrivals; 2.3 million states |
| `lifecycle` | a closed server serves nobody; `Close` returns; the PID file names the server; a failed start leaves nothing | a daemon and an embedded server one after the other, 2 clients, kills anywhere; 207887 states |
| `rule_files` | printed rules parse as themselves, and cut off as nothing; whole files load as what was saved, with limits; torn ones as a beginning or not at all, unless a text load skips the invalid lines of a binary file | lists of up to two rules in three formats, every cut, every format of loading; 5125 states |
| `session` | the handler carries out what was sent, in order; a decision is a whole answer, to its own call unless an earlier one timed out, and late by at most as many calls as came back undecided; calls return, and a handler ends with its client | 3 calls of a QUERY with a list, an ADD of an atom and a LOGOUT, every cut of a response at a deadline, 3 cuts of a message; 207603 states |
| `http` | a clean close leaves nothing running; reports count all answers; grants stand; different plain requests ask different queries | 2 handlers, 2 evaluations, any number of reports, 5 requests, 3 rules; 1.02 million states |
| `server_live` | every request is decided; edits take effect | 1 connection, automatic reload, 1 HTTP request, directory failing at will; 56278 states |

Why the bounds are enough: the engine's operations treat rules by kind and tag,
and four rules contain every pair of kinds and tags, twice the same tag and the
same rule twice. The thresholds of the adaptive engine are constants, and small
ones make the strategy turn at the second and the third rule. In the server, one
reload can be overtaken by another in every step, with edits in between; each
file has a version before and after, which is what "older" and "partial" need.
The number of requests is not bounded except where they are counted
(`MaxArrivals`). Two clients are what a late connection needs: one that `Close`
waits for and one that is accepted meanwhile. The second process meets whatever
the first, closed or killed, has left.

In `session`, three calls let two timeouts pass before a decision and let a
misread response be followed by another; an atom as the argument of an ADD is
itself a length and a value, which a message with one length too few would pass
for two arguments. A RELOAD is on the wire like a LOGOUT that does not end the
session, and is not among the calls of the instance. In `http`, an evaluation
can meet another one, a report, an added rule or a close in every step; five
requests hold a property named like the subject, a context, a type in the place
of an id, and one with two orders.

Deadlock is checked in all runs except those of `Lifecycle`, `Session` and
`HttpServer`, whose processes end: a clear, a forced strategy, a tick or a save is
always possible.

The sets over which `compare` quantifies leave out what the code decides on
another order than the meaning: containment of strict bounds, of date bounds, and numeric ranges with bounds whose text
order is not their number order.

### Disagreements between code and documents

These runs expect a violation; `PROJECT.json` quotes the lines.

| Run | The code | The document |
|---|---|---|
| `server_http` | after a reload HTTP decides on the old rules | "evaluate against the same rule set" |
| `lifecycle_exit` | the daemon exits when its listener is closed, with connections open and the PID file in place | "Automatically cleaned up on shutdown" |

Seen while modelling, in the definitions, and without a run of their own:

- `compare.go:161`: the operators of bounds are not compared, so that `[ge a]` is
  `<=` `[gt a]`, which permits one value less (README.md:264: "A grants fewer
  permissions than B"). `Contained` of `MCCompare` leaves strict bounds out.
- `spocp.go:175`: a clear with indexing off leaves the index filled, and a query
  with indexing on then reads past the end of the rules and panics: add a rule,
  `Clear`, `ForceIndexing(true)`, query
  (docs/ADAPTIVE_ENGINE.md:254: "Always maintains index structures"). Hence the
  condition `~stale` in the properties of `AdaptiveEngine`, and the exception in
  `StrategyChangesNoAnswer`, which says that a query there panics or answers as
  without the index.
- `spocp.go:100`: the index misses rules that are star forms themselves
  (adaptive_engine_test.go:152: "regardless of indexing state"). Hence the
  condition on `StarForm`.
- `client.go:204`: after a timeout the client can be used again, and takes the
  answer to the earlier call, an ADD perhaps, for the decision on its query.
  `DecisionsAreAnswers` says how late it can be. A call that ends in an error can
  push the answers back by one as well, after a timeout: the rest of an answer, read
  as an invalid response, leaves the next answer where it is (six calls of RELOAD
  show it; three calls do not).
- `server.go:274`: the handler means to be silent at the end of a stream, and says
  "Protocol error" instead.
- `persist.go:370`: `tokenize` takes lists apart to a depth of one, so that an
  advanced form with deeper lists, or one cut off by a broken save, loads as other
  rules. `Survives` names what each format can hold; star forms come back as lists
  under the tag `*`, and empty lists as atoms.
- `persist.go:417`: the test for the last rune of the line compares an index in
  octets with a number that only a rune of one octet can reach: a last token that
  ends in a longer one is lost.
- `persist.go:135`: a text load that skips invalid lines can find, inside an atom with
  line breaks, a rule that nobody saved: in a canonical file, torn or whole, since a
  save writes line breaks as they are, and in a binary file under another name.
- `persist.go:68`: the format of a save is an argument, that of a load the name of
  the file: a binary file under another name fails to load.
- `persist.go:288`: a length in a binary file is allocated before it is read.
- `authzen.go:87`: the order of properties is that of a map, so that a rule that
  reaches two or more of them grants the same request at one time and not at
  another.
- `authzen.go:161`: the comment makes lists of the items of an array; the code makes
  atoms.
- `httpserver.go:347`: the counter called total leaves out the requests that were
  errors.
- `compare.go:47`: when T is a star form, `compareStarForms` decides and knows
  nothing of sets, so that rule 8 of the comment (line 21) is out of reach and a
  set is not `<=` itself.
- `compare.go:161`: date bounds are contained as texts and matched as instants.
- `starform.go:149`: numeric ranges are matched as texts.
- `starform.go:232`: `matchIP` ignores the difference of strict and inclusive.
- `adaptive_engine.go:144`: `Clear` resets `stats.IndexingEnabled` and not the
  flag that queries read.
- `adaptive_engine.go:117`: the next rule overrides `ForceIndexing`.
- `server.go:612`: an ADD to an empty server leaves it "not ready".
- `server.go:162`: a second instance that cannot listen removes the PID file of
  the first (`MayOverlap = TRUE`); both write the same temporary file.
- `server.go:241`: `wg.Wait` panics if the last handler leaves and a connection
  accepted before is counted only then (`WakeUp`).
- `httpserver.go:260`: the comment promises to close connections after the
  timeout and to wait for goroutines; `Close` only returns an error
  (`ShutdownTimesOut`).
- `httpserver.go:238`: `Start` never returns the error of a taken port.
- `main.go:128`: the interval and the PID file given to a stand-alone HTTP server
  are not used.
- `server.go:479`: an automatic reload is counted only when it fails.

## Fairness

`FairSpec` of `Server` assumes that goroutines are scheduled (weak fairness of
`Proceed`), that the ticker ticks, and that whoever waits for a mutex that is
released again and again gets it in the end (strong fairness of `Announce` and
`StartReload`): a `sync.Mutex` goes into starvation mode after a millisecond and
serves the longest waiter. Readers need no strong fairness, since an unlock lets
all waiting readers in. Clients, editors of files and the sending of responses
are not fair: a client may stop reading, and the liveness properties hold all the
same because no lock is held then.

`FairSpec` of `Lifecycle` assumes that goroutines are scheduled, that a read ends
at its deadline, that a reload ends (`RequestsAreDecided` and its kin in
`Server`), and that a `select` with two ready cases takes each in the end. A
write has no deadline, so nothing is assumed of `Send`, and `CloseReturns` makes
an exception for a client that never takes its response.

`FairSpec` of `Session` assumes that a read of the client ends, at the latest at
the deadline of 30 seconds, that a read of the handler ends, at the latest at
its deadline of five minutes, and that a handler which has a response writes it or
fails. That a message is read before the deadline is not assumed. Nothing is assumed of the user of the client. Responses
are short, and their writes do not block; `Lifecycle` has the one that does.

## Proofs

TLAPS proves these for all values of the constants, under the assumptions that
the modules name and TLC evaluates.

- `StarForms`: `StringOrder`, `AffixOrder` (the order and the affixes of strings)
  and `DatesHaveInstants`. The containment tests for prefixes, suffixes and text
  ranges are sound; the theorem on ranges has the side condition
  `KeepsStrictness`, without which `[ge a]` below `[gt a]` is the counterexample.
- `CompareSpec`: all four properties, for elements of any depth and width, and that
  no rule relates lists under different tags, which is what `LeqRespectsTags` asks
  of the relation. What is assumed of elements is that they are built as a parser
  or a program builds them (`ElementsAreBuilt`, `ClosedUnderParts`,
  `RequestsAreGround`), and three things that name the limits of the code:
  `OrdersAgree` (a range type whose values are ordered as the code orders them),
  `InclusiveRanges` (containment and order leave out dates and strict bounds) and
  `OrderedHasNoSets` (a set is not `<=` itself). There is no induction rule for
  such data that the provers can use; instead, of all counterexamples one has the
  least size (`Smallest`, from the well-foundedness of `<` on the naturals), and a
  step lemma (`GroundStep`, `ContainedStep`, `TransitiveStep`, `AntisymmetricStep`)
  finds a smaller one among the parts of its elements. Containment needs the first
  theorem: what a rule means is what is below it.
- `Engine`: `ElementsHaveTags` and `LeqRespectsTags` (only a star form relates a
  list to another kind or another tag; the MC modules instantiate `Leq` with
  `LessPermissive`, so that TLC checks this of the real relation). `TypeOK`
  and `IndexExact` are inductive together. From them follow exactness of the index, the absence of
  panics and the equality with the linear search. `FindMatchingRules` gives the
  same rules in the same order as well: `LoopExists` unfolds its loops, and
  `InvFindsLinear` walks along the rules, where the loop over the index has at
  every place what the loop over all rules has. The refinement of `RuleBook`
  maps the book to `rules \o pending`: an operation is a step, the rounds of its
  loop are stutters.
- `AdaptiveEngine`: the index is exact whatever `indexEnabled` is while `~stale`;
  `NoPanicUnlessStale` follows. After a clear that left places behind,
  `IndexCovers` still holds, inductive with the type invariant alone. A hit at
  any place of the index, stale or not, is a rule that the linear search finds as
  well, and by `LeqRespectsTags` a rule outside the list of its tag answers
  nothing, so that even then a query that does not panic is answered as without the
  index; and while `~stale` every place in the index is that of a rule, so that none
  panics (`AnswersIgnoreStrategy`, from both invariants). That the statistics count
  the rules (`StatisticsAreRight`) needs the cardinality of the places of lists and
  of others: a new rule adds one of them. While there are rules, the strategy they
  name is the one in use.
- `Server`, from `SetsAreDisjoint` and `BoundsAreNat`, for any number of
  connections, tickers, HTTP requests, files and edits: types, mutual exclusion,
  `EngineIsWhole`, `InstalledNeverOlder`, `ReloadIsFresh`. The inductive invariant
  `IInv` has five parts. `TypeInv`: types, and that what a goroutine does fits its
  kind and its request (nobody but the sender of an ADD or a RELOAD writes).
  `LockInv`: the fields of each lock name exactly the goroutines whose program
  counters are in the steps it protects. `FilesInv`: installed versions exist and
  parse, and with `added` they make up the engine. `ReloadInv`: what the
  loading goroutine, of which `LockInv` leaves one, has read so far is whole, and
  of every file as new as what is installed and as what its client asked for;
  this is what `reloadMutex` is for, and no property of the runs says it.
  `FreshInv`: the same of a reload that is over and not answered.
- `Server` implements `RuleStore` (the end of `ServerProofs`). A request takes effect in
  the step `Query`, `Add`, `Swap` or the failure of its reload, and all other
  steps are stutters; an unlock that lets readers in is one because they stay in
  their phase. `NoAnswerYet` is the one invariant it needs beside `TypeInv`.
- `ServerMetrics` (the end of `ServerProofs`), from `ConnIsFinite` besides. `MetricsSpec` implements `Spec`, so
  that `IInv` holds of it. `DecisionsAreQueries` is inductive with the types of the
  counters: a query is counted before it enters `Deciding`, the set of those being
  decided, and a decision is counted when it leaves. `GaugeInv` says what the gauge is while a
  reload has installed its files and not yet published their number
  (`Publishing`), which only the holder of `reloadMutex` can be.
- `Lifecycle`, from `ClientIsFinite`. `IInv` has seven parts: types; no goroutine
  besides `main` before `NewServer` has returned (`CreationInv`); the port belongs
  to a process that has not closed its listener (`PortInv`); who serves a
  connection is alive (`ConnInv`); the wait group counts the handlers, the health
  check and the ticker (`GroupInv`); a closer past its first steps has cancelled
  the context (`CloserInv`); and `ClosedIsClosed` itself, which is not a
  consequence of the others: `wg` reaching zero is a moment, and that nobody enters
  afterwards is what is proved. The theorems on the PID file and on failed starts
  have the hypothesis `~MayOverlap`: two instances at once do remove and overwrite
  each other's file, as listed above. `OneAtWork` and `PidInv` carry them.
- `AuthZen` (the beginning of `HttpProofs`), from `ValuesAreDecoded` and
  `RequestsAreDecoded` (values are built by a JSON decoder: finite maps, values inside
  values less nested) and `ValuesAreVisited` (a call gives what the function gives). Two
  values that read uniquely and may be written alike are the same: strong induction
  on the nesting, and in one map every order of the keys is a bijection, so that the
  entries that were written tell the map (`MapsAreTold`). The lists of a query are then
  told apart by their tags, because no property is called `id` or `type`
  (`QueryTellsRequest`); properties called `action` or `subject` do not matter,
  since the real ones are counted from the end. A request with one order has one
  query (`OneOrderOneQuery`), by the same induction.
- `HttpServer`, from `HandlerIsFinite` besides. `LifeInv`: after an
  orderly close no handler is left, and none comes. `CountInv`: what has come
  in is what the counters say and what is still under way, and no counter is behind
  what has been answered and what is about to be, as cardinalities of the sets of
  handlers in each stage. `ReportInv`: what a report
  has loaded lies between what had been answered when it was asked for and what the
  counters say now, which only grow. `GrantInv`: behind each grant, and each handler
  about to give one, is a rule, and rules only grow while handlers run; and what a
  handler asks is a query of its request, from which `SameQuerySameRequest` follows.
- `Wire` and `Protocol` (`WireProofs`), for any octets: a numeral is digits without a
  colon and reads back as its number (`ValueOfDecimal`, by the least number of
  which it fails); a value behind its length is read exactly, whatever follows it,
  and a cut one is never taken for a value; so are whole messages and responses
  (`MessagesArriveExactly`, `CutMessagesAreWaitedFor`, `ResponsesArriveExactly`).
  The loop over the arguments is a function of the number of rounds, so that the
  induction over arguments is one over numbers.
- `Session`, from `RequestsAreMessages` and for any messages, number of calls and
  cuts. `RequestInv`: the octets that the handler has not read are the encodings of
  the messages still to come, of which the last may be cut if the client is gone;
  `ExecutedInOrder` follows. For `DecisionsAreAnswers`, `TurnInv` says whose turn it
  is and how many calls, messages and answers that makes, `ReplyInv` that the
  unread responses are a tail of the encoded answers and where each answer begins,
  and `CallInv` what each result was read from. The centre is `NoDecisionInside`:
  the octets from any place inside an answer do not read as one of the
  responses that a client takes for a decision, because texts are letters and a
  code is digits. So a client that is out of step finds a decision only where an
  answer begins; one without a timeout behind it is never out of step
  (`Lockstep`); and each answer passed over belongs to a call that came back
  undecided, an injection between finite sets (`DecidedCallsAreFew`).
- `SExp`, from `ElementsAreBuilt`: the recursive functions exist (`RecursionExists`, by the
  size of an element or the length of the input: every call of `Parse` reads less, as
  `ParserEnds` says), so that their equations may be used. `PrintedElementsAreRead`: an element without star
  forms is read back as itself, whatever follows it, and read up to any cut of it is a
  failure; of the elements for which this fails one would be the smallest, and its
  parts are read. `CutsMeet` finds the place where a cut of a concatenation falls.
- `RuleFiles`, from `RulesAreElements` and `RulesFit`. `FileInv`: what the file
  contains, followed by what is unwritten, is a beginning of what the save
  writes. From it: a load of the binary format gets all the rules or fails
  (`BinaryFilesAreWhole`), since it counts them and each says how long it is; a load of
  the canonical format gets a beginning of the rules or fails (`CanonicalFilesBegin`), since the
  lines of a beginning are those of the file and perhaps a part of one more, and a part
  of a rule is none; and neither takes the other's file for its own, by the first octet.
  `TornFilesAddNothing` is these four, for the saves of its conditions: canonical or
  binary, of rules that the format can hold. `SavedFilesLoad` is proved for every limit and
  the three formats. For the advanced one, `TokensToCanonical` has equations because
  the longest token that opens is shorter in each call than in the one before
  (`Longest`, a least element); `tokenize` of what is printed ends each word at a
  space and each list at its last parenthesis (`Scans`, composed along a
  concatenation), so that the line of a rule the format can hold is
  converted to its canonical form (`AdvancedLinesConvert`), and the lines of such a file
  are loaded one by one (`AdvancedFilesLoad`).

Only model-checked: liveness, as fairness and `ENABLED` are out of the prover's reach.
The two runs that expect a violation check sentences that the code contradicts. Every
other property of a run is stated by a theorem.

## Plan

Done: every component with state, and the theorems above.

## Not modelled

- The command line client (`cmd/spocp-client`), flags and terminal input and output
  around the client.
- The performance tools and examples, which measure or demonstrate the library and
  have no state of their own.
- Log output, the texts of reports and of errors, and TLS, which `crypto/tls` does.
- `/health` and `/ready` of the HTTP server, which read one number or nothing.
- A length in a canonical form that does not fit an int, for which `strconv.Atoi`
  returns an error. `ParseAtom` reads a number of any size: a large one fails as well,
  because no input is as long; one below every int panics, as other negative lengths do.
- The end of the process when the parser panics at a negative length: `Session` makes
  it an answer that reports a failure.
- Lines of rule files longer than the buffer of `bufio.Scanner`, and files larger
  than one read: a load that is overtaken by a save sees one moment of the file.
- What two users of one client would do to each other: it has no lock, and its
  documents promise none.

# Verification of Yearning-sql-proxy

The proxy speaks the MySQL protocol to clients such as DataGrip and runs their
read-only statements on Yearning, over HTTP for log-in and schema lists and over
one WebSocket per data source for queries. This directory models it in TLA+,
checks the models with TLC and proves theorems about them with TLAPS. Every
definition is translated from the Go source; `PROJECT.json` maps each to its lines.

    tlc -workers 2 -config WsSession_safety.cfg WsSession.tla
    tlapm WsSessionProofs.tla

## Inventory

| Component | Source | State | Operations | Interacts by |
|---|---|---|---|---|
| Server | `main.go` | listener, one goroutine per client | accept loop, `handleConn`, shut-down | calls the handler; shares client, cache and audit log |
| Query path | `proxy/handler.go` | `h.schema`, `h.user` | `HandleQuery`, `UseDB`, `execQuery`, `targetSources`, `resolveSource` | calls the three below |
| Metadata cache | `metacache/cache.go` | `entries` under an RWMutex, one per process | `Get`, `Set`, `Delete` | shared by all connections |
| Query execution | `proxy/handler.go` | `h.sessions` under `h.mu`, a semaphore per query | `sessionFor`, `dropSession`, `execAcross`, `execQueryRaw`, `Close` | dials and uses sessions, one goroutine per source |
| Query session | `yearning/ws.go`, `client.go` 379-472 | `msgCh`, `done`, the `once`, the write mutex | `Exec`, `keepAlive`, `readPump`, `Close` | three goroutines, a channel, a socket |
| Yearning HTTP client | `yearning/client.go` | token, source list, schema map under `c.mu`, one per process | `Token`, `doJSON`, `Sources`, `SchemaMap`, `EnsureQueryOrder`, `ClearToken` | shared by all connections |
| SQL classifier | `classifier/` | none | `SplitStatements`, `CheckReadOnly`, `Classify`, `ShrinkSQL` | called first by `execQuery` |
| Local answers | `proxy/probe.go`, `proxy/routine.go` | none | faked probes, `SHOW CREATE PROCEDURE` | called by `execQuery` |
| Result conversion | `resultset/convert.go` | none | `Convert`, `alignKeys`, `Columns` | called on every answer |
| Codec | `msgpack/codec.go` | none | encode, decode | used by `Exec` |
| Audit | `audit/` | file, `broken` under a mutex | `Record`, `Close`, `Aggregate` | called after each command |
| Configuration | `config/config.go` | fixed after start | `Load`, defaults, `Validate` | read by all |

What makes each correct, and what is hard about it:

* **Query session.** An `Exec` returns its own result and returns at all; a dead
  session says so, ends its goroutines and gives its socket back. Hard: three
  goroutines, a full or closed channel, a socket that fails in one direction only,
  results without request ids.
* **Query execution.** No session is lost or used after it was dropped, the fan-out
  is bounded, every query is answered. Hard: workers dial with `h.mu` released and
  meet in the table; sessions die at any moment; the retry paths.
* **HTTP client.** One log-in at a time, no request with a token known to be
  refused, whole and unmixed lists and maps. Hard: read lock, then network, then
  write lock; partial failures; shared by all connections.
* **Query path and cache.** A statement goes to the source of its database and gets
  an answer about that statement, no older than promised. Hard: the map loads lazily
  in the middle of the routing, one cache serves connections with different
  databases in use, entries age while queries run.
* **Classifier.** What is forwarded means what the client sent. Hard: quotes,
  escapes and comments.
* **Prepared statements, local answers, results.** An argument arrives as the value it
  was sent as; a `LIKE` filter keeps what `LIKE` keeps; a value of a merged result stands
  under its own column. Hard: arguments that become part of the text searched for the
  next placeholder; a greedy search; missing and repeated column names.
* **Server, audit.** The log has no holes, a connection that ends leaves nothing, the
  process ends when it should, no data reaches the log, the report adds up. Hard: events
  after `Close`, a write that fails half-way, a crash and a restart with the same file,
  panics, an `Accept` error that ends the process.

`PROJECT.json` lists the hazards line by line with the properties that cover them.

## Modules

```
Server                                                 process, connections, audit log
  | runs the commands of
QueryPath  ------ relies on -----+                     statements, routing, cache
  | one step is                  v
QueryExec                 SchemaDirectory              one query, its workers
  | relies on                    ^
  v                              +-- implements -- YearningClient   token, list, map
SessionContract <-- implements -- WsSession                         one query session

SqlText  SqlMeaning  Prepared                          text of a statement
LikeMatch  ResultMerge                                 answers
AuditText  Report                                      audit log
TextCalls                                              calls of the four without a state
WsSessionProofs  YearningClientProofs  QueryExecProofs proofs
QueryPathProofs  ServerProofs  TextProofs
SetFacts  Folding
MCQueryExec  MCServer  MCYearningClient  MCQueryPath  MCSqlText  MCText
```

The modules meet at contracts, not in one product:

* `QueryExec` takes of a session what `SessionContract` promises, plus the one thing the
  contract leaves open, an `Exec` that starts on a dead session and may hang (`Hangs`,
  see `ws_drain_spins`). `Hangs` over-approximates: it allows the hang whenever the
  session is dead by then.
* `QueryPath` has `execAcross` as one step that reads some non-empty set of the targets,
  or fails, and `SchemaMap` as `MapCached`, `MapMissing`, `MapLoaded`, `MapFails`.
  `YearningClient` is the detailed model of the latter. What `QueryPath` takes for
  granted of list and map is written in `SchemaDirectory`, whose steps are among its own;
  that the client, with its requests, locks and tokens, does nothing else is what has
  content, and is checked and proved (`ImplementsDirectory` of `YearningClient`).
* `Server` has a command as start and end, between which it may leave sessions, panic or
  never return.

### WsSession

`pc["exec"]`, `pc["alive"]` and `pc["pump"]` are the handler goroutine (`Exec`,
`Close`), `keepAlive` and `readPump`. `msgCh`, `chClosed`, `done`, `once`, `writeL`
are the fields of `gorillaConn`; `sock`, `rd`, `wr` and the two pipes are the
network. A message is the number of its `Exec` call, or `Beat` for all that `Exec`
skips. One action is one step another goroutine can see: taking the write mutex,
writing, the two halves of `close()`, reading the socket, the `select` of `readPump`,
closing the channel. `Exec` runs once at a time per session, as the handler of one
target does; that two workers share a session when a source id is repeated is a
listed hazard without a property.

### QueryExec

The workers of `execAcross` (for one target there is a single worker without the
semaphore), each at a label of `sessionFor`/`execQueryRaw`: `queue`, `look`, `dial`,
`redial`, `add`, `exec`, `drop`, `reexec`, `retry`. `live` holds the sessions whose
`done` is open; `Die` may take any of them at any time. `MCQueryExec` repeats one
source id (two source names with one id), so that two workers of a query meet in
`sessionFor` and `dropSession`.

### YearningClient

Each caller is a goroutine in one of the methods. `c.mu` is held across steps only
by a log-in (`writer`); every other critical section is one step. Sources are
numbered in name order, tokens in the order of issue; `Expire` is Yearning's.

### QueryPath

Each connection walks one statement through `execQuery`: `look`/`again` are
`SourceBySchema` before and after the map is loaded, `user` is `ResolveSourceID`,
`map`/`walk` are `SchemaMap`; `stage` says whether `targetSources`, `resolveSource`
or its last resort is looking. Then `get`, `purge`, `exec`, `set`. A statement has a
text and the record of what the code finds in it: its database (`extractTargetSchema`),
whether it mentions `information_schema` (`needsAllSources`), whether it is
cacheable (`isCacheableMetaQuery`), whether it is `SHOW DATABASES`. `NormalOf` is what
`normalizeSQL` makes of a text, of which the cache key consists: two texts may have one.
A query is answered, fails, or hangs on a session that has just died (`ExecHangs`, as
`ws_drain_spins` shows it can); a `SHOW TABLES` of a client without a database in use is
refused by the server and not cached (`Refused`). Time is relative:
`Tick` ages entries and answers under way. `Get` and the `Delete` it makes for an
expired entry are separate steps, as they are separate critical sections.
Statements that are rejected or answered without state are left out.

### SchemaDirectory

The list of sources is filled in once (`List`); a stored map is that of one walk that some
of the listed sources answered (`Store`). `YearningClient` maps its `source` and
`schemaMap` to it.

### Server

`main` and `listening` are `main`'s accept loop and its listener, `conn[c]` is the label of
`handleConn`, with the deferred calls as `Unwind`. `log` is the audit log's file and
`broken` latch, `torn` says that the file ends in half a line; `readable` and `garbled` are
the events of this start that `ReadEvents` returns and skips. `Crash` may come at any time
(a kill, or a panic in a goroutine without `recover`); `Restart` opens the same file.

### SqlText, SqlMeaning

`stripComments` and `ShrinkSQL` as one scanner with a mode, byte by byte; they are
written out twice in the code and differ in what they write (`fn`). `ShrinkSQL` is
exported and tested on its own, so any text is an argument of it; a statement that
passed `stripComments` goes on to it (`Shrink`). Backticks, in which MySQL knows no
escapes and both functions do, are not in the alphabet.

`SqlMeaning` compares what the scanner wrote with an independent recursive lexer of
MySQL's rules (`Lex`, `Meaning`). `NormalizeSQL` is the text of the cache key, made with
regular expressions that know nothing of literals: `KeyKeepsMeaning` says which
statements may share a key, and names those that do but should not. MySQL acts on the
comments `/*! ... */` and `/*+ ... */`; the lexer has them as lexemes that mean something
(`hint`; `!` stands for both signs), and as both functions of the code drop them with the
rest, the texts that have one are an exception `StripKeepsMeaning` and `ShrinkKeepsMeaning`
name. The lexer is a module
apart from the scanner, as `RECURSIVE` keeps a module out of the prover's reach.

### Prepared, LikeMatch, ResultMerge, Report, AuditText

Functions without state: `interpolate`, `likeMatch`, `Convert`, `Aggregate`, `maskLiterals`,
each against a definition of what it should compute. Where the code is wrong at an edge the
comparison names the edge: an argument with a question mark or a backslash, a `_` before
the first or after the last `%`, a quote in a comment, a source that repeats a title. The
rows of several sources are compared by the titles the sources send, not by the names
`Columns` numbers. A loop of the code is a fold of its
body (`PutFirst`, `After`, `Count`); the sort of `percentile` is by rank (`Rank`, `Sorted`),
and `LIKE` itself a function of how much of the pattern has been used (`SqlLike`). `TextCalls`
states of one call, the value of its variable `call`, what the first four promise. `MCText`
adds that of `maskLiterals`; its initial states are the calls, its invariants the promises.

## Runs

| Run | Question | Bounds |
|---|---|---|
| `ws_safety` | whose result does an `Exec` return; what may a full channel drop; does the connection implement `SessionContract` | 3 calls, capacity 5 |
| `ws_liveness` | does a broken session die, end its goroutines, free its socket; does `Exec` return | 1 call, capacity 2 |
| `exec_all` | leaks, fan-out, fresh reconnects, answers; and of `Server`: holes in the log, what an ended connection leaves, does the process end | 3 workers over 2 sources, 2 slots, 3 sessions per source; 2 connections with 2 and 1 events |
| `client_all` | log-ins, redial, lists and maps under concurrency; does the client implement `SchemaDirectory`; do calls return | 2 callers, 2 sources, 2 tokens |
| `path_all` | where a statement goes, whose answer it gets and how old; does it get one | 2 clients with 2 and 1 commands, 2 sources, 2 databases, TTL 1 |
| `text_all` | do stripping, shrinking and cache keys keep the meaning; do the functions without state compute what they should | texts ≤ 5 of 11 bytes; see below |
| `ws_late_answer` | finding | 2 calls |
| `ws_drain_spins` | finding | 1 call |
| `exec_stale_retry` | finding | as `exec_all` |
| `client_partial_map` | finding | 1 caller |
| `path_cached_database` | finding | 2 clients with 2 commands each, 1 source, 2 databases |
| `text_shrink` | finding | 5 bytes of 4 |

Why the bounds are enough:

* `MaxQuery = 3`: an abandoned call, the one that takes its result, and one more
  that takes that one's. `Cap = 5` stands for 64: it must hold one beat on the wire,
  one in the pump's hand, one per ping of a call and the abandoned results, and 64
  relates to a call's pings (`timeout.query` / 10 s) in the same way; a channel too
  small for that does drop awaited results, and TLC shows it.
* Two workers on one source and one on another are the cases of meeting and of
  running apart; two slots for three workers make one wait.
* One token expires while two callers hold it; a second log-in succeeds. Two sources
  share a schema and each has its own, so that a map built of two walks differs from
  the map of either.
* `path_all` gives one client two commands and the other one: an answer cached by
  either, aged, served to the other with another database in use, or purged while the
  other sets it. `c1` asks for all columns, for one table of database 1, and `SHOW
  DATABASES`, `c2` for all columns and for a table whose text `normalizeSQL` makes that of
  `c1`'s. `c1` has a source's name as user name, `c2` a database's. TTL 1 and
  one tick of delay give fresh, last-moment and expired entries.
* `Server`: an event before and one after that of another connection, a write that fails
  between them, a crash or an exit at any point, and as many restarts as there may be
  (nothing counts them).
* The scanners look two bytes ahead; five bytes hold an opening, an escape, a close
  and what follows.
* `Prepared`: templates of up to 4 bytes with up to 2 placeholders, arguments of up to 2
  bytes: an argument before another, each with a quote, a backslash, a question mark.
  `LikeMatch`: names and patterns of up to 4 bytes, so up to 4 `%` with parts between them.
  `ResultMerge`: no source, one, and two with up to 3 columns of 5 kinds: every way in which
  names are missing, repeated, made up and in another order. `AuditText`: texts of up to 5 bytes,
  with the limits 1 and 2 for the 8 and 6 of the code, which the function only compares
  with. `Report`: all logs of up to 3 events, and up to 24 forwarded ones, for a p95 that is
  not the longest time.

`exec_all` and `text_all` hold several components: a behaviour is one of one of them
(`part`, `call`), so that the runs stay as few as the questions; they share no state.

Counters are bounded in guards by `MaxQuery`, `MaxBeats`, `MaxTicks`, `MaxPerSource`,
`MaxToken`, `MaxCommands`, `MaxEvents`, `MaxDelay`, `MaxLen`. Deadlock is checked except in
`QueryExec`, where the connection ends with `Close`, and `SqlText`, where the scan ends
and a call has no steps.

### Fairness

Goroutines that can run do run (weak fairness), and a mutex that is released again
and again is obtained (strong fairness: Go's mutexes do not starve waiters).
A read of `msgCh`, `done` and the deadline is a `select`: if nothing comes the
deadline does (`ExecTimeout`). A stalled write ends, with the kernel's own time limit
if with nothing else (`UnblockWrite`); `keepAlive`'s ticker always ticks. Nothing is
assumed of the server: it need not answer, nor keep the connection. HTTP requests end
by `timeout.connect`, dials by theirs. In `QueryPath` each connection's goroutine goes on
with its statement; its query ends by `timeout.query` or hangs, and that is not assumed
away: `ExecHangs` is one of the steps, nothing follows it, and `QueriesAnswered` says that
a connection is at rest again and again, or in that state. In `Server` a command ends unless it hangs,
`handleConn` unwinds, and `main` goes on once the listener is closed; a client that is
silent in the handshake is waited for, as the code sets no deadline, and nothing makes
clients or signals come. Time itself (`Tick`), deaths, expiries and
client commands are not fair, except in `BusySpec` of `client_partial_map`: clients
keep asking for the map, and still it does not become whole.

## What the runs refute

Six statements of the documentation or of comments do not hold; `PROJECT.json`
quotes them.

1. `ws_drain_spins`: once `readPump` has closed `msgCh`, `drainPending` receives for
   ever; an `Exec` that starts on a session that has just died never returns.
2. `ws_late_answer`: after a timeout the session stays in use and the next `Exec`
   returns the late result; each later one its predecessor's.
3. `exec_stale_retry`: after a reconnect the retry that follows a query order uses
   the old, closed session.
4. `client_partial_map`: a walk in which one source did not answer is cached as the
   whole map until the process ends.
5. `path_cached_database`: the cache key has no database, so two databases of one
   source share the answer to an unqualified `SHOW TABLES`: each of two clients has
   another in use, and the second to ask gets the tables of the first one's.
6. `text_shrink`: a line that ends in `--` is no comment to the scanners; joined to
   the next line it becomes one, and the server skips the rest.

A seventh disagreement has no run of its own and is stated at `RowsAligned`. The comments
of `convertMerged` and `alignKeys` (`resultset/convert.go` 44 and 79) say that a source
whose column names repeat cannot be aligned and is given up. The check at line 81 looks at
the names `Columns` has numbered (`a`, `a(1)`), which differ, so the two columns called
`a` of such a source are merged with those of another in the order in which they come:
with the titles `a`, `a` and the keys `x`, `y` in one and `y`, `x` in the other, the
values of `x` stand under those of `y`. `MergedRows` is therefore about sources that
repeat no title; without that condition `text_all` fails.

## Proofs

`WsSessionProofs` proves, for every number of calls, every capacity and every number
of beats, from `BoundsAssumption` alone:

* `TypeCorrect`: `Spec => []TypeOK`, by one lemma for each named part of `TypeOK`.
* `ClosedSessionsAreDead`: `Spec => []ClosedMeansDead`. The inductive invariant
  `DeadInv` adds where the pump and the once are: the pump reaches the step that
  closes `msgCh` only after `done` is closed by whoever won the once.
* `AnswersCorrect`: `Spec => []AnswersOwnUntilAbandoned`. By itself that is not
  inductive: what a call returns depends on what is under way. `AnswerInv` looks at
  the whole pipeline, server, wire, pump and channel (`InFlight`): the results in it
  are in the order of their calls (`OrderInv`), belong to calls that were made and
  not answered (`CallInv`, `FlightInv`), and lie behind all results handed out
  (`ResultInv`). So a result that an `Exec` finds, when no earlier call was
  abandoned, can only be its own.
* `Implementation`: `Spec => ImplementsContract`: every step of the session is a step
  of `SessionContract` or leaves its variables alone. The mapping is the identity on
  `cur`, `status`, `answer` and `done`; `AnswerInv` gives the contract's guard.

* `RoomSuffices`, that an awaited result finds room in `msgCh` while little enough can be in
  it: `Spec => [](MaxBeats + MaxTicks + |abandoned calls| < Cap => AwaitedResultHasRoom)`.
  The property is not inductive: the content of the channel must be bounded by what may
  enter it. `RoomInv`
  counts messages by kind (`OnWire`): the beats on the wire and in the pump's hand, and,
  once `drainPending` has emptied the channel, those in the channel too, are at most
  `MaxBeats` and the ticks since; the results under way are at most those of abandoned
  calls and, while `Exec` reads, its own. The condition is needed: the code has 64 slots and
  no bound on any of the three over the life of a session, and a channel that is too small
  does drop awaited results, as TLC shows.

`YearningClientProofs` proves, for every set of callers, every list of sources with any
schemas and any number of log-ins, from `ClientAssumption` alone:

* `TypeCorrect`: `Spec => []TypeOK`. The strengthening `TypeInv` adds that a walk has
  sources left until it stores (`WalkOK`): the next is the least of them (`MinOfSet`, from
  the well-foundedness of `<`), and there is none of an empty set.
* `OneLogin`: `Spec => []LoginOnlyWithoutToken`, inductive together with `TypeInv`.
* `RedialIsNew`: `Spec => []RedialUsesNewToken`. `RedialInv` follows the token of a failed
  dial until the second: it was issued, and what is cached meanwhile is nothing or later.
* `MapNeverMixed`: `Spec => []MapFromOneWalk`. `WalkInv`: every walk under way is over
  listed sources. It holds because a list that is there never changes.
* `Implementation`: `Spec => ImplementsDirectory`: `Fill` is `List` or a stutter, `Store` is
  `Store`, and no other step touches list or map (`CacheSteps`).

`QueryExecProofs` proves, for every list of targets (a source id repeated or not), every
number of slots and of sessions, from `TargetAssumption` alone:

* `TypeCorrect`, `FanOut`: `QueryInv`, in which the tokens out of the semaphore are as many
  as the workers past it (`SlotsOK`), so each worker that fails gives back one, its own.
* `NoLeaks`: a live session is in the table or with the worker that dialled it. Inductive
  together with `QueryInv`, as a session is registered and used under its own source only.
* `ClosedIsClean`: `Close` finds no worker on its way (`PhaseOK`), so every live session is
  in the table.
* `ReconnectsFresh`: needs `OwnOK`, that nobody but its worker refers to a session between
  its dial and its registration, and `ReconnectOK`: in the second attempt the session that
  failed is dead, and what `sessionFor` gave is another.

`QueryPathProofs` proves, for any connections, users, sources, databases and statements,
from `PathAssumption` alone:

* `TypeCorrect` (`PathInv`), with what an answer's and an entry's age has to do with the
  query that fetched it (`AgesOK`), from which `Recent` follows.
* `RoutesToOwner`: `RouteOK` says at each label of the walk what is known of the map: while
  no walk missed a source it is empty or whole (`MapWhole`), and at `again`, where it has
  been loaded, whole; a statement whose database has an owner therefore never comes to
  the user's default or to "any".
* `OwnAnswers`: `FitOK`: the cache is shared, so the invariant is about every live entry,
  whoever set it: its rows are of the sources its key stands for, it answers a statement
  of that key and is about the database that one names. If no other statement shares the
  key, that is the statement asked (`SharesKey`).

`ServerProofs` proves, for any connections and any number of events and starts, from
`ServerAssumption` alone:

* `TypeCorrect`; `HandlersRelease`, by where in the deferred calls a socket and sessions may
  still be held (`ConnOK`).
* `LogReadable`: `LogOK`: the events of each connection that reached the file are the first
  ones, all of them while the log is open; at most one is garbled, and none before the
  line that a previous start left torn was continued.

`TextProofs` proves, for arguments of any length:

* `ScanStaysInText`: `Spec => []TypeOK` of `SqlText`, from `TextAssumption`. `ScanInv` adds
  what is written: bytes of the text and blanks, by `stripComments` only bytes of the text;
  the blank that is owed counts as written.
* `ReportOfEveryLog`: a call of `Aggregate` with any log has `ReportAddsUp`. After each round the
  counts are those of the events so far. The latencies of a kind are as many as its forwarded
  events, and as many of them are below any bound; ranks are a permutation, so the value at
  a place of the sorted list has that many others below it.
* `MergedRowsKeepNames`: a merged row says of a name only what its source says of it alone;
  `MergedRowsAreWhole`: and all of it, when the first source's names are distinct, as then as
  many names, all among the source's, are the source's (counting); `SameTitlesMerge`: a
  source with the titles of the first, in any order, is not left out.
* `MergedAnswer`: a call of `Convert` with any number of sources has `MergedRows`. The rows
  of the answer and those of the sources alone are flattened in step, round by round, and
  say the same of each name (`SourcesAreAligned`). Where no source repeats a title its names
  are its titles (`TitlesSay`), so that the rows are aligned by title as well.
* `LikeOfEveryPattern`: a call of `likeMatch` with any name and pattern has `FiltersAsLike`,
  provided the mark `"failed"` is not a byte. The greedy search is right because what is left
  of the name after each part is the longest that any way of fitting the parts can leave.
* `EveryArgumentArrives`: a call of `interpolate` has `ParametersInPlace`, provided the quote is a
  byte. While arguments are put in, what lies before the next placeholder has no question mark,
  and what lies after it is as in the template. A literal, read by the reference
  (`ReadLiteral`), gives the argument back, byte after byte.

The functions of the last four are folds, and what they compute is shown by induction over the
list. The library's induction theorems cannot be used, so `SetFacts` derives from the least
element of a set of numbers that a set which has 0 and with each number the next has all
(`SetInduction`): each such proof names the set of rounds after which its claim holds.
`Folding` is instantiated with the body of a loop, and says that its fold is what the last
of the rounds leaves (`FoldRounds`), the definition of a fold being a `CHOOSE` of a function
on sets. `SetFacts` also has the facts about finite sets that several of the modules cite.

Only model-checked: the liveness properties (fairness and `ENABLED` are beyond the prover),
and `StripKeepsMeaning`, `ShrinkKeepsMeaning`, `KeyKeepsMeaning` and `DataMasked`. Those
compare with, or are about, functions that are `RECURSIVE` (`Lex`, `StripBlockComments`,
`MaskLiterals`), in `SqlMeaning` and `AuditText`, which no module with a theorem reaches.

## Not modelled

* The keyword tables of `CheckReadOnly` and `Classify` and the tables of probes and of
  fabricated answers: they are data, and a model of them would be a copy. The text of `SHOW
  CREATE PROCEDURE`, which is wording.
* `SplitStatements`: the texts of `SqlText` are the pieces it makes. That it cuts at a
  semicolon in a literal is a listed hazard without a property.
* The codec and the MySQL protocol, which are libraries; configuration, which does not
  change after the start.
* Fingerprints, truncation, the lists of slow and failed statements, the timeline and the
  rendering of the report; the modes of `main` that only print.
* The number an event gives for its connection: `UseDB` in the handshake comes before
  `SetConnID` (a listed hazard).
* The rows of an answer in `QueryExec`: that two workers share a session when a source id
  is repeated, and may take each other's result, is a listed hazard without a property.
* Data is abstract where no property tells it apart: error texts, SQL beyond what routing
  asks of it, the case of names (and with it which of two databases is found whose names
  differ in case only, `client.go` 355), filters on several databases.
* The ways to name a database that `extractTargetSchema` misses, such as `SHOW TABLES IN
  db`: the database of a statement is the one it finds.

## Plan

Done: all components with state or with an algorithm of their own; `SessionContract` and
`SchemaDirectory` with the proofs that they are implemented; every safety property of the
components with state as a theorem; of the functions without state, all that is promised but
of the lexical ones. What could follow: `Lex` and `MaskLiterals` as recursive functions on
positions, and `StripKeepsMeaning`, `ShrinkKeepsMeaning` and `DataMasked` by a simulation of
the lexer by the scanner: that in each mode what is written means what the lexer made of the
bytes so far.

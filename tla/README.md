# depgraph in TLA+

TLA+ models of depgraph (`core/`, Go): the MCP server that answers symbol and
reference queries from long-lived language servers, and the one-shot analysis
behind the graph view. The models are checked with TLC on small instances, and
their safety properties are proved with TLAPS for every value of the constants.
`PROJECT.json` maps each definition to the lines it stands for, and lists the runs,
the mutants that show each property can fail, the hazards of the code and the
divergences found. Paths below are relative to `src/core/internal/`.

## 1. The system

```
 client ──stdio──▶ mcp.Adapter.Serve ─▶ Workspace ─▶ Project ─▶ sessionEntry[lang]
                    dispatch goroutine      │ launchSession       │ PortAnalysisSession
                                            ▼ (one per language)  ▼
                                        fswatch.watcher ──chan──▶ lsp.liveSession ─▶ conn ─▶ language server
 main ─▶ lsp.Adapter.Analyze ─▶ graphBuilder ─▶ http.Server ─▶ web client
```

| part | state it keeps | operations | what is hard | what makes it correct |
|---|---|---|---|---|
| Workspace, Project (`domain/workspace.go`, `project.go`) | `projects` under `Workspace.mu`; per language an entry (`state`, `err`, `session`) under its own lock | AddProject, launchSession, markReady/markFailed, Shutdown | launches race with Shutdown and with each other; the context is cancelled at any time; requests are dispatched after Serve has given up | one owner per session; a registered project is watched; an outcome is final; shutdown ends |
| queries (`project.go`, `mcp/server.go`) | the running query | State, ensureReady, readySession(s), FindSymbols, FindReferences | entries are read one by one, then again | no answer before indexing; no missing language without a warning |
| find_references walk (`project.go:181-294`) | queue, visited, docCache, payload | the breadth-first walk | cycles, shared callers, failing calls, cached failures, exclusions | exactly the caller chain, or a warning |
| registration (`mcp/server.go`, `config/config.go`, `cmd/depgraph/main.go`) | startupCfg, startupWarn | initialize, reload_config, add_project | the file and the directories change between any two requests; entries that are unusable, doubled or registered already | no entry is lost without a word; both commands exclude the same |
| connection (`adapters/lsp/rpc.go`) | nextID, pending, channels, progress counters, done | call, send, readLoop, waitForIdle | select races, late and duplicate answers, clashing ids, full pipes under a mutex, the server's death | the right answer to the right call; nothing leaks or hangs |
| process (`adapters/lsp/lifecycle.go`, `session.go`) | the command, its pipes, stderrTail | startLiveSession, shutdownLSP, the stderr goroutine | failed starts, timeouts against the server's exit, a server that stops reading | the server is reaped, no goroutine is left, the last N lines survive |
| watcher (`adapters/fswatch/watcher.go`) | subs, watched, closed | run, handle, handleNewDir, publish, Subscribe, Stop | directories that appear with their files; sends outside the lock against Stop; full buffers | nothing is missed that was not dropped; no send on a closed channel |
| session (`adapters/lsp/session.go`) | openedURIs, versions | preload, event loop, didOpen/didChange/didClose, Shutdown | saves during the preload; Shutdown during the loop | the server's documents follow the disk |
| one-shot analysis (`adapters/lsp/adapter.go`) | graphBuilder, fileSymbols | pass 1, pass 2, prune | a server that refuses or dies between any two calls | real edges, a closed graph, completeness or an error |
| symbol and path algorithms (`domain/symbol.go`, `source.go`) | none | InnermostSymbol, FuzzyMatch, walks and filters | overlaps, bytes and runes, five separate copies of one filter | agreement with their comments and with each other |
| HTTP server, editor, detection tables, web client | little or none | | | see section 7 |

## 2. Modules

| module | models | composed of |
|---|---|---|
| `Workspace` | registration, launch goroutines, session entries, Serve and both Shutdowns | |
| `SessionOwnership` | the abstract promise about sessions: opened once, owned by one, closed once | refined by `Workspace` |
| `ProjectQuery` | a query of the dispatch goroutine against everything `Workspace` does | EXTENDS `Workspace` |
| `CallerChain` | the walk of FindReferences | |
| `Startup` | depgraph.yaml, initialize, reload_config, add_project | |
| `LspConn` | calls, readLoop, progress, waitForIdle, and an external server | |
| `RpcCalls` | the abstract promise about calls: an id of its own, one return, with the server's answer to it or an error that has its cause | refined by `LspConn` |
| `ServerProcess` | one server process from start to reaping, with pipes that fill up | |
| `StderrTail` | the ring of stderr lines | |
| `Watcher` | the watcher, with an external disk and inotify | |
| `DocSync` | a session's document synchronisation on top of the watcher | EXTENDS `Watcher` |
| `Analyze` | the one-shot analysis | |
| `Symbols` | which symbol a position is in, and fuzzy matching | |
| `SourceTree` | which files each part of depgraph sees | |
| `WorkspaceProofs`, `ProjectQueryProofs`, `CallerChainProofs`, `LspConnProofs`, `ServerProcessProofs`, `DocSyncProofs`, `AnalyzeProofs` | theorems and proofs | EXTEND the module they are about; `ProjectQueryProofs` also EXTENDS `WorkspaceProofs` |
| `SequentialProofs` | theorems and proofs about the parts of `MCSequential` | EXTENDS `Symbols`, `Startup`, `SourceTree`, `StderrTail` |
| `MCSequential` | one run for the parts that run on one goroutine and share no state | EXTENDS `Symbols`, `SourceTree`, `StderrTail`, `Startup` |
| the other `MC*` | constants and symmetry for TLC | EXTEND the module they check |

How state and actions correspond to the code:

- **Workspace.** A step is what the code does under one acquisition of a lock;
  everything between two acquisitions interleaves. `entry[p][l]` is
  `Project.sessions[lang]` with its three fields; `launch[p][l]` is the program
  counter of `launchSession` (subscribe, Open, check of the context,
  markReady/markFailed or the abort); `wsPc` that of Serve and
  `Workspace.Shutdown`; `down`, `detached` and `closing` that of
  `Project.Shutdown`, its loop over the entries and the goroutines it starts.
  `ProcessAlive` says that `main` ends with Serve. `Open` is one step with two
  outcomes; what happens inside is `LspConn`, `ServerProcess` and `DocSync`. A second
  AddProject of a root and one that fails leave no trace and are not steps.
- **ProjectQuery.** `query` is the dispatch goroutine's frame: the loop of `State`
  reads one entry per step, then `readySessions` reads them again, or
  `readySession` the one of the symbol's language. A running session may answer or fail
  a call (`SessionAnswers`) and need not do either; one that was shut down fails it
  (`SessionGone`). The goroutine adds projects and notices the end of stdin only between
  queries.
- **CallerChain.** A location is its file and the innermost symbol around it, so
  `InnermostSymbol` and the encoding of ids are abstracted to what the walk tells
  apart. `locs` is what is left of the current answer; one step handles one
  location with every filter in the code's order.
- **Startup.** The handlers run one after the other on the dispatch goroutine, so a
  request is one step. `Applied` folds AddProject over the entries in their order.
  A directory is missing, supported, or unsupported (no language detected, or its
  server not installed), and it and the file change between any two requests.
  `loaded` is what the file was when it was last read, for the properties.
- **LspConn.** `pending`, `chan`, `call` and `reader` are `conn.pending`, the
  one-place channels, the goroutines in `call`, and readLoop between the removal
  of the channel from the map and the send to it, or in an acknowledgement. The
  three cases of `select` are three actions. `mu` is the holder of `conn.mu`: `Lock`
  takes it, and `SendRequest` or readLoop's `Acknowledge` keeps it until the server's
  stdin has `room` or its reader is gone, whatever becomes of the context. The server
  fills and drains that pipe as it likes (`PipeFills`, `PipeDrains`), notifications of
  the session included, which are no actors here. `wire` is the server's stdout pipe;
  what a dead server had written is still read before EOF. readLoop exits at EOF, on a
  broken frame of a server that may go on writing (`ReadBroken`), or when cmd.Wait has
  closed the pipe (`ReadClosed`); each closes `done` and leaves the rest of `wire`.
  `quiet` abstracts the clock of waitForIdle to "the quiet period has passed since the
  last progress". `RpcCalls` keeps of all this what a caller of `call` sees:
  `InProgress` maps a call in any stage before its return to a call of RpcCalls, and
  `GivenUp` and `Returned` map how it ended. An error "closed" has a cause there too: the
  server is gone, or it broke the framing (`framed`).
- **ServerProcess.** `out[a]` is what a goroutine is sending, `mu` the holder of
  `conn.mu`, which `send` keeps while it waits for room in the server's stdin;
  readLoop is an actor too, because it acknowledges `workDoneProgress/create`
  itself. `owner` is the goroutine that runs startLiveSession and later Shutdown,
  `left` the documents it has still to open or close. The timeouts of shutdownLSP may
  fire at any time. `noise` bounds the server's create requests, broken frames and
  overlong stderr lines.
- **StderrTail.** `slots`, `at`, `full` are the fields of the ring; `history` is every
  line ever added.
- **Watcher and DocSync.** `raw` is `fsw.Events`; `run` the goroutine with what it
  has still to publish and to whom; `stop` the three stages of Stop. An inotify
  watch vanishes with its directory. The session's `work` is the notification
  decided on but not made, because the code releases `docMu` in between;
  registering the document and sending the notification are one step, since the
  only other goroutine that touches the open set is Shutdown. A server drops a
  change of a document that it has not open.
- **Analyze.** `CallReturns` is all that `conn.call` can return, with what it says
  about the server, which is up, down, or mute: alive, with a broken frame behind which
  readLoop has returned. The initialize call and waitForIdle are steps of their own
  (`Initialize`, `Indexed`), because either may not come to an end. `failures` is a history
  of what was skipped.
- **Symbols.** Pure functions: a state is one input and nothing moves. A document's
  tree is numbered in preorder, so `Max` of the siblings that contain a position is
  the last one the loop meets. A string is a sequence of code points and the query
  the bytes of its UTF-8 encoding, as `query[qi]` reads it.
- **SourceTree.** A state is one path and one project. Each filter of the code is an
  operator under its own name: the two walks, the watcher's `allowed` on each
  directory made after the watch began, the event loop's `matches`, and the test of
  find_references. A glob is well formed and of one of three kinds.

## 3. Runs

| run | instance | shows |
|---|---|---|
| `project_query` | 2 roots, 1 project, 2 languages, any number of queries; 58,407 states | `SingleOwner`, `RegisteredIsWatched`, `OutcomeIsFinal`, the refinement `ImplementsOwnership`; `AsksRealSessions`, `AnswersAfterIndexing`, `CleanReplyIsComplete`; queries, launches and Shutdown end |
| `session_leak` | 1 project, 2 languages | refutes `EverySessionReaped` |
| `lsp_safety` | 2 callers, 2 calls, 2 messages in the pipe, 1 progress phase; 1,770,408 states | the refinement `ImplementsCalls`; `ReaderNeverBlocks`, `NoLeakedCalls`, `NoLostResponse` |
| `lsp_liveness` | 1 caller, 1 call, 2 messages, 2 phases; 223,224 states | `FlightTracksServer`; `CallsReturn`, `WaitEndsWithIndexing` |
| `lsp_stuck` | as `lsp_liveness` | refutes `WaitEndsWithServer` |
| `server_process` | one caller, the event loop, 1 document, pipes of 1 message, 1 disturbance; 89,528 states | `SendsReturn`, `ExitFreesUsers`, `ShutdownReaps`, `NothingLeft` |
| `caller_chain` | every caller graph over 3 symbols with up to 2 references each, an excluded symbol, a hidden file, top-level references; 180,116 states | `OnlyUpstream`, `CompleteUnlessWarned`, `Terminates` |
| `doc_sync` | a file in the root and one in a directory, 2 texts, 3 changes, buffers of 1; 1,076,681 states | `FollowsDisk`, `NoSendOnClosedChannel`, `OpenSetAgrees`, `StopEndsEverything` |
| `doc_sync_recreate` | as `doc_sync` | refutes `AlwaysFollowsDisk` |
| `analyze` | 2 languages, 3 files, 4 symbols, a choice of reference graphs; 1,158,244 states | `EdgesAreReal`, `GraphWellFormed`, `CompleteUnlessFailed`, `OneDocumentOpen` |
| `analyze_degraded` | as `analyze` | refutes `NoSilentDegradation` |
| `sequential` | see below; 220,306 states | `InnermostIsDeepest`, `SameTopLevelSymbol`, `FuzzyIsSubsequence`; `OneSourceTree`, `ReferencesSeeSources`; `TailIsLastLines`; `EveryEntryAnswered`, `SameExcludes` |

Every property has a mutant: a definition of the code changed the way a slip
would change it, under which TLC finds that property violated.

`sequential` explores four parts that share no state; `part` says which one moves
while the others rest. *Symbols:* trees of up to 3 symbols over 3 lines of 2
characters, queries of 2 and names of 3 runes. *SourceTree:* paths of up to 2
directories, every pair of user patterns. *StderrTail:* 8 lines through a ring of 3.
*Startup:* 2 directories, 6 configuration files, none, and a broken one.

**Why the bounds are enough.** Two languages give every pair that can interfere: two
launches on one watcher, one language ready and the other not. With one project
AddProject still comes at any time, for either root, before Shutdown and between its
steps; two projects in one Shutdown share only `Workspace.mu` and `cancelled`, and the
theorems of WorkspaceProofs hold for any number. Two callers and two calls give an
answer for a call that has given up while another waits, and three goroutines with
readLoop that compete for the mutex; two messages let a duplicate answer queue up
behind the first or behind a clashing request. What progress adds to the calls is
readLoop's acknowledgements, and one phase has one; two phases, in `lsp_liveness`, let
progress return to zero and start again. LspConnProofs has the safety properties
for any number of each. A pipe of one
message is full after one, so every sender is met waiting under the mutex, readLoop
among them. Three symbols besides the excluded and the hidden one contain
self-reference, two-cycles, three-cycles and diamonds. Three changes are enough for a
directory to be made, filled, removed, and made again; a buffer of 1 is full after
one event, which 64 would be after sixty-four, and neither the code nor the proofs
use its size. Three symbols make a chain and two siblings below one or beside it, and
three lines of two characters make ranges that begin or end in the middle of a line,
touch, and differ in lines or in characters only. The runes have an ASCII letter in
both cases, é in both cases and the two runes that the bytes of é would be. Two
directories on a path put a pattern on the first, on the second, and on the file;
SequentialProofs covers the deeper ones, and larger documents, longer names and longer
configuration files with them. Eight lines go round a ring of three
twice and stop at every position. The configuration files have an entry without
a root, one for the launch directory, one for a directory that may be missing, and two
for the same directory.

**Bounds that cut behaviour.** `Projects` bounds the objects AddProject may
allocate; `MaxCalls`, `MaxWire` and `MaxPhases` the connection's traffic; `MaxNoise`
what a server does unasked; `MaxChanges` the disk's; `RefGraphs` the answers of a
server; `MaxDirs`, `MaxSymbols`, `MaxLine`, `MaxChar`, `MaxQuery` and `MaxTarget`
the inputs; `MaxHistory` the lines.

**Fairness.** Goroutines that can run do run (weak fairness of each launch, of
each Project.Shutdown, of Serve, of the query, of each call and send, of readLoop, of
waitForIdle, of the stderr goroutine), and time passes. A goroutine that waits for a
mutex gets it. No fairness condition is put on a language server, nor on a client to
send or to close stdin, nor on anybody to cancel; so `Open` is not assumed to return.
Where a server's silence would hold the code up, the property has that as an antecedent:

- `QueriesReturn`: that no query waits for ever for a session that runs
  (`~<>[]AwaitsServer`). find_symbols and find_references call on Serve's context, which
  has no timeout, so one silent server holds the dispatch loop (section 4).
- `CallsReturn`, for a cancelled call or one without readLoop: that the server
  makes room in its stdin again and again, or exits (`[]<>ServerReads`). Once it has
  exited, calls return without that.
- `WaitEndsWithIndexing`, unless the context is cancelled: the same, and that readLoop
  has not gone with messages unread.
- `SendsReturn` and `ShutdownReaps`: that the server reads its stdin or dies
  (`Reads`), because only then is the wait with the five-second timeout reached.

Two assumptions are in the models and not in a property. `Workspace` takes it that
`s.Shutdown` returns; `ShutdownReaps` says when. `CallerChain` takes it that each call
returns; `CallsReturn` and `ExitFreesUsers` say when, and a query that is not cancelled,
whose server lives and is silent, is not among the cases. `StopEndsEverything` is stated
without fairness, as an invariant: when the session and the watcher cannot take
a step after Stop, all of them have ended.
Symmetry is used only in runs without liveness. `CHECK_DEADLOCK FALSE` stands only in
`server_process`, where a session that has ended has nothing left to do.

## 4. Divergences

Shown by a run:

1. **A session can outlive Serve** (`session_leak`, `workspace.go:161`). The check
   of the context and markReady are two steps; Shutdown in between detaches the
   entry first. `mcp/server.go:156-158` promises that every process is reaped.
2. **waitForIdle can wait for ever** (`lsp_stuck`, `rpc.go:280`) for a server that
   died between a progress begin and its end; the project stays Indexing, against
   `workspace.go:88-89`.
3. **A directory created again is not watched** (`doc_sync_recreate`,
   `watcher.go:131`), against the comment at `watcher.go:40-42`.
4. **A dead server can yield a degraded graph** (`analyze_degraded`,
   `adapter.go:320`), against the comment at `adapter.go:317-319`.

Met while modelling, in the models or in the conditions of a property, and not
stated as a run of their own:

- Sessions. A watcher leaks in the same way as a session when AddProject follows
  Shutdown, because Serve does not wait for its dispatch goroutine
  (`mcp/server.go:199`). Project.Shutdown's comment says subscribers drain first, but nothing waits
  for them (`project.go:112-113`). FindSymbols leaves a session that is detached
  between its two looks out without a warning (`project.go:145`, `157`; only during
  Shutdown).
- Queries. A tool call runs on Serve's context, which has no timeout (`project.go:238`,
  `308`): a server that is alive and does not answer holds the dispatch loop, and every
  later request, until Shutdown takes the session away.
- Calls. A cancelled call does not return, against the comment of `call` (`rpc.go:74`),
  while it writes to a live server that leaves its stdin full, or waits for `c.mu`
  behind such a write (`rpc.go:141-143`): hence `ServerReads` in `CallsReturn`.
- Process. `Shutdown` can hang when the server has stopped reading: didClose,
  shutdown and exit are written to a full pipe before the wait that has a timeout
  (`session.go:320`, `lifecycle.go:53-57`, `rpc.go:72-75`), hence `Reads`. The last
  lines of stderr may be lost, because cmd.Wait closes the pipe before the scanner has
  read it (`lifecycle.go:72-73`); a failed initialize never logs them. `call` may
  report a closed connection although its response is in the channel (`rpc.go:105`).
- Watching. newWatcher lists directories before it watches them
  (`watcher.go:80-90`); a renamed directory leaves its documents open
  (`watcher.go:182`).
- Filters. The watcher excludes what any of the project's languages excludes by default
  (`workspace.go:125-131`), a session only what its own does: hence the third clause
  of `OneSourceTree`. A root whose name begins with a dot is an empty project,
  though the walks mean to skip dot entries "other than root itself" (`source.go:109`,
  `adapter.go:583`). find_references has no rule for dot entries, so it follows
  callers in `.venv` (`project.go:190-198`), and a pattern that names a directory
  hides its files from find_symbols but not from find_references: the exceptions of
  `ReferencesSeeSources`. Malformed patterns are skipped by some of the copies and
  are errors in others; patterns of the model are well formed.
- Registration. A broken depgraph.yaml at start-up still triggers the automatic
  registration of the launch directory, and a corrected file cannot give it its
  excludes through reload_config, as registered projects keep theirs (`SameExcludes`).
- Algorithms. FuzzyMatch compares bytes with runes (`symbol.go:201`), so "é" does
  not match "é" and `FuzzyIsSubsequence` speaks of ASCII queries; InnermostSymbol
  keeps the last of two overlapping siblings, not the deepest (`symbol.go:92`), and
  findContainingSymbol the one with fewer lines, so two clauses ask for disjoint
  siblings.

## 5. Proofs

Each theorem holds for every value of the constants its module's `ASSUME`
admits. A safety property is seldom inductive; each module states a stronger invariant
as a conjunction of named parts, proves it with one step per action, and reads the
properties off it. Every safety property of section 3 that a run passes is a theorem,
`StopEndsEverything` with guards in place of ENABLED.

**WorkspaceProofs**, from `NoProjectAssumption` and `NoRootAssumption` only (the
two null values are not a project and not a root). `SingleOwner` alone does not
exclude that a launch not yet at Open has a session, nor `RegisteredIsWatched` that a
project in the map is being shut down. `IInv` adds `FreshIsBlank` (an object not
allocated has no state), `NotOpenedYet`, `RegisteredIsUp`, `SubscribedFirst`,
`PendingIsIndexing` (an entry whose launch has not finished is Indexing until the
cancellation) and `EntryConsistent` (state, error and session of an entry agree). From
`Invariance` follow `TypeCorrect`, `SingleOwnerHolds`, `EntryConsistentHolds`,
`RegisteredIsWatchedHolds`, the action property `OutcomeIsFinalHolds`, and
`ImplementsOwnershipHolds`: every step either leaves the owners alone or is one step of
`SessionOwnership`. `ShutdownProgress` rests on `DetachesOwn` (what is detached belongs to the
project, what is being closed was detached), `LaunchProgress` on `AbandonedIfCancelled`
(an entry a launch leaves Indexing is Shutdown's to fail).

**ProjectQueryProofs.** A query reads the workspace and changes nothing, so `QSpec`
implies the specification of Workspace (`QueriesImplementWorkspace`), and the
invariant above holds while queries run. `WorkspaceFacts` says what a workspace step
never takes back from a reader between two locks: languages, opened sessions, an
outcome. On top of it `QInv` follows the query: what it has seen is no longer Indexing
(`SeenIsIndexed`), what it holds was opened (`SessionsExist`), and without a
cancellation the second look finds what the first found, so every language is
answered for, still to be looked at, or in hand (`NoneLeftOut`). These give
`AsksRealSessionsHolds`, `AnswersAfterIndexingHolds` and `CleanReplyIsCompleteHolds`.
`QueriesProgress` adds that stdin is not found closed in the middle of a query
(`QueryIsServed`); a query goes on or awaits a session that runs.

**CallerChainProofs**, from `ChainAssumption`, for every set of symbols, files,
exclusions and answers. `IInv` says that the visited symbols are those asked about
and those queued (`Frontier`), that a location being looked at came from a visited
symbol, and that without a warning every caller of a symbol asked about is visited
or about to be looked at (`AskedIsCovered`). `Soundness`: what is visited is in
every closed set, so `OnlyUpstream`. `Completeness`: at the end `locs` and `queue`
are empty, so the visited set is closed and contains the least closed set.
`NoDuplicates` and `AsksOnce` bound results and calls. `WalkProgresses` is the
variant behind `Terminates`: a step asks about a symbol not asked about before, or
drops a location, or ends the walk.

**LspConnProofs**, from `BoundsAssumption` and `HoldersAssumption` (readLoop is not one
of the callers). `OnlyRealAnswers`, a part of the invariant (a
response is handed to a call only if the server answered that call), and `NoLostResponse`
hold only because ids are not reused and an answer is in one place:
`IdsAreDistinct` (active calls have different ids, all given out), `ServerAnswersCalls`
(a response on the wire answers a request that was read), `OnePlace` (a registered
id has an empty channel and is not in readLoop's hands), and `NoLostCall`, which also
speaks of calls whose request is not written yet. `ReaderNeverBlocks` follows from
`OnePlace` when readLoop takes the channel out of the map. For `FlightTracksServer`
it is not enough to count the begins and ends on the wire: the ends must not overtake.
The invariant says of every prefix of the wire that its ends are covered by
`progFlight` and the begins before them, from lemmas on what one message
more or less does to the count.

`ImplementsCallsHolds` is the refinement of `RpcCalls`. `Reasons` says that a call ends
with the error of a cause that has happened, and that readLoop has gone only when the
server had exited or broken the framing; `ServerKeeps` that what the server has
answered stays answered; a step then changes the mapped state of one call at most
(`OneCallMoves`), as RpcCalls allows, and readLoop's deliveries change none.

**AnalyzeProofs**, from `AnalyzeAssumption` (files and symbols belong to one language
and one file). `Control` ties the loops' sets to the current language;
`CollectedHere` says that fileSymbols holds nodes of that language; `GraphClosed` that
nodes, defines and edges fit together at all times; `PrunedAtEnd` that nothing
unused is left in a result; `NothingMissed` that without a failure everything behind
the point the loops have reached is there, language by language. `AnalysisProgress` says
that only a server can hold the analysis up (`HeldByServer`): one that is alive and does
not answer or read, or one, dead or alive, whose open progress phase waitForIdle polls.

**DocSyncProofs**, from `WatcherAssumption`, for any finite set of files. `ChannelsOpen`
orders Stop against publish: a channel is closed after run has exited, or belongs
to a subscriber that came after Stop and is in no copy of subs. `WorkFits` and
`OpenSetKept` carry `OpenSetAgrees` over the unlock between deciding on a
notification and sending it; `RunShape` says what run has in hand.

`FollowsDiskHolds` needs an account of every event in flight, `SyncInv`. An event
about a file passes through `raw`, run's outbox and the session's channel; of the last
one in the first of these that has any, `LastEventFits` says that it is a deletion
exactly if the file is gone. A file about which nothing is in flight and whose turn in
the preload has passed has its text at the server, or the notification being made
brings it (`Settled`, `Final`). `DirsWatched` closes the gap of a new directory: it is
watched, or run has its create event ahead and will list it. `Preloading` does the same
for saves during the preload. All of this holds until Stop or until an event has been
dropped (`Calm`).

`StopNeverHangs` is `StopEndsEverything` with the guards of the actions, written out
in `CanRun`, `CanStop`, `CanFollow` and `CanShutDown`, where the property says ENABLED;
TLC finds each guard equivalent to the ENABLED of its actions on the instance of
`doc_sync`. `StopOrder` says what each stage of Stop has closed. `StopComesToAnEnd` is what
the comment of the property adds: the steps after Stop run out.

**ServerProcessProofs**, from `ProcessAssumption`, for any callers, documents and
capacities. The properties that `server_process` checks are liveness; these are
the invariants below them. `ProcessInv` says who may hold `conn.mu` (`LockHeld`); when
the process is known to be dead or reaped (`Ends`); that no query runs before the session
is open (`Unused`); that a call of a goroutine is in one place at most, of what it
sends, stdin, the server's hands, stdout, and delivered (`OneRequestEach`); and that
a call nobody has failed is in one of them (`NoLostCall`). From it follow
`ReapedWhenOver`, the safety half of `NothingLeft`, `CallsDoNotOverlap`, and
`NeverBlocksItself`. The last is freedom from deadlock: a mutex is held across a
write to a pipe that may be full, and readLoop, which has to empty the other pipe,
takes the same mutex; yet while anything is in progress, one of the goroutines can run
or a live server has something to read or to answer. That this server may choose not to
is the hang of section 4; once it is gone, `DeadSessionEnds` says that the session's steps
run out.

**SequentialProofs**, from the assumptions of its four modules, for inputs of any
size. Most of it is about what a loop or a recursive function computes. The
induction is over sets: `Least` is the least number principle from the library's
theorem on well-founded relations, `Induct` takes the set of the numbers up to n that a
claim holds of, and `Recursion` and `Loop` show that a recursive definition has a value.

- *Symbols.* `Rooted` trees have parents with lower numbers. `ClimbsAgree` says which
  ancestors `Around` collects, `DescentStops` that InnermostSymbol ends at a symbol none of
  whose children contains the position, all of whose ancestors do. With disjoint
  siblings every symbol that contains the position is on that way (`AllAround`), hence
  `InnermostIsDeepestHolds` and `SameTopLevelSymbolHolds`. For
  `FuzzyIsSubsequenceHolds`, `ScanSound` turns the positions at which the scan advances
  into an embedding, and `ScanComplete` says that the scan is never behind any
  embedding.
- *Startup.* `KeptEntries` and `AppliedEntries` say what Load keeps and applyConfig
  registers after i entries. `StartupInv` ties `startupCfg` and `startupWarn` to the
  file last loaded, through changes of the directories in between. They give
  `EveryEntryAnsweredHolds` and the action property `SameExcludesHolds`.
- *SourceTree.* `WayToAFile` says what the entries on a path are, `BelowCovers` that
  `p/**` matches what is below a match: `OneSourceTreeHolds` and
  `ReferencesSeeSourcesHolds`, for paths of any depth.
- *StderrTail.* `TailKeepsLastLines`, by `RingHoldsHistory`, which says for each
  slot which line of the history it holds, by the position modulo the capacity.

**Progress.** Fairness and ENABLED are beyond the prover, so no liveness property is a
theorem. The rest of the argument is: for each way to hang, that some step can be taken
until the end is reached or only a server is waited for, with the guards written out,
and that each step lowers a measure which no other step raises. What fairness adds is only that a step that can be
taken is taken. Off the runs, TLC has compared each of these guards with the ENABLED of
its actions on the instances of section 3.

| liveness property | never stuck | comes closer |
|---|---|---|
| `ShutdownCompletes` | `ShutdownNotStuck` | `ShutdownComesCloser`, both in `ShutdownProgress` |
| `LaunchSettles` | a launch past Open waits for nothing; what it abandons `AbandonedIfCancelled` leaves to Shutdown | `LaunchComesCloser`, in `LaunchProgress` |
| `QueriesReturn` | `QueryNotStuck` | `QueryComesCloser`, both in `QueriesProgress` |
| `CallsReturn` | `CallsNotStuck` | `CallsComeCloser`, both in `CallsProgress` |
| `WaitEndsWithIndexing` | `WaitForIdleNotStuck` | one step is enough |
| `SendsReturn`, `ExitFreesUsers`, `NothingLeft` | `NeverBlocksItself` | `DeadSessionEnds`, after the server's death; before it, the server decides |
| `StopEndsEverything` | `StopNeverHangs` | `StopComesToAnEnd` |
| `Terminates` | the deadlock check of `caller_chain` | `WalkProgresses` |
| none; the analysis returns | `AnalysisProgress` | `AnalysisProgress` |

**Only model-checked.** The liveness properties themselves (`QueriesReturn`,
`LaunchSettles`, `ShutdownCompletes`, `CallsReturn`, `WaitEndsWithIndexing`,
`SendsReturn`, `ExitFreesUsers`, `ShutdownReaps`, `NothingLeft`, `Terminates`), and
`StopEndsEverything` in its own form, with ENABLED. `StartupTypeOK` documents the
variables of its module.

## 6. Plan

Done, in the order of importance: `Workspace`, `SessionOwnership`, `ProjectQuery`;
`LspConn`, `RpcCalls`; `CallerChain`; `Watcher`, `DocSync`; `Analyze`; `Symbols`; `ServerProcess`;
`StderrTail`; `Startup`; `SourceTree`; and the proofs of section 5.

Next:

- the start-up window of newWatcher and directory renames in `Watcher`, with
  `FollowsDisk` restricted accordingly; document versions in `DocSync`.
- symbol excludes and the encoding of ids in `Symbols`.
- a measure for shutdownLSP against a server that is alive and reads (`ShutdownReaps`).

## 7. Not modelled

The HTTP server (an immutable graph over net/http; Serve returns before the
library's graceful shutdown has completed), the file-system editor (one read),
the tables of language detection and the search for binaries, the wire types, the
generated API, flags and the browser start of the command line, the MCP initializer (a
hook that does nothing) and the web client (rendering). YAML is a file that parses or
not, glob matching and inotify are external. Document versions, symbol excludes
and the encoding of symbol ids are left out; so are the window between newWatcher's
walk and its watches, and the rename of a directory. Logging is left out, except for
which lines of stderr remain.

## 8. Checking

```
tlc -config ProjectQuery.cfg MCProjectQuery     # and likewise for the other runs
tlc -config ServerProcess.cfg ServerProcess
tlapm WorkspaceProofs.tla      # ProjectQueryProofs, CallerChainProofs, LspConnProofs,
                               # ServerProcessProofs, DocSyncProofs, AnalyzeProofs,
                               # SequentialProofs
```

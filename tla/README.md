# Postly in TLA+

Postly is a local-first API client: a Rust workspace with a core library
(`postly-core`), a CLI (`postly`), a native desktop app (`postly-app`) and
development tools (`postly-xtask`).  Its requests, collections and environments
are TOML files that several programs may edit at the same time, its runner
executes collections with scripts, batches and cancellation, its engine sends
HTTP requests, streams, WebSockets and gRPC calls, and its desktop app drives
threads from a single-threaded frame loop.  This directory models these parts,
checks the models with TLC and proves theorems about most of them with TLAPS.

Paths below are relative to the repository; `core/` stands for
`crates/postly-core/src/`, `cli/` for `crates/postly-cli/src/` and `app/` for
`crates/postly-app/src/`.

## 1. Inventory

| Component | State it keeps | Operations | Hard behaviours | What makes it correct | Module |
|---|---|---|---|---|---|
| Cancellation token (`core/runner.rs` 29-66) | an atomic flag, a `tokio::sync::Notify` | `cancel`, `is_cancelled`, `cancelled` | the flag and the notification are two steps, as are the check and the registration of a waiter | who waits is released | `CancellationToken` |
| Collection runner (`core/runner.rs` 1036-1402) | summary, loop positions, contexts | `run_requests`, concurrent batches, scripts, delays | a cancellation anywhere, a batch partly done, fail-fast, scripts that fail or change the request | the summary is true, success means complete, every run ends | `Runner`, `RunReport` |
| Response assertions (`core/runner.rs` 120-1034) | none | evaluate, validate a JSON Schema | the bound on references inside negations | schemas that mean the same agree | `ResponseAssertions` |
| `postly run` (`cli/main.rs` 3964-4114) | the summaries of the collections, the exit status | the loop over collections, the Ctrl-C task | Ctrl-C in any collection | exit status zero only when all passed | `PostlyRun` |
| Request history (`core/storage.rs` 626-758) | `.postly/history.jsonl` | append, compact, clear, read | several processes, no lock, a crash between two writes | entries in order, never twice, within bounds | `History` |
| Workspace transactions (`core/storage.rs` 113-124, 777-903) | the journal of an import | create, save, commit, drop | an error in any step, user edits meanwhile, clashing names | all or nothing, and the user's files stay | `WorkspaceTransaction` |
| Workspace files (`core/storage.rs` 371-489) | the TOML files | save, relocate, duplicate, delete | two processes, a death between write and remove | no request is lost | `WorkspaceFiles`, `RequestStore` |
| Secrets and environments (`core/secrets.rs`, `core/storage.rs` 569-598) | environment files, keychain | set, edit, rename, migrate, import | two stores written one after the other | references resolve, a failed save changes nothing | `Environments` |
| Variables (`core/variables.rs`) | seven scopes | define, resolve | nested and cyclic values, a bound on passes | precedence, and nothing unresolved goes unreported | `Variables` |
| HTTP engine (`core/http.rs`) | the request on its way | resolve, check, build, sign, send, retry, read | the Digest retry, limits, undefined variables | what is sent is what was saved | `HttpExchange` |
| OAuth tokens (`core/http.rs` 1230-1780) | the token cache, a device flow, a loopback listener | fetch, reuse, evict, poll, browser flow | expiry, concurrent fetches, deadlines, foreign callbacks | no expired token, no other flow's code | `OAuthTokens`, `PkceBrowser` |
| Cookie jar (`core/http.rs` 366-476) | memory and file | load, set, clear, persist | several engines and one temporary file | the file is one of the jars | `CookieJar` |
| Event streams and WebSockets (`core/sse.rs`, `app/main.rs`, `cli/main.rs` 2948-3169) | parser, attempts, Last-Event-ID, command queue | connect, read, send, reconnect, close | reconnection, cancellation in a sleep | order, nothing lost, cancelled streams end | `EventStream`, `WebSocketSession` |
| Proxies (`cli/main.rs` 290-400, 3290-3400; `app/main.rs`; `core/http.rs` 150-280) | bytes read | choose a route, CONNECT, SOCKS5 | reads that take too many or too few bytes | a tunnel begins with the target's bytes | `Tunnel` |
| gRPC (`core/grpc.rs`, `cli/main.rs`, `app/main.rs`) | messages, descriptors | call, reflect | fallback half-way, a stream that fails | a call is whole or not made | `GrpcCall` |
| Script child and harness (`core/scripting.rs`) | the child, two pipes; variables, tests, sent requests; pm.request | spawn, poll, kill, join; callbacks; edit the request | exit, timeout and cancel at the same time; callbacks against awaits | no child survives, the output is the script's | `ScriptProcess`, `ScriptHarness`, `ScriptRequest` |
| Desktop tabs and drafts (`app/main.rs` 675-1738, 2751-2837) | tabs, active document, dirty flags, recovery snapshot | edit, switch, save, close, delete, restore | long sequences of legal operations, crashes | an unsaved edit is never lost silently | `DesktopTabs` |
| Desktop request editor (`app/main.rs` 1800-2070, 6391-) | text fields shared by all requests | load, type, change kinds, put together | fields that run parallel to the request | a request comes back as shown | `RequestEditor` |
| Desktop workers (`app/main.rs` 2883-4196, `app/workflows.rs`) | pending channels, cancellation tokens | send, stream, run, import, poll | late results, cancel against completion | a result lands where it belongs | `DesktopWorkers` |
| Comparison of responses (`core/diff.rs`, `app/comparison.rs`) | baseline, exclusions, result | choose, load, compare | stale results, limits, escaped pointers | the differences, and all of them | `JsonComparison` |
| Formats (`core/import.rs`, `core/export.rs`, `core/openapi.rs`, `core/curl.rs`) | reports and warnings | import, export, fetch references | references in cycles and across documents, quoting | a request means the same afterwards | `PostmanFormat`, `OpenApiFormat`, `CurlFormat` |
| Mock server (`cli/main.rs` 2100-2400) | routes, one client | accept, read, answer | requests in pieces, clients that leave | each client gets its own answer | `MockServer` |

How they interact: the desktop app and the CLI build a `VariableContext`, take
`Request`s from workspace files and call `HttpEngine` or `run_requests` with a
`CancellationToken` that another thread cancels.  The engine resolves variables,
takes tokens from its cache and cookies from its jar.  The runner starts
scripts, which run as child processes on a blocking thread.  Both programs
append to the history after an execution.  Imports write through a transaction.
All programs share the files; nothing locks them.

## 2. Plan

Built, in the order of importance: the runner with its token and its contract
(`CancellationToken`, `Runner`, `RunReport`, `PostlyRun`); the files (`History`,
`WorkspaceTransaction`, `WorkspaceFiles` and its contract `RequestStore`,
`Environments`, `CookieJar`); the desktop (`DesktopTabs`, `DesktopWorkers`,
`RequestEditor`, `JsonComparison`); the protocols (`Variables`, `HttpExchange`,
`OAuthTokens`, `PkceBrowser`, `EventStream`, `WebSocketSession`, `Tunnel`,
`GrpcCall`, `MockServer`); scripts (`ScriptProcess`, `ScriptHarness`,
`ScriptRequest`); the pure translations (`ResponseAssertions`, `PostmanFormat`,
`OpenApiFormat`, `CurlFormat`).

What composes what: `PostlyRun` is the command around runs and the token;
`Runner` extends `CancellationToken` and implements `RunReport`;
`WorkspaceFiles` implements `RequestStore`.
`Components` states what components without common state promise together,
and `MCComponents` puts them into one run (section 4); `MCStorage` does so
for the history and the transaction.

Proved, in this order: the runner and its contract, `postly run`, the
transaction, the history, the stored data (files, environments, cookie jar),
tokens, scripts and workers, the streams, and the desktop's tabs (section 5).

Left, proofs that need no change of a module:

1. the desktop's commands: `DraftsSurviveCommands`;
2. requests: `AcyclicTemplatesResolve`, `EditorKeepsRequest`, `ExchangeIsSound`
   and `ScriptKeepsRequest`.

## 3. Modules

### CancellationToken

`cancelled` is the AtomicBool; `notify` says how far the one call of
`cancel` is ("idle", flag "stored", waiters "notified"); `waiter` is the
state of each future that runs the loop of `cancelled()`: it checks the flag
(`CheckFlag`) and then creates a `Notified` and parks (`Park`).
`NotifyWaiters` wakes the parked ones only, which is what
`Notify::notify_waiters` promises: a `Notified` created after the call is not
woken by it.  That there is one call of `cancel` is the code's use of it; a
second press of Cancel calls it again, and would wake a parked waiter.

### Runner

The state of `run_requests`: `iter` and `start` are its loop indices (from
one), `pc` the await point or branch it is at, `phase`/`item` the futures of a
batch and the item each made, `request_to_run`, `request_context` and
`iteration_context` the clones it works on, `summary` the RunnerSummary.  A
variable context is abstracted to the set of script runs whose changes it
holds, which is enough to tell whether a change was lost or leaked; a request
to its scripts and its number of assertions; a status to "none", "ok", "bad".

| Actions | Code (`core/runner.rs`) |
|---|---|
| `TopCancelled`, `NextIteration`, `TakeRequest` | heads of the loops, 1151-1220 |
| `LaunchBatch`, `RespondConcurrent`, `DropConcurrent`, `Join`, `CountItem`, `EndBatch` | batches, 1056-1135 and 1154-1197 |
| `DelayElapsed`, `DelayCancelled` | the `select!` between requests, 1203-1211 |
| `StartPreScript`, `PreScriptOk`, `PreScriptInvalidRequest`, `PreScriptErr` | the pre-request script, 1216-1246, and `ScriptResult::apply` (`core/scripting.rs` 94-134) |
| `Respond`, `Drop` | the `select!` of the request, 1248-1280 |
| `StartTestScript`, `TestScriptOk`, `TestScriptErr`, `RecordItem` | the test script and the end of the loop body, 1280-1376 |

A script is two steps, its start (which refuses when the flag is set) and its
end, so that a cancellation falls before, inside and after it.  Responses,
script outcomes and the request a pre-request script makes are chosen by the
environment from all the shapes there are.

### RunReport

What a caller may rely on: results are reported in work order and each at most
once, nothing is reported of a batch that starts after a verdict, and a verdict
of "finished", "failed" or "cancelled" has its reason.  `Runner` implements it
through the mapping at its end (`ImplementsReport`); the contract has no
fairness, since that a run ends is checked on `Runner` itself (`RunEnds`).

### PostlyRun

The CLI command around the runner: it loads the collections one after the
other, skips those without a selected request, calls `run_requests`, stops
after a fail-fast failure or a cancelled summary, and chooses the exit status.
`CtrlC` and `CtrlCNotifies` are the signal task's two halves of `cancel`.

### History

Each process appends (`OpenForAppend`, `WriteText`, `WriteNewline`) and
compacts (`StatFile`, `ReadLines`, `RenameCompacted`), one system call at a
time; `Clear` truncates, `Abort` is a crash or an I/O error anywhere.  Files
are numbered, since a rename gives the name to another file while a process may
still hold a descriptor of the old one.  The module's names begin with
`history` where those of the transaction are the plain ones (`HistorySpec`,
`HistoryTypeOK`), since `MCStorage` extends both.

### WorkspaceTransaction

An import: `CreateCollection`, `SaveCollection`, `SaveRequest` and
`SaveEnvironment` aim at a file, then `EnsureDirectory`, `Snapshot` and `Write`
follow the code's order, each with its failure; `ImportError` is any error
between two saves.  The drop of the uncommitted transaction restores the
journal's files one at a time and then tries to remove the directories it
recorded, in that order.  `UpdateRequest` and `DeleteRequest` are the user's,
at any moment.  Creating a request while an import chooses the same free path
is left to `WorkspaceFiles`.

### DesktopTabs

The fields of `PostlyApp` that tabs, drafts and files have in common are the
record `app`; `disk` is the workspace directory: request files, the recovery
snapshot and the saved tab list.  The helpers of `PostlyApp`
(`sync_active_tab`, `install_tab`, `refresh_requests`, `persist_recovery`, ...)
are operators of the same names that take the fields and return them changed,
so an action is the whole handler with every call it makes; the module names
`OpenDraft` for `new_request` and `SelectEntry` for `select_request`, which
other handlers call too.  A request is abstracted to its id and the number of
the edit that made it; a path to its collection and its place in listing
order, so that "a free path" stands for a new name, an id prefix or a suffix.

A step is a frame: at most one command, then what `ui` does after drawing
(`EndOfFrame`: sync, save the tab list, save the drafts if due).  Every frame
may also crash between the two, and the program may crash or exit between
frames.  `valid` says whether the editor's text parses; `unreadable` holds the
collections one of whose files does not.  `SecondPasses` is the throttle of
`persist_recovery_if_due`.  `fresh`, `owed` and `allowed` are history
variables: the edits since the last due snapshot, and at the end of the
program what a restart must and may bring back.  So is the field `file` of a
draft in the snapshot, the file it is a draft of, which the program does not
write; `TabsKeepCollection` speaks of it because a draft's id does not tell:
the code restores a draft beside the tab of its file, under one id, and the
draft's tab may then follow another collection.  `Picked` is Rust's `filter` on
a sequence: its elements at given positions, in their order.

| Actions | Code (`app/main.rs`) |
|---|---|
| `Edit`, `NewRequest`, `ImportCurl`, `SelectRequest`, `SelectCollection`, `OpenSearchResult`, `ReopenHistory` | 4515-4567, 1660-1702, 2070-2092, 1628-1658, `app/navigation.rs` 304-312, 1613-1626, 1709-1738 |
| `SwitchToTab`, `CloseTab`, `CloseOtherTabs`, `MoveActiveTab` | 1526-1597 |
| `SaveCurrent` (also `save_response_example`), `DuplicateCurrent`, `DeleteCurrent`, `DiscardRecovery` | 2751-2837, 2508-2581, 1213-1242 |
| `SendCurrent`, `PollPending` | 2883-3013, 3725-3880 |
| `OpenApp`, `OnExit`, `Crash` | 955-1138, 8332-8337 |

Two exceptions are written into the properties, because the code behaves so by
its handlers: an import of a cURL command takes the place of the editor's
request, and text that does not parse is in no tab and no snapshot.  Write
errors, the size limit of the snapshot and changes that other programs make to
the files are left out.

### WorkspaceFiles and RequestStore

`WorkspaceFiles` is the request files of one collection under several
processes: `disk_files` by path, and for each process its operation, the
candidate of `request_path_for` it is about to ask for (`TryPath`), and the
request it has open.  `SaveNewRequest`, `RelocateRequest` and
`DeleteOpenRequest` begin `save_request`, `relocate_request` and
`delete_request`; `WriteRequestFile` is the rename over the chosen path,
`RemoveOldFile` the second half of a relocation; `OperationFails` takes the
code's own way out at any of them and `ProcessDies` none.  `RequestStore` is
the contract without paths: each request's versions, of which a save adds one
and may drop older ones, and only a deletion leaves none; processes that work on
the same path at the same time are promised nothing (`Race`).
`ImplementsRequestStore` is the refinement.

### Environments

`environment_files` by slug, `keychain` by reference, `environments` the
desktop's list, and `saving` what each process is about to save.  An operation
begins with its environment (`SaveEnvironmentEditor`, `SetEnvironment`,
`MigrateEnvironmentSecrets`, `ImportEnvironment`, `ImportDotenv`), stores its
typed secrets one by one (`StoreNextSecret`), writes the file
(`WriteEnvironment`) and, when the name changed, removes the old one
(`RemoveOldEnvironment`); `SaveFails` and `SaverDies` fall between any two
steps.  `CheckOutEnvironment` is a file of a version without a keychain.

### Variables

`resolve_text` of `core/variables.rs`: `DefineVariable` fills one of the seven
scopes, `Resolve` takes a template and `SubstitutePass` is one pass, with what
it reports as undefined or cyclic and the bound on passes.  Texts are sequences
of tokens, since only braces and names matter.

### CookieJar

Each engine's copy and the numbered files that the jar's name and the temporary
name refer to.  `LoadEngine`, `ChangeCookies`, then the system calls of a
persist: `OpenForPersist`, `WriteJar`, `RestrictPermissions`, `RenameJar`, each
of which can fail; `DropEngine` is the end of an engine, by a death even in the middle of a persist.

### OAuthTokens and PkceBrowser

`OAuthTokens`: `token_cache` and for each request how far it is - looked up
(`LookUpToken`), fetching (`IssueToken` at the server, `ReceiveToken`), or in the
device flow (`AuthorizeDevice`, `LoopOrExpire`, `PollToken`, `PollAgain` with
`slow_down`).  `interval` is the code's, cut to `MaxInterval`; `asked` is what the
server wants, which nothing cuts, and `DeviceFlowIsPaced` compares the two.
`Tick` lets time pass only while no step of the program is due.
`PkceBrowser`: flows that share the redirect port.  `StartFlow` binds it,
`OpenAuthorization` opens the browser, `AcceptConnection` takes the one
connection the code takes, `ReadCallback` and `AnswerCallback` follow, then
`ExchangeCode`; `BrowserConnects` puts any callback, denial or idle connection in
the listener's backlog.

### EventStream and WebSocketSession

`EventStream`: the parser's pending id and data, Last-Event-ID, attempts and the
phase of the worker (connecting, reading, sleeping, reading an error's body), for
the desktop and for the CLI.  `StreamServer` is whatever the server does next:
an answer, a line, the end of the connection.  `FlagCancel` and `NotifyCancel`
are the two halves of `cancel`, `SelectCancelled` the select's other branch.
`WebSocketSession`: the command queue, what was transmitted, the updates to the
window and its state.  `SocketWorker` is a step that the worker takes by itself
(a handshake with its timeout, a delay, taking a command or the cancellation out
of its `select!`).  What it then writes is awaited inside the branch, where neither
commands nor the cancellation are seen and nothing limits the time: a text or a
pong (phase "sending", from `SendCommandedText` or `AnswerPing` to `SendDone` or
`SendFails`) and the close frame ("closing", from `ObeyClose` or
`SocketCancelled` to `CloseDone`).  Those ends are the peer's, as are the end of the
connection and pings (`SocketPeer`); `SendText`, `CloseWebSocket`,
`CancelWebSocket`, `ClearWebSocket` and `PollWebSocket` are the window's.

### Tunnel, GrpcCall and MockServer

`Tunnel`: `ChooseRoute` decides between a direct connection and a proxy of
either kind, by NO_PROXY and the URL; then the proxy's answers and the client's
reads alternate over a sequence of bytes, of which a CONNECT reply is read in
chunks and a SOCKS5 reply by exact lengths.
`GrpcCall`: each client's list of checks and network steps in its own order
(`CheckStep`, `NetworkStep`), reflection (`ListServices`, `DescribeService`,
`BuildSchema`) with the fallback to the older version, and the stream itself
(`SendInput`, `ServeMessage`, `ReceiveMessage`, `FinishCall`).
`MockServer`: `StartMock` builds the routes of a project; the server is
listening, reading one client's pieces (`ReadPieces`, `RequestIsRead`) or writing
(`WriteAnswer`, `WriteFails`); clients connect, send pieces, end and leave.

### HttpExchange

One request through the engine: `Prepare` resolves and checks in the code's
order, `ReadFiles` opens a body's files, `AcquireToken` and `SignAndClone`
authorize, sign and keep a copy for a retry, `Exchange`, `ReadAnswer` and
`Retry` are the exchange and the Digest challenge, `ReadChunk` and
`BodyReadEnds` the bounded body, `HandOnStream` a stream's.  A request is
reduced to what can make a difference to these steps.

### ScriptProcess, ScriptHarness and ScriptRequest

`ScriptProcess`: the thread of `run_script_with_execution_info` (`ScriptThread`:
write the input, poll cancellation, child and deadline, kill, join the readers),
two reader threads (`ReadPipe`), the child, and the two pipes with a capacity.
`ScriptHarness`: the JavaScript side.  A turn of the script sets variables,
records tests and sends requests; `Settle` is an answer, `Continue` the callback
it runs, `WriteOutput` the harness's look at what is pending, `ContinueLate` the
continuation of an `await` after it, `ApplyResult` the parent.
`ScriptRequest`: `GiveRequest` translates a native request to Postman's shape,
the script edits its URL, query, authentication and body, and `ReturnRequest`
translates it back.

### DesktopWorkers and RequestEditor

`DesktopWorkers`: workers in the order of their start, each with its channel;
the slots of the window (`pending`, `script_pending`, `sse_pending`,
`websocket_pending`, the run and the import of `workflows.rs`) and the panels
they fill.  A frame is `NewFrame` and then the polls in the order of
`PostlyApp::update`, while workers send and end between any two of them.
`plan` is the order in which the user starts work, chosen in Init to keep
the instance small.
`RequestEditor`: `LoadRequest` is `load_request_editors`, the panels are one
action each, and `EditedRequest` is `edited_request`; `saved` is the request in
the tab.

### JsonComparison

The window of `app/comparison.rs`: its button, baseline, exclusions and the
comparison, while requests are opened and responses arrive.  `Visit` is the
walk of `core/diff.rs` with its three limits; a pointer is a text with its
escapes, so that a key with a slash and one with a tilde can be confused.

### ResponseAssertions, PostmanFormat, OpenApiFormat and CurlFormat

Pure algorithms with as much state as their loops have.
`ResponseAssertions` evaluates a request's assertions; a JSON Schema is a record
of keywords that names other schemas, and the references are counted as the
code counts them.  `PostmanFormat` takes a document or a collection and imports or
exports it item by item (`ImportItem`, `ExportCollection`), twice where the
round trip is the question.  `OpenApiFormat` reads remote documents (`FetchNext`,
`SkipFetched`, `FetchDocumentFails`), expands references, imports operation by
operation and exports.  `CurlFormat` writes a command of a request and reads
commands word by word, one action for each kind of option.
`ResponseAssertions`, `OpenApiFormat` and `JsonComparison` use RECURSIVE
operators; no theorem is about them.

### Components

The properties of several components that share no state: `StoredDataIsWhole`,
`TokensAreOwnAndValid`, `StreamsKeepOrder` and `WorkersAreAccountedFor` are
conjunctions of theirs, stated here so that proofs and the run of `MCComponents`
speak of the same.

### Modules of proofs

| Module | About |
|---|---|
| `RunnerProofs` | `Runner`: types and totals, order, fail-fast, cancellation, variables, and that it implements `RunReport` |
| `PostlyRunProofs` | `PostlyRun` |
| `WorkspaceTransactionProofs` | `WorkspaceTransaction` |
| `HistoryProofs` | `History` |
| `StoredDataProofs` | `WorkspaceFiles` with `RequestStore`, `Environments`, `CookieJar` |
| `ComponentProofs` | `OAuthTokens`, `PkceBrowser`, `ScriptProcess`, `ScriptHarness`, `DesktopWorkers` |
| `StreamProofs` | `EventStream`, `WebSocketSession`, `Tunnel`, `GrpcCall` |
| `DesktopTabsProofs` | `DesktopTabs` |

## 4. Runs

All of them are named in `PROJECT.json` with their properties; each property of a passing
run has a mutation of a mapped definition that breaks it.

| Run | Shows | Bounds |
|---|---|---|
| `runner_scripts` | sequential runs: the summary adds up, variables follow the iteration, every run ends | two requests of any of the tried shapes, two iterations, one test for each script |
| `runner_batches` | batches and fail-fast: success is complete, fail-fast and cancellation stop at a batch, `RunReport` is implemented | three requests, batches of two (so that the last one is short), two iterations |
| `runner_cancel` (violation) | a lost wake-up keeps a cancelled run waiting | as `runner_scripts`, no fairness for the server |
| `postly_run` | exit status, nothing started after Ctrl-C, the command ends | two collections of at most two requests, one of them perhaps empty |
| `postly_run_interrupted` (violation) | a fail-fast batch that was cut off by Ctrl-C exits as an ordinary failure | the same |
| `storage` | the history: order, bounds and completeness of the file; the transaction: commit is complete, rollback restores, the user's requests and directories stay | one of the two in each behaviour, since they share no file (`MCStorage`). History: two processes, four appends of short and long entries, one abort; two entries and six bytes fit. Transaction: three requests of the same name and id prefix (the third needs the numbered suffix), three nested folders, two manifest writes (the second must not be snapshot again), one user edit, one I/O error |
| `history_lines` (violation) | two entries on one line | three appends |
| `transaction_directories` (violation) | a failed import leaves directories | no I/O error is needed |
| `desktop_tabs` | drafts survive commands and restarts, clean tabs are saved, one tab for a file, tabs keep their collection, answers belong to the shown request | two collections of at most two files (one at first; a duplicate makes the second in one command), three tabs, two edits, four commands, two starts, so that every command meets a clean, a dirty, a recovered and an unparsable tab, and a restart follows or precedes commands |
| `desktop_tabs_delete` (violation) | deleting a request loses the neighbouring draft | the same with two files at first and one edit |
| `postman_credentials` (violation) | the token of an imported bearer is lost | a collection with authentication and a folder of two items, with their own and without, in every combination of four kinds |
| `components` | the 22 modules below, one at a time (next section) | |

The bounds are the smallest with which the interesting cases happen: a batch
that is short, a second iteration, a request before and after another one, an
entry that is too large by itself, a third clash of names.

### The run `components`

The other components share no state with each other as far as these properties
go, so one run checks them as a disjoint sum.  `MCComponents` has the variables
of all of them and `exploring`, which Init sets to the name of one and no step
changes; the others keep their initial state.  The reachable states are the
union of the components' own, and not their product, so the run says of each
component what a run of its own would say - no more: interactions are checked
inside a module that has both sides (two processes, two engines, a worker and
its window), not between the members of the sum.  `Explored(c, P)` is `P` when
`c` is the component that moves.  A property of the run is the conjunction of
the components' own:

| Property | Conjuncts (module) |
|---|---|
| `ComponentsTypeOK` | the type invariant of each |
| `RequestsAreSentAsWritten` | `AcyclicTemplatesResolve` (Variables): a template without a cycle resolves to its full expansion and every name left is diagnosed; `EditorKeepsRequest` (RequestEditor): what is typed for one assertion is saved with that one, and nothing else changes; `ExchangeIsSound` (HttpExchange): nothing undefined, unsigned or sent a third time, and a body that is returned is whole; `ScriptKeepsRequest` (ScriptRequest): a part that a script does not touch is sent as it was |
| `SecretsResolve` | Environments: every reference in a file has its value, and belongs to one variable |
| `SavesKeepValues` | `FailedSaveKeepsFiles` and `MigrationKeepsValues` (Environments), action properties |
| `StoredDataIsWhole` | `OneFilePerRequest` (WorkspaceFiles), `JarFollowsEngine` (CookieJar) |
| `TokensAreOwnAndValid` | `CachedTokensAreValid` (OAuthTokens), `FlowUsesOwnCode` (PkceBrowser) |
| `StreamsKeepOrder` | `EventsResumeInOrder` (EventStream), `TextsSentInOrder` (WebSocketSession: texts go out in order, and of those not yet sent at most one is outside the queue, the one being written), `TunnelIsClean` (Tunnel), `CallsAreWhole` (GrpcCall) |
| `WorkersAreAccountedFor` | `WorkIsAccountedFor` (DesktopWorkers), `ReturnedScriptIsReaped` (ScriptProcess), `ScriptOutputIsExact` (ScriptHarness) |
| `TranslationsKeepMeaning` | `PostmanKeepsRequests` (all but the token of a bearer, which `postman_credentials` is about), `OpenApiKeepsMeaning` (all but API keys, section 6), `CurlKeepsRequests`, `AssertionsAgree` (ResponseAssertions: schemas that mean the same accept the same values, opposites never agree), `ComparisonIsExact` (JsonComparison), `MockAnswersAreExact` (MockServer: each answer is that of its own client's request, and no client gets two) |
| `ImplementsRequestStore` | the refinement of `RequestStore` by `WorkspaceFiles` |
| `DeviceFlowIsPaced` | OAuthTokens, an action property: polls are as far apart as the server wants, or as `MaxInterval` if it wants more |
| `CancelledWorkEnds` | liveness: `CancelEndsStream`, `CloseEndsWebSocket`, `ScriptReturns` and `BrowserWaitEnds` in one formula; for a WebSocket on the premise that its writes come to an end (`WritesComplete`) |

Most properties have a mutant for more than one of their conjuncts.

Bounds, and why they are enough:

- *variables*: two names in two scopes, each defined by a text or by the other
  name, with itself or without; four passes exceed any acyclic nesting of two
  names.
- *environments*: three names of which two have one slug; one key, two saves at
  the same time, one failure or death.
- *files*: two processes, three requests whose ids have one prefix and two
  names, so that the plain path, the id suffix and the number are all used;
  three operations, one failure.
- *cookies*: two engines, two cookies of which one fits, three writes.
- *tokens*: two requests, two keys and room for one token; times up to three
  units with a skew of one, lifetimes on both sides of it; a server that asks for
  no interval and one that asks for more than the client's maximum, and
  `slow_down`s that lead above it.
- *streams*: three events and two reconnections, cut anywhere; two texts and
  one reconnection, with at most one unread update before a ping; a proxy's reply of up to four units in reads of one to
  three; two gRPC services and two messages of the server.
- *scripts*: a pipe of one unit and outputs on both sides of the limit; two
  sent requests and two test entries (one more than there is room for).
- *workers*: nine pairs of work, which share a slot, a panel or the workspace.
- *editor, request and exchange*: three steps over requests of every kind of
  body and authentication; two steps of a script; every defect of a request
  alone, challenges of every kind, and bodies below, at and above the limit.
- *comparison*: five steps of the window, eight documents, two of which are too
  deep, and limits of three changes and five visits.
- *formats and assertions*: the instances are listed in `MCFormats` and
  `MCRequests`: each keyword, construct, kind of authentication and body at
  least once, alone or with the one it interacts with; for schemas the pairs
  that must agree.
- *mock server*: two clients, requests of up to two pieces, projects with
  a route in two collections, one that depends on the environment, an example
  without status, and no route at all.

*Fairness.*  `Runner!Fairness` is weak fairness of the runner's own steps
(tokio polls a task that can run; scripts end within `SCRIPT_TIMEOUT`) and of
the second half of `cancel` (a thread that is inside the call continues).
`Spec` adds weak fairness of the server's answer, which reqwest's overall
timeout justifies: a request ends with a response or an error.  `SilentServerSpec`
leaves that out, to ask whether the token alone releases a run.  Nobody has to
cancel.  In `components`: an event stream's worker runs, its timers fire, and the
server or the request's timeout lets no single wait last for ever, though a
server may send comments for ever (`StreamServer`, `SleepEnds`,
`SelectCancelled`, `NotifyCancel`); a WebSocket's worker runs, its handshakes
being bounded by 30 s (`SocketWorker`, `NotifyWebSocket`), and takes a command
that is in its queue whenever it selects, however many pings come between:
`select!` polls its branches in a random order, hence strong fairness of
`TakesCommand`.  The peer owes nothing, neither an answer nor reading; that a text, a
pong or a close frame is written in the end is therefore no fairness but a
premise of `CloseEndsWebSocket`, and without it the property is false (section
6).  A script's threads run, time passes, and the harness reads
its input, while the script itself need not end (`ScriptThread`, `ReadPipe`,
`ChildReads`, `DeadlinePasses`), and the wait for the browser has a timeout,
`OAUTH_BROWSER_TIMEOUT` (`TimeOutFlow`).  The other modules state safety only
and need none.

*Deadlock* is checked in the runs of the runner, the command and the storage: a run, a command or an import that is over stutters explicitly,
and so does the history when its bound on appends is used up and no process is
inside an operation.  `desktop_tabs` and `components` do not check it: the
program may be closed for good, and a stream, a script or an import ends.

## 5. Proofs

Every theorem is proved from the assumptions that its modules name
(`RunnerAssumption`, `HistoryAssumption`, ...), which give the constants their
types and nothing else that the code does not fix; so for every collection,
every number of processes, every bound.  One is more than that:
`OAuthAssumption` has `MaxDelay <= Skew`, that every answer of an OAuth server
arrives within the 30 s by which the cache retires a token early.  The engine's
timeout is the user's and may be longer, so this is an assumption on servers; the
theorems about `OAuthTokens` hold under it, and a token that was longer on its way
may be sent after it expired.  The shape is the same throughout: an
inductive invariant made of named parts, lemmas on the operators, one lemma for
each part and each group of actions, and temporal reasoning in the last step.
TLC checked each invariant on the component's instance before it was proved.
What the invariants add to the properties, and why:

**Runner** (`RunnerProofs`).  `TypeOK` is not inductive:
that `start` is the position of a request, and not one past the last, must be
known wherever it is an index (`Positions`).  `SummaryAddsUp` needs `Pending`,
which says at every position exactly how far the request count is ahead of the
results.  The other properties need to know where the runner is (`FlowInv`: who
has a future, whose item a slot holds, that batches begin at multiples of
`concurrency`).  `RunnerSuccessIsComplete` and `RunnerFailFastStops` then follow
from `OrderInv`: results are in work order and before the position reached,
everything before that position is reported, and a failure under fail-fast lies
in the batch at hand.  `RunnerVariablesFollow` needs `VariablesInv`, which says
in which of the two contexts the variables of the iteration are at each
position; `RunnerOneBatchAfterCancel` needs the batch to which late records
belong (`LateFacts`).  `RunnerImplementsReport` is the refinement: the mapping
takes initial states to initial states of `RunReport` and each step to one of
its steps or to none.

**postly run** (`PostlyRunProofs`).  The runner's invariant holds inside each
collection; `Kept` says what the summary of every finished collection shows, and
which summary that is (the one numbered by the selected collections so far);
`NotStarted` that a collection taken after Ctrl-C never leaves the head of the
runner's loop.  They give `PostlyRunExitZero` and `PostlyRunNoLaterCollection`.

**Transaction** (`WorkspaceTransactionProofs`).  `FilesInv` relates disk, journal
and the user's files: off the journal they agree, the journal holds what the
user had, and no request of the user's is ever in it.  That last part rests on
`request_path_for` finding a free path, which a pigeonhole argument on finite
sets of names shows.  `DirsInv` keeps directories closed under parents and says
that a recorded directory was not there before; `ImportInv` that each request
brought is in exactly one file.

**History** (`HistoryProofs`).  `OrderInv` says that every file that ever had the
name is ordered, and every snapshot a compaction has still to write, however
old: so a stale rename can lose entries but not disorder them.  `BoundInv` names
who will still compact a file that is too long.  `AloneInv` holds while nothing
overlapped: the file holds the newest entries without a gap.  `History` computes
over lines with recursive functions and folds; what is needed of them (`Flat` of
a concatenation, the size of a suffix) is proved from their recursion equations
by contradiction at a least counterexample (`LeastNatural`), since the library's
induction theorems cannot be instantiated.

**Stored data** (`StoredDataProofs`).
*Files:* as long as nothing raced, one process at most is in an operation, the
path it started from still holds its request, and the path it is about to write is
free or its own (`AloneInv`); with no failure either, two files hold one request only
between the halves of a relocation (`TwinsInv`).  `WorkspaceFilesImplementStore`
is the second refinement: each step of a save, a relocation, a deletion, an
error or a death is a step of `RequestStore` or none.
*Environments:* whatever a file, the desktop's list or a save under way refers to is in the
keychain (`ResolveInv`), from which `SecretsAlwaysResolve` follows.
`SavesKeepUsersValues` are two action properties; they need to know that an
operation that is alone finds the files as they were but for its own new file,
and what a migration has done of its file so far (`SavesAlone`).
*Cookie jar:* the temporary file of the engine that writes is its own and as far
as its phase says (`TemporaryInv`), as long as no two engines persist at the same time.
`StoredDataStaysWhole` puts files and jar together.

**Components** (`ComponentProofs`).
*OAuth:* the times of each fetch (`TimesOf`: what it waits for comes within
`MaxDelay`) and of each cached token; `OAuthDeviceFlowIsPaced` is an action
property from the same invariant: a flow's `last_poll` is never later than the
sleep it is in began, and its interval is at least what the server wants, or
`MaxInterval` if that is less.  *PKCE:* what each flow knows at each phase.
*Script process:* where each pipe's bytes are, and what the waiting thread knows
of child, kill and readers at each step.  *Harness:* what was changed, tested and
written is what the script asked for so far, also while answers are pending.
*Workers:* a slot's worker is of the slot's kind and not yet shown, what a panel
shows belongs to a worker that ended, and what was dropped is known.
`TokensStayOwnAndValid` and `WorkersStayAccountedFor` are the properties of
`Components`.

**Streams** (`StreamProofs`).
*Event stream:* the parser's data, the last id and the server's position agree.
*WebSocket:* the texts transmitted are the first ones, in order; until a session
of the desktop's has ended, those in its queue are all the others submitted so far,
in order, but for the one being written, over every reconnection (`TextsInv`); and the window's idea of the connection is the worker's, but for
the updates it has not polled (`ConnectionInv`).
*Tunnel:* in each phase of a handshake it is known how many bytes of the proxy's
reply are still on their way, and that behind them the target's next ones follow
without a gap (`Ahead`); the target is silent until the proxy has agreed.  For
CONNECT one also has to know where the blank line is (`HeaderAhead`), for SOCKS5
that the client will ask for the length the proxy sent (`SocksAhead`), whatever
the type of the address.  Then a tunnel that opens begins with the target's bytes.
*gRPC:* each client's remaining steps are the end of its own plan (`Follows`), and
so their number says what has been checked (`Checked`); a reflected schema
is empty until the files of all services are there, of one version
(`ReflectionInv`); what was served, received, shown and is still on the way add up
(`MessagesInv`).
`StreamsStayInOrder` puts the four together.

**Desktop tabs** (`DesktopTabsProofs`).  From `DesktopAssumption`, which only
gives the bounds their types: any number of collections, files, tabs, edits and
starts.  Each helper of the app has a lemma that says what it does to a world of
fields and files (`WholeRefresh`, `WholeSwitch`, `WholeDelete`, ...), so the
lemma of an action follows the calls of its handler, and one on frames adds what
the frame does afterwards or what a crash leaves.  `TypeOK` is not inductive:
edits must be bounded by those made so far and not by `MaxEdits` (`TabsTyped`), a
program that runs has a request in its editor, the active tab and the snapshot's
active draft are in range, and what was asked or answered belongs to the editor's request
(`Answers`), from which `ResponseOfShownRequest` follows.  `OneTabPerFile` needs to
know why a file that is opened has no tab yet and why the editor's file is its
active tab's (`TabsPlaced`: tabs of files have distinct files, which exist, and
their collections; the editor's path is that of the active tab; the
listed requests are of the selected collection; the saved tab list has no file
twice).  These hold while every collection can be read, the case of which the
properties speak: a collection that cannot be read makes handlers stop half-way.
`RestartRestoresDrafts` is about a step, a start, and about all steps since the
start before.  Its invariant (`DraftsBacked`) says of a running program, at the end
of each frame, that every unsaved edit is in the snapshot or newer than the last
due one (`Settled`), and of a stopped one that the snapshot holds what is owed and no
more than is allowed.  Between the frames' ends a weaker form is kept by every
helper (`Backed`): a save or a deletion that removed the snapshot sets the time of
the last one back to "none", which makes the next one due; that an editor and its
tab agree (`Synced`) holds again once the tab is synced, unless the text does not parse.  On a
start it is shown that the tabs restored are those of the snapshot
(`OpeningRecovered`) and that the first frame leaves them alike.
`CleanTabsStaySaved` is a step property too: its `Clean` says of the fields what
`CleanMeansSaved` says of the tabs, and that a clean editor which parses has what
its file holds, for it is the editor that the next sync writes into the active tab.
Each handler but the deletion's keeps it: what it writes goes to the file of the
editor, and no other tab has that file (`TabsPlaced`), or to a file that no tab
shows (`Avoids`).

The type invariants themselves are theorems of `Runner`, `PostlyRun`, the
transaction, `History`, `CookieJar`, `PkceBrowser`, `ScriptProcess`, `EventStream`,
`WebSocketSession`, `Tunnel` and `DesktopWorkers`.  Of `WorkspaceFiles`,
`Environments`, `OAuthTokens`, `ScriptHarness` and `GrpcCall` the invariants contain
types of their own.  The bound on tries in `WorkspaceFilesTypeOK` is only
model-checked, and so is `GrpcTypeOK`, which would need every compiled schema to
be of the server's services.

Only model-checked:

- liveness (`RunEnds`, `CommandEnds`, `CancelledWorkEnds`) and whatever rests on
  ENABLED, which the proof system does not reach;
- of `DesktopTabs`, `DraftsSurviveCommands`;
- `RequestsAreSentAsWritten`;
- `TranslationsKeepMeaning` and `ComponentsTypeOK`: they reach the RECURSIVE
  operators of `ResponseAssertions`, `OpenApiFormat` and `JsonComparison`, which
  a module with a theorem must not, and say what recursive definitions
  compute for given inputs.

## 6. What the models found

Recorded as violations, each with a run of its own:

- `cancelled()` reads the flag before it creates the `Notified` future: a
  cancellation between the two is not seen until the request's own timeout
  (`core/runner.rs` 61-65; docs/cli.md 157).
- After a batch the runner looks at fail-fast before it looks at cancellation,
  so an interrupted command may exit without the "explicit cancellation error"
  (`core/runner.rs` 1187; docs/cli.md 158-159).
- `writeln!` to the history is two writes; two processes may put two entries on
  one line, and then reading the history fails (`core/storage.rs` 646, 674).
- A rollback removes directories in the order in which calls recorded them,
  so an import with folders leaves its collection's directories behind
  (`core/storage.rs` 899; test at 1164).
- Deleting a request leaves the next tab active under an editor that still
  holds the deleted request; the following refresh writes it over that tab's
  unsaved draft and the snapshot that had the draft is removed
  (`app/main.rs` 2814-2834; docs/debugging.md 82-84).
- A bearer token of a Postman collection is lost on import, silently: `parse_auth`
  reads it under the key "value" (`core/import.rs` 1136), where Postman, the export
  (`core/export.rs` 475) and the fixture (compat/postman-import/basic-v2.1.json 21)
  have "token", and the item counts as imported without a review
  (docs/migration-from-postman.md 28; docs/progress.md 17).


The rest was met while modelling and is written into the models, as what the
code does or as an exception of a property; no run is named after it.

*Files and secrets.*
- After a click on another collection that is refused because the editor's text
  does not parse, the list shows the other collection while the editor keeps its
  request, and the next save moves the request's file there (`app/navigation.rs`
  305, `app/main.rs` 1636 and 2754).
- While a collection cannot be read, a selection of it leaves the old list on
  screen, and a deletion whose refresh then fails leaves the deleted request's entry
  in it.  Opened from there, edited and left, it is a draft whose file is gone; a
  duplicate is then given the free path, `select_request` shows the draft's tab for
  it, and `duplicate_current` marks that tab as saved and removes the snapshot, while
  the file holds the duplicate (`app/main.rs` 1344, 1628, 2784-2802).
  `DraftsSurviveCommands` therefore speaks of readable collections only.
- A draft restored from a saved request keeps
  the request's UUID, so that saving it makes a second file of that id.
- A secret's reference is kept under the old name when an environment or a key is
  renamed with a blank field (`core/secrets.rs` 78; docs/environments.md 84-85).
- A new or renamed environment overwrites another one with the same slug, and a
  relocation that fails then deletes it.
- Two engines persist the cookie jar through the same temporary name, which can
  leave a torn jar, and an older engine brings back cookies that were cleared.

*Variables and requests.*
- Two names that define each other, and one that defines itself, are never
  diagnosed as a cycle, while `{{a}}{{a}}{{b}}` with `b` = `{{a}}` is.
- A multipart file path is diagnosed for variables and opened unresolved; keys of
  a JSON object are diagnosed and never resolved.
- Digest with a multipart body can never be sent; an AWS signature of a multipart
  body hashes an empty payload; an invalid first Digest header is an error even
  if a later one is valid.
- `Instant + Duration::from_secs(expires_in)` may panic for a large `expires_in`
  (`core/http.rs` 1765); the device flow may poll once after its deadline, and a
  server that wants more than 60 s between polls is polled every 60 s (1589, 1666).
- The PKCE listener accepts exactly one connection, so that a browser's idle one
  ends the flow.
- The desktop makes an engine for each send, so its token cache is always empty.
- The request editor drops the client secret of PKCE and refresh-token requests,
  and shows the GraphQL query of an earlier request when another one's body is
  switched to GraphQL.

*Streams, workers, scripts.*
- A cancellation does not interrupt the reading of an event stream's error body
  (docs/sse.md says it does); a connection that ends inside an event's data shows
  it truncated and resumes after it.
- WebSocket handshakes of the CLI that time out are not retried, and the CLI sends
  its list again on every reconnection; Close during a reconnect delay waits for
  the next connection.
- The desktop's WebSocket worker awaits the pong, a text and the close frame with no
  timeout and outside its `select!` (`app/main.rs` 3489, 3525, 3534, 3541): a peer
  that stops reading keeps a session that was closed or cancelled from ending until
  the connection breaks.
- After CONNECT, bytes of the target that came with the end of the reply are lost.
- The desktop discards what it received of a gRPC stream that then fails, and the
  CLI has printed it; reflection by v1 that fails late starts over with v1alpha.
- A script's input is written before the deadline and the cancellation count, and
  a write that fails leaves the child unreaped; a test after the last
  `await pm.sendRequest` is lost.
- Running any script turns raw content types into canonical ones, drops the query
  of the URL's text when a list exists, and turns scalar GraphQL variables into
  `{}`; `pm.variables.set` is shadowed by iteration data; variables of a script
  are applied before its invalid request is refused.
- A test script's error is shown only if a pre-request report exists; opening an
  imported project replaces the window's state without cancelling its workers.
- The mock server serves one client at a time: one that sends nothing blocks the
  others, a Ctrl-C meanwhile is lost, a client that is gone before its answer is
  written ends the server, and a request cut short after its first line is
  answered.

*Formats.*
- A broken JSON Schema (a cycle of references, an invalid pattern) counts as "does
  not match", so that `not` of it passes; a recursive schema refuses values nested
  64 levels.
- Postman: scripts of
  folders are copied into requests and kept in the collection, so that an export
  that is imported again doubles them; `:id` is replaced inside `:idx`.
- OpenAPI: API-key schemes are never imported, but reported as an unsupported type,
  since `apply_security` compares with "apikey" (`core/openapi.rs` 2439) what the
  format and the export (756) spell "apiKey"; docs/openapi.md 27 lists "common
  HTTP/API-key security schemes" among what is imported.  `ApiKeepsRequest` leaves
  them out.  The export writes
  `x-postly-disabled` and `x-postly-auth`, which nothing reads; of two requests
  with the same method and path the later replaces the earlier; one path item
  that is no object ends the whole import.
- cURL: a copied request with an empty raw body is refused on import, because empty
  words are dropped; of several cookies the last is kept; `@file` is imported as
  text; `curl -G url` becomes POST; a query is appended after a fragment.
- Comparison: a load that fails leaves the result of the earlier baseline beside
  its error, which is right, and choosing an example leaves the error of the
  earlier comparison beside the new baseline.

## 7. Not modelled

- *Code generation, documentation, the demo project*: they print; a model would
  repeat their text.
- *Lexing*: of dotenv files, TOML and URLs; form encoding only as far as signs
  that separate.  A regular expression is the set of texts it matches.
- *Signatures and digests*: that they are computed, of what and when is in
  `HttpExchange`; the hashes and canonical texts themselves are not.
- *Other CLI commands* (demo, init, new, list, validate, search, docs, history,
  cookies): argument parsing and one call of the core library each.
- *Drawing*: egui layout and the panels of scripts, examples and documentation,
  whose fields are edited in place.
- *Libraries*: reqwest, tungstenite, tonic, prost-reflect, the cookie store, the
  keychain and Node are the environment; a definition that stands for one of them
  is marked external in `PROJECT.json`.
- *Development tools* (`postly-xtask`): not part of the program.

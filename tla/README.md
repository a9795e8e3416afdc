# WOP in TLA+

TLA+ models, TLC runs and TLAPS proofs for the WOP repository (the Workflow
Orchestration Protocol: a specification, two reference hosts, three SDKs and a
conformance suite).  Paths below are relative to the repository's root.

## 1. The system

### Components

| Component | State it keeps | Operations | Hard behaviours | What makes it correct |
|---|---|---|---|---|
| **SQLite host: run store** (`examples/hosts/sqlite/src/server.ts` 93-286) | tables `runs` (status, claim holder, claim expiry), `events` (primary key run, seq), `idempotency` | one prepared statement each: insert a run, set its status, request its cancellation, acquire, renew and release its claim, count and insert events, remember a key | every statement is a transaction of its own; several processes share the file | claims in force are respected; a run's seqs are 0, 1, 2, ...; rows of the log are never lost; a remembered key names one existing run |
| **SQLite host: executor** (same file, 146-190, 288-483, 560-710, 890-955) | per process: `runningAborters`, `runningHeartbeats`, the coroutines of `runWorkflow` | create, execute, cancel, heartbeat, resume orphans at startup, shut down | crashes between any two statements, stalled event loops, timers against clocks, hand-over of a run, cancel against completion | one executor at a time; one `run.started`; status and log agree; a terminal run is frozen; a run that is executed ends |
| **SQLite host: streams** (713-811) | per connection: the position of the client, a listener on the process's event bus | poll, open a stream (with `Last-Event-ID`), forward events, close | status read before backlog, listener registered after it, events appended by another process, reconnection | a client sees every event once and in order, and its stream ends when the run does |
| **In-memory host** (`examples/hosts/in-memory/src/server.ts`) | `runs`, `idempotencyCache`, `eventBus` | the same endpoints in one process, without claims | macrotasks interleave at `core.delay`; the cache expires entries | the same promises as above, for one process |
| **Event stream readers** (`sse.ts`, `sse.py`, `sse.go` of the SDKs, `conformance/src/lib/sse.ts`, `examples/streaming-client`) | a buffer, the fields of a frame; in Go a goroutine and a channel | read, consume a line, flush an event, hand it over, end, abort | a chunk boundary anywhere, a last event without its newlines, a lost connection, a consumer that leaves; five implementations of one grammar | the same events whatever the chunking, in order and once; a closed stream is complete, a broken one is told (not by Go, not always by Python); the reader ends |
| **Request paths** (`client.ts`, `client.py`, `client.go` of the SDKs, `conformance/src/lib/driver.ts` and `polling.ts`, the examples `idempotent-runs` and `mcp-tool`) | none in the library: the call, the key and the run id are the program's | create, cancel, read a snapshot, poll until the end; one attempt per call | a lost request or reply, a reply torn in its body, a request handled after its client gave up, a repeated call, two programs with one key | one run per key and window; an answer is about the caller's own run; what was answered once stays true |
| **Process harness and stale-claim scenario** (`conformance/src/lib/multiProcess.ts`, `scenarios/staleClaim.test.ts`) | child processes, deadlines and backstops | spawn, wait for readiness, kill, shut down; the test and its hooks | a signal to a wrapper, an exit that never comes, a deadline against a late host, heartbeats of a host that should be dead | the test passes when the hosts are well, and passes for its reason (it does not) |
| **Rest of the conformance suite** (`profiles.ts`, `canaries.ts`, `env.ts`, `cli.ts`, the other scenarios) | none | conditions on documents, argument parsing, linear tests | - | - |
| **Other client examples, scripts** | none that outlives a call | linear scripts | - | - |
| **Specification, schemas, API descriptions** | - | documents | - | quoted as the statements the code is checked against |

### Interactions

A client creates a run with `POST /v1/runs`; the host writes the run and the
idempotency row, claims the run and starts `runWorkflow` as a coroutine that it
does not await.  The coroutine appends events; each append is also emitted on
the process's event bus, to which the open streams of that process listen.
`POST .../cancel` writes `cancelling` into the run's row and aborts the delay of
the coroutine if it is in this process; a coroutine looks at the row before each
node.  Processes share nothing but the database: a process that starts looks
for runs whose claim has lapsed, claims them and runs them from the start of
their workflow.  The conformance suite starts and kills such processes and asks
over HTTP what became of a run; programs that use an SDK do the latter.

## 2. Modules

| Module | Models |
|---|---|
| `RunEvents` | the vocabulary of both hosts: terminal statuses, event and node types |
| `RunStore` | the three tables and one operator per statement that changes them |
| `SqliteHost` | the executor: any number of processes over one `RunStore`, a clock, crashes, stalls, shutdowns |
| `RunLifecycle` | the abstract promise of a host: phase, log and executor of a run |
| `EventStream` | connections of clients that stream or poll a run, shared by both hosts |
| `SqliteStreams` | `SqliteHost` composed with `EventStream` |
| `InMemoryHost` | the in-memory host |
| `InMemoryStreams` | `InMemoryHost` composed with `EventStream`, and its properties |
| `SseClient` | one connection of any of the five event stream readers |
| `SdkCalls` | programs that create, cancel and poll a run through any of the five request paths, over a network that fails, with `InMemoryHost` at the other end |
| `StaleClaim` | the stale-claim scenario, the process harness and its two hosts, which are processes of `SqliteHost` |
| `MCSqliteHost`, `MCSqliteStreams`, `MCInMemoryStreams`, `MCSseClient`, `MCSdkCalls`, `MCStaleClaim` | instances for TLC, and the statements of the documents that the code does not meet |
| `SqliteHostProofs` | lemmas about the statements of `RunStore`; theorems about the SQLite host: types, log and lease, keys, claims, what becomes of a run, and the refinement of `RunLifecycle` |
| `EventStreamProofs` | lemmas about connections, for both hosts |
| `SqliteStreamsProofs` | theorems: what the clients of the SQLite host have received |
| `InMemoryHostProofs` | lemmas about the steps of the in-memory host |
| `InMemoryStreamsProofs` | theorems: its cancellations, logs, clients, and the refinement |
| `SdkCallsProofs` | theorems: its cache and its callers |
| `StaleClaimProofs` | theorem: the stale-claim test recovers nothing |
| `SseClientProofs` | lemmas about flattened sequences; theorems: what the readers of an event stream hand over |

Definitions whose name has the form `X_Something`, under a comment "Seeded bug",
are not part of a specification: each is the definition `X` with a plausible
mistake, and the property it is paired with in `PROJECT.json` fails when it
takes the place of `X`.  They show that the properties can fail.

### RunStore

`status`, `holder`, `expires` are the columns `status`, `claim_holder_id` and
`claim_expires_at`; `events[r]` is the function from the stored seqs to their
rows, so that the primary key is the function's domain and nothing presupposes
that a domain has no gap; `idem[k]` is the row of an Idempotency-Key.  A
statement is an autocommit transaction, and better-sqlite3 is synchronous, so
each is one atomic operator; `SQLITE_BUSY` is waited out by the driver's busy
timeout.  (The head of `server.ts` speaks of `BEGIN IMMEDIATE`; there is no such
statement.)  Bodies, timestamps and the columns `ended_at`, `error_json` and
`inputs_json` are left out: no control flow reads them.  `pruneIdempotency`
deletes rows older than 24 hours, far outside the time the runs cover, and is
left out.

### SqliteHost

* A member of `Procs` is an *incarnation*: `PROCESS_ID` is random, so a process
  that comes back is another process.  `proc[p]` is the phase of its life.
* JavaScript runs a macrotask to its end.  `AtLoop(p)` says that the event loop
  is free; every handler, timer and signal needs it.  Inside a macrotask each
  SQL statement is a step of its own, and the steps of other processes come
  in between.  `resumeOrphans` starts one run after the other and does not
  await them: it goes on when the run before has come to its first await
  (`Returned`), and what that run was waiting for comes after the boot (`Held`).
  `http[p]` is the run of a cancel handler between its SELECT and its UPDATE;
  `orphans[p]` the rows `resumeOrphans` has still to try.
* `co[p][r]` is the coroutine of `runWorkflow(r)` in `p` (with the part of
  `handleCreateRun` that leads to it): the statement it runs next, the event it
  is appending, its node, the seq that COUNT gave it and the number of catch
  blocks it has entered.  `appendEvent` is two steps, `Count` and `Insert`; a
  key conflict is `InsertThrows`, through the `catch` of `runWorkflow` and the
  `.catch` of its caller, and at last `UnhandledRejection`, which ends Node.
* `beat[p][r]` is when the interval timer of `startHeartbeat` fires.  The timer
  renews with the WHERE clause `claim_holder_id = PROCESS_ID` and never looks at
  the number of rows it changed.
* `Shutdown` releases the claims and is the end of the process's effects: the
  delays it aborts continue after `db.close()`, where every statement throws.
  It is one step, since it has one SQL statement and `db.close()` follows in the
  same macrotask; what the continuations would do before `db.close()` is only in
  the seeded bug `Shutdown_Drain`.  The row keeps its `claim_expires_at`, as in
  the code.
* `Tick` moves the clock.  A process outside `MayStall` is *timely*: when the
  clock moves it is at its loop with no timer overdue, that is, a tick is longer
  than any macrotask.  `MayStall` lifts this (a suspended laptop, a long garbage
  collection, a blocked disk).

Left out: authentication, validation, replies and the reads that change nothing
(`GET`, the debug bundle, the idempotent replay and the 409 for a reused key).
A cancel names a run that a client has heard of (`KnownToClients`): from the reply
to the create, which is sent when the coroutine has come to its first await, or from
a replay, which another process answers as soon as the key is recorded.  The check of
`signal.aborted` when a delay begins can never be true, because no macrotask
comes between the creation of the controller and the first delay that sees it.

### EventStream, SqliteStreams

A client follows one run from whichever process answers, and at each connection
anew by a stream or by a poll.  `link[c]` is the state of its connection, `wire[c]`
the seqs sent and not yet received, `got[c]` the seqs it has received over all its
connections; `Last-Event-ID` and `since` are the last of them.  `ReplyToPoll` and
`StartStream` are the two handlers.  `Disconnect` loses what is on
the wire.  In the SQLite host the handler is two statements, `Ask` (the row) and
`Answer` (the backlog and the listener), and the process is `Busy` in between;
a host step with `Effect` then emits every append of a process to the listeners
of that process, within the step, because `eventBus.emit` is synchronous.  A
crash breaks the connections of the process.  So does a shutdown that aborts a
delay, whose coroutine throws through all its catch blocks; any other shutdown
leaves them open and silent, since `server.close` waits for them.

### InMemoryHost, InMemoryStreams

One process, so a macrotask is not interleaved with anything.  A step is one
`appendEvent`, because each append is also emitted to the streams.  At a free
event loop a run that is not over sleeps in `core.delay`: `co[r].next` is the
event that the coroutine appends next, `"sleep"` or `"idle"`.  The second look
at `cancelRequested`, in `executeNode`, the check for an unknown workflow in
`runWorkflow` and the `.catch` of its caller can never see a difference and have
no action.  `origin[r]` is the request that created a run (its body is kept as
`inputs` and its time as `startedAt`).  A restart drops every run: it is the end
of a behaviour and not an action.

### SseClient

`conn` says which reader reads which response and how that ends; it never
changes.  The text of a line is cut into a first part, the rest, and the
newline, and a read returns any number of these pieces, so that a chunk can end
anywhere that matters.  A response has frames of six kinds: named and unnamed
events, data in two lines, batches (`spec/v1/stream-modes.md`), keep-alive
comments, data that is not JSON.  `ParseLine` is one turn of the loop that all
readers share; what they differ in has an operator each: `EndsFrame` (the
example does not know CRLF), `Flushed` and `Decoded` (batches, JSON, the fields
a document must have), `Rest` (Python and Go take a last line without newline),
`Fail` and `ConnectionLost`.  Go does not look at the error that ended its
scanner; Python iterates over an `HTTPResponse`, which takes a connection that
was closed at the boundary of two chunks for the end of the response and raises
when it was cut elsewhere, so the model lets a Python reader do either.  `outbox` is
the rest of a batch; the Go reader sends it through `chan` and its consumer may
cancel the context or call `cleanup` at any time.  The request, its query and
its status code come before and are left out.  The reader used by `EventStream`
is abstract: it receives whole events.  `SseClient` is about what lies between.

### SdkCalls

A caller is a program with one body to post, one Idempotency-Key and stages
(`Wants`): it creates a run, may cancel it, and polls it.  `Send` is one call, or
one turn of the polling loop; `line` and `reply` are what is on its way.  None of
the request paths retries, so a call whose error reaches the program is called
again by the program (`spec/v1/idempotency.md` asks it to keep the key) or not
(`GiveUp`); this program is external, and `MaxTries` bounds its calls, as the
deadline and the sleep between two polls bound those of `pollUntilTerminal`.  (A
single call is bounded only where a client has a timeout: not in the TypeScript SDK,
the driver and the polling loop.  So no property says that a program ends.)
`Handle` is the in-memory host's handler in its macrotask; `Abandon` is a request
that was lost or whose client stopped waiting (30 s in the Go and Python SDKs, a
lost connection elsewhere), and puts a create or a cancel that is still on its way
into `late`, where `ArriveLate` has the host handle it at any later time.

What a client makes of a reply has one operator each: `TypeScript`, `Python`,
`Go`, `Driver`, `PostRun`.  They differ where a reply is torn: Go drops the error
of reading a body and returns a zero value, the example returns `null`, the others
raise; a program that takes either for an answer goes on without a run id
(`TakeBlank`), and the router answers 404 to what it asks next (`NotFound`).  They
also differ in the create of the Python SDK, which needs an `eventsUrl` that no host
sends and raises always.  `Receive` chooses the client call by call, so a
behaviour mixes all five and a property holds for each of them.

### StaleClaim

`step` is the line of the scenario or of a hook, `since` when it got there,
`verdict` how the test ended.  The hosts are `SqliteHost` with `Delay` between the
beginning and the end of a `core.delay`, and they boot when they like (`Boot`),
after `spawn` and unless a signal was faster.  `multiProcess.ts` gives `spawn` the
command `npx`, so what it has a handle on is a wrapper.  `Kill` is SIGKILL, which the
wrapper can neither catch nor forward: the wrapper ends, and the server lives on (or,
if it was not started yet, never is).  `Terminate` is SIGTERM, which the wrapper
forwards or dies of; `forwards` says which, is up to its version, and never changes.
`signalled` are the servers that a SIGTERM is on its way to, for as long as it likes:
the clock does not wait for it, so the backstop of `shutdown` (`ShutdownAwaited`) may
pass first, and nothing makes the server take it.  `kill` waits for the exit of the
wrapper alone (`KilledA`).  A tick is half a second, the heartbeat interval of the
test.  The clock waits for the harness and for the timers of the hosts (`TimePasses`),
and stops when the test is over; a server that boots after the removal of its
database makes an empty one, and is left out from there on.

### RunLifecycle

A run is absent, open, or has an outcome.  Only an open run grows, only while
some process executes it, and it ends with the outcome its last event announces;
then nothing changes.  Both hosts implement it.  In the SQLite host the phase is
`status` with the three resumable values collapsed, the log the types of the
events in order of seq, the executor the process inside `runWorkflow`; `Record`
and `Finish` are separate transactions there.  In the in-memory host they are one
step, `Conclude`, and a run is taken by the request that submits it.

## 3. Runs

| Run | Instance | Properties |
|---|---|---|
| `sqlite_timely` | 3 timely processes, 2 may crash, one with other fixtures; one run `noop; delay`; TTL 2, heartbeat 2, clock to 4 | `TypeOK`, `ExclusiveExecution`, `LeaseHeld`, `AppendNeverConflicts`, `StartedOnce`, `StatusMatchesLog`, `TerminalFrozen`, `CancelledOnRequest`, `StoppedHoldsNothing`, `ImplementsLifecycle` |
| `sqlite_keys` | 2 processes, one may stall and crash; 2 requests with one key; `delay` and `delay; other` | `ReplayFindsRun`, `KeyRecordedOnce`, `LogContiguous`, `LogAppendOnly`, `ClaimRespected` |
| `streams` | 2 processes, one may crash; TTL 1, clock to 2; a client that streams or polls; fair | `GotPrefix`, `DoneHasOutcome`, `LocalStreamEnds`, `RunsEnd`, `OrphansResumed` |
| `memory` | 2 runs of 2 workflows, no key, a client of each run that streams or polls; fair | `CancelAtOnce`, `LogTellsExecution`, `TerminalEventIsLast`, `GotPrefix`, `DoneHasAll`, `ImplementsLifecycle`, `StreamsEnd` |
| `sse_client` | 5 readers; every response of 2 frames; a document without the fields the SDKs want, one too long for Go; a channel of 1; fair | `TypeOK`, `InOrder`, `NothingMissing`, `CutIsTold`, `StreamEnds` |
| `calls` | 2 programs with one key, one going all the way, the other posting either of 2 bodies; 2 runs; 2 calls a stage; cache TTL 0, clock to 1 | `OneRunPerWindow`, `AnswersAreRight`, `RetriesAgree`, `SaidIsTrue` |
| `stale_claim` | the times of `staleClaim.test.ts` in half seconds: TTL 4, heartbeat 1, wait 6, delay 10, deadlines 20, 10 and 30, backstops 2 and 10; a wrapper that forwards SIGTERM or not; clock to 72; fair | `NothingRecovered`, `ScenarioPasses` |

What they show together: as long as every process is timely, the SQLite host
executes a run in one process at a time across crashes, restarts and shutdowns,
its log never forks and never meets a key conflict, `run.started` is logged once,
a terminal status is what the last event says and then nothing changes, and both
kinds of client see every event once and learn the outcome: who is told that a run
is over has its last event, and the run has the status which that event announces or
is about to get it, unless a process died in between.  A process that
stalls can break the exclusion (below), but not the numbering or the rows of a
log, nor a claim that is in force.  Between the wire and a consumer, the readers
of the repository neither lose, repeat nor reorder an event of a stream that its
server closed in full; the TypeScript, conformance and example readers tell a lost
connection from the end of a run, the Go reader never does and the Python reader not
always.  Whatever the network does to calls, a key makes one run per window
of the cache, a program is told of the run that its own body created, is never
told of two of them while the first one's entry lives, and is not told anything
that turns out untrue.  The stale-claim scenario passes within its deadlines when its
hosts boot in time, but for the wrong reason: its kill reaches only `npx`, the host that
should be dead renews its claim and completes the run, and no run is ever resumed.

### Bounds

* `MaxTime` bounds the clock.  A claim taken at 0 lapses and is stolen within
  `ClaimTtl + 1` ticks; `sqlite_timely` has room for a second lapse after a
  renewal.  TTL and heartbeat are equal there, the tightest case the theorems
  allow (`sqlite/README.md:42` recommends half the TTL).
* Incarnations start at most once, so `Procs` bounds restarts: three of them
  hand a run over twice.  Logs are finite because of this.
* A workflow of two nodes has a first and a last node; `noop` never returns to
  the event loop, `delay` does, `other` fails.  Two runs suffice for a cancel
  that hits the wrong one.
* In `calls`, `CacheTtl = 0` with a clock to 1 has an entry at its last valid
  moment and one moment later.  Two runs are what two requests can create at most
  when a key fails; with a third one, a second expiry would be all that is added.
  `memory` has no keys, which `calls` covers, and so no clock.
* Two calls a stage have a first answer that got lost and its repetition, with the
  first request handled before, between or after.
* In `stale_claim` the clock reaches the end of every schedule: a test whose two hosts
  boot as late as they may is over before 60, and the clock stops there.
* Two frames let the fields of one leak into the next; a batch of two overflows
  a channel of one (16 in the code).
* `CHECK_DEADLOCK FALSE`: a system whose processes are stopped, or whose clock
  has reached its bound with all runs ended, does stop.

### Fairness

Weak fairness on the statements of a coroutine, on the second half of a handler,
on the boot loop and on `listen`: JavaScript runs a macrotask to its end.  Strong
fairness on `Wake`: requests may keep the loop busy forever, but libuv visits the
expired timers in every round.  Weak fairness on a client reading its connection,
on the loop of an event stream reader, on a server that goes on with its response
or loses the connection, and on a Go consumer that has not stopped its stream.
None on requests, crashes, shutdowns, reconnections, heartbeats or the clock.
None in `calls`, whose calls may stay open for ever.  In `stale_claim`: the steps of
the harness, of a host's event loop and of the clock; a signal may never be taken, and
a host may boot late or never, whereupon the verdict is `"not ready"`.

### Disagreements with the documents

Each is a run whose one property, a statement of the repository, is violated.

| Run | Statement | What the code does |
|---|---|---|
| `sqlite_cancelresume` | a cancellation leads to `run.cancelled` (`sqlite/README.md:167`) | a run whose cancellation was accepted while it slept, and whose process then died, is set to `running` by the process that resumes it, and completes |
| `sqlite_twoterminals` | exactly one terminal event per run (`eventOrdering.test.ts:114`) | the terminal event and the status are two transactions; a crash in between makes the next process run it again |
| `sqlite_zombie` | two processes must not execute a run concurrently (`sqlite/README.md:146`) | a process that stalled past its claim never notices |
| `sqlite_duplicate` | exactly one request per key is processed (`spec/v1/idempotency.md:61`) | run row and key row are two transactions, so two runs can exist, and a later process resumes the orphan |
| `streams_elsewhere` | a stream is closed when its run ends (`spec/v1/rest-endpoints.md:115`) | the stream of a run that another process executes never ends |

Further ones met while modelling, without a run of their own.

*SQLite host.*
* A serving process never takes over the lapsed claim of a dead one, so a run it
  sets to `cancelling` stays so until some process starts (the comment at
  `server.ts:189` says that claims are stolen).  `OrphansResumed` is about the orphans
  that a startup finds, and does not contradict this.
* A resumed run executes all its nodes again, whatever its log says of them
  (`server.ts:28`).
* A client of a stalled process misses the events of the successor for good (give
  the run `streams` `MayStall = {p1}` and `GotPrefix` and `DoneHasOutcome` fail).
* Its README says in section 2 that the host does not resume runs by itself, in
  section 3 that it does not send heartbeats, and in section 8 that the HTTP server
  is closed before the database, none of which is so; the comment at
  `server.ts:892` omits `cancelling` from the definition of an orphan, which line
  898 includes.

*Event stream readers.*
* A lost connection looks like the end of the run to a Go consumer always
  (`sse.go:163` does not read `scanner.Err`) and to a Python one if the connection was
  closed at the boundary of two chunks (`sse.py:88`): without its exception for the two,
  `CutIsTold` fails.
* A pending event whose last line lacks its newline is dropped by the conformance
  reader and the TypeScript SDK, although `conformance/src/lib/sse.ts:167` flushes
  for servers that drop the trailing `\n\n`; Python and Go keep it.
* The Python and Go readers hand over nothing that the reference hosts send, whose
  events have `seq` but neither `eventId` nor `sequence` (`Bare`).
* A Go consumer that calls `cleanup` but does not cancel its context leaves the
  goroutine in a send for ever, although `sse.go:39` calls the two equivalent; the
  Go reader ends silently at a line over 1 MB.

*Request paths.*
* The hosts' reply to a create has no `eventsUrl`, which `api/openapi.yaml:196`
  requires; `runs_create` of the Python SDK reads it unconditionally and raises a
  `KeyError` after the run was created (`Python` in `SdkCalls`).
* The SDKs poll events with `lastSequence` and `timeout` and read `isComplete`; the
  hosts read `since` and send `isTerminal`.
* `sdk/python/.../client.py:362` wraps network errors uniformly, but a timeout or a
  reset while the body is read is raised as it is.
* The Go SDK drops the error of reading a body, so a 2xx without its body is a
  success with an empty run id; `idempotent-runs` prints success for two replies
  without a run id.
* `spec/v1/idempotency.md:55` requires that replies of 429 and 5xx are cached; the
  hosts cache 201 only.  A replayed 201 says `pending` whatever the run is by then.

*Conformance suite.*
* `multiProcess.ts:6-8` and `80-83` say that spawning `npx tsx` gives a pid whose
  SIGKILL reaches the host; it is the pid of `npx`, and the host lives on.  So
  `staleClaim.test.ts:103` ("after process A dies") and `182` (the run restarts from its
  beginning on B) are not what happens: A completes the run while B looks on, and the
  test passes, as its last check accepts a log with `run.started` alone.
  `NothingRecovered` is this statement, checked and proved.
* `rmSync` in `afterEach` is not held up by a server: A was killed only in name, and
  `shutdown` of B goes on after 5 seconds, or at once with a wrapper that does not
  forward.  A server that boots later makes the database anew.
* `cli.ts:14` says that environment variables override flags; lines 137-140 do the
  reverse.

## 4. Theorems

They are proved for all values of the constants: any number of processes, runs,
clients, callers and keys, any workflows and bodies, any times, responses of any
number of frames and Go channels of any size.  What is assumed of
the constants is named in the module that declares them and evaluated by TLC:
`NoHolder`, `NoRun`, `NoKey`, `NoEntry` and `NoServer` are none of the values they
stand in for, `Workflow`, `Key`, `Catalog`, `Watch`, `Asks` and `Wants` are functions
of their types, there is a body to post, times are naturals and the heartbeat
interval is not 0; `Parsers` and `Kinds` are among the five readers and the six kinds
of frames.

"In time" below is `MayStall = {}` and `HeartbeatInterval <= ClaimTtl`: no process
stalls past a tick, and a claim is renewed before it lapses.  `sqlite/README.md:42`
asks for more than the second; the first is a property of the machine, and without it
`ExclusiveExecution`, on which the others rest, is false: `sqlite_zombie` is such a
behaviour.

| Theorem | Property | Assumes besides |
|---|---|---|
| `SqliteHostProofs!TypeCorrect` | `TypeOK` | - |
| `SqliteHostProofs!LogIsContiguous` | `LogContiguous` | - |
| `SqliteHostProofs!LogIsAppendOnly` | `LogAppendOnly` | - |
| `SqliteHostProofs!LeaseIsHeld` | `LeaseHeld` | in time |
| `SqliteHostProofs!ExecutionIsExclusive` | `ExclusiveExecution` | in time |
| `SqliteHostProofs!AppendsDoNotConflict` | `AppendNeverConflicts` | in time |
| `SqliteHostProofs!KeysAreKept` | `KeyRecordedOnce` | - |
| `SqliteHostProofs!ReplaysFindTheirRun` | `ReplayFindsRun` | - |
| `SqliteHostProofs!ClaimsAreRespected` | `ClaimRespected` | - |
| `SqliteHostProofs!StoppedLeavesNoClaim` | `StoppedHoldsNothing` | - |
| `SqliteHostProofs!RunsStartOnce` | `StartedOnce` | in time |
| `SqliteHostProofs!StatusFollowsLog` | `StatusMatchesLog` | in time |
| `SqliteHostProofs!FinishedRunsAreFrozen` | `TerminalFrozen` | in time |
| `SqliteHostProofs!CancelsAreRequested` | `CancelledOnRequest` | in time |
| `SqliteHostProofs!HostImplementsLifecycle` | `ImplementsLifecycle` | in time |
| `SqliteStreamsProofs!FollowersGetPrefixes` | `GotPrefix` | in time |
| `SqliteStreamsProofs!DoneFollowersKnowTheOutcome` | `DoneHasOutcome` | in time |
| `InMemoryStreamsProofs!CancelsTakeEffectAtOnce` | `CancelAtOnce` | - |
| `InMemoryStreamsProofs!LogsTellExecution` | `LogTellsExecution` | - |
| `InMemoryStreamsProofs!TerminalEventsAreLast` | `TerminalEventIsLast` | - |
| `InMemoryStreamsProofs!ClientsGetPrefixes` | `GotPrefix` | - |
| `InMemoryStreamsProofs!DoneClientsHaveAll` | `DoneHasAll` | - |
| `InMemoryStreamsProofs!HostImplementsLifecycle` | `ImplementsLifecycle` | - |
| `SdkCallsProofs!OneRunInEachWindow` | `OneRunPerWindow` | - |
| `SdkCallsProofs!AnswersAreTheCallers` | `AnswersAreRight` | - |
| `SdkCallsProofs!RetriesTellTheSameRun` | `RetriesAgree` | - |
| `SdkCallsProofs!WhatWasSaidHolds` | `SaidIsTrue` | - |
| `StaleClaimProofs!KilledHostKeepsItsRun` | `NothingRecovered` | in time |
| `SseClientProofs!ReaderTypeCorrect` | `TypeOK` | - |
| `SseClientProofs!EventsInOrder` | `InOrder` | - |
| `SseClientProofs!NothingIsMissing` | `NothingMissing` | - |
| `SseClientProofs!ACutIsTold` | `CutIsTold` | - |

Type correctness of the other systems is proved beside them (`StreamsTypeCorrect`,
`HarnessTypeCorrect`, and `TypeCorrect` of `InMemoryStreamsProofs` and
`SdkCallsProofs`).  The inductive invariants were checked by TLC on the instances of
section 3 before they were proved.

*The log of the SQLite host.*  `LogContiguous` is not inductive: a coroutine holds a
seq that it counted earlier.  The invariant `LogInv` adds that such a seq is at most
the number of events now; an INSERT that finds its key free therefore finds it at
the end of the log.  Nothing is assumed of claims, so this holds for processes
that have lost theirs.

*The lease.*  `Lease(p, r)` says of a process inside `runWorkflow` that it holds
the claim, that the claim has not lapsed, that before the heartbeat is set the
claim is as fresh as it was when it was acquired, that afterwards the timer fires
before the claim lapses, and that a catch block never awaits anything.  The
clock moves only when no timer is overdue, so no claim lapses under its holder,
and `acquireClaim` refuses a claim that has not lapsed.  Without
`HeartbeatInterval <= ClaimTtl` the proof fails, and so does the property.

*Exclusion and conflicts* follow: the holder of a row is one process; and the
one executor of a run is the only one to append, so the seq it counted is still
the next one (`ExactSeqs`).

*What becomes of a run.*  Row and log agree only between the statements that write
them, so the invariant `RunInv` of `SqliteHostProofs` says what each process that
executes a run knows of both at its place in `runWorkflow` (`Course`): that the row
is not terminal before the claim is released, that the last event is the terminal one
when the status is about to follow it, that no `run.started` is in the log when it is
about to append one, that a cancellation was asked for when it is about to log one.
Of a row it says that a terminal status is what the last event announces (`EndLogged`)
and that nobody has a run whose row is not there but the request that inserts it
(`Unborn`).  This needs `ExclusiveExecution`: what one process knows of a row holds
only as long as no other one writes it.

*The refinement.*  The INSERT of a run is the abstract `Submit`, the UPDATE that wins
its claim `Take`, the INSERT of an event `Record`, the UPDATE to a terminal status
`Finish`; the release of a claim, a crash, a shutdown and an unhandled rejection are a
`Drop` of what the process executes, and every other step stutters.  The proof needs
both states of a step (`Mapped`), the lease, since `acquireClaim` must not take a run
from somebody, and that a process has no coroutine yet for an orphan that it is still to
resume (`OrphansWait`).  In the in-memory host the last event and the status are one
step, `Conclude`.

*The in-memory host.*  A log is described by where the coroutine is: after the k-th
node, the first 2k+1 events of the log of an undisturbed execution (`Course`, with
`Clean`); after a failure or a cancellation, such a beginning and what the event of
the disturbance led to (`Disturbed`).  `EndLogged` ties the terminal event to the
status, and `CancelAtOnce` follows because no step leaves the macrotask of a cancel
before the log has it.

*Clients.*  `GotPrefix` is not inductive: what is on the wire continues what was
received (`InSequence`), and a connection knows no more than the log has
(`Followed`, `Served`).  For a listener of the executor it knows exactly the log.
The crux in the SQLite host is a listener of a process that does *not* execute the
run: it would miss the events of an earlier executor if its process took the run up
afterwards.  `Settled` says that this cannot happen: a process takes runs over
before it listens, or in the macrotask that creates them, and a handler comes after
either.
With a stalled process the theorem fails, as section 3 says.  `DoneHasOutcome` needs
besides that a log ends with its first terminal event, whose process has written the
status or is at that statement (`EndsOnce`), until a process dies: a crash between the
two is where it ends, and `sqlite_twoterminals` what follows.

*The cache and the callers.*  An entry names a run with the entry's key, body and
time (`EntriesTrue`); a run whose key is not in the cache, or stands for another run,
is older than the window (`Recorded`).  From these, two runs of one key are apart.
What a caller knows is true, and so is the reply on its way (`Informed`,
`Promised`): a run of its body and key, a terminal status that the run has, a
cancellation that the host has accepted.  Requests that arrive late change nothing of
this because a run, its origin, its end and its cancellation stay (`HostKeeps`).

*The stale-claim scenario.*  The hosts do steps of `SqliteHost` only (`ScenarioIsSpec`),
so its theorems hold in the scenario.  B is spawned after A was seen to execute the run
(`Sequence`), and A, which no SIGTERM is ever sent to, executes it until its status is
terminal (`RunOfA`).  The lease says that A holds a claim that has not lapsed all that
time, so neither the boot of B nor an orphan of B's list takes the run (`NobodyTakes`);
and since A has the run from its creation, `run.resumed` is never appended.  How long
the test waits plays no part in this.

*The readers.*  The wire and the expected documents are flattened sequences of any
length.  `FlattenSeq` is defined by a recursive function, so a first part of
`SseClientProofs` proves by induction on a set of numbers that the function exists,
what it is at its n-th place (`FlatStep`), and how it meets concatenation and
prefixes.  The invariant `ReaderInv` then says where a reader is (`At`): it has
consumed n frames and j lines of the next, and its pending event and data are exactly
those of the j lines; what it has handed over, together with the channel and the
batch, is what the first n frames decode to (`Reading`).  A blank line flushes one
whole frame (`FlushWhole`); a flush after the loop adds the next frame or nothing
(`EndFlush`).  `NothingMissing` needs the count of pieces.  An orderly end is at the
last piece of the response, or three or four pieces before it: all lines are consumed
then, or all but the last or the last two, which are of the last frame
(`NearTheEnd`), and what is pending, with the unended line that Python and Go accept,
is all of that frame's data (`ClosedIsRead`).  The example with CRLF sees no frame end
(`Mute`) and hands nothing over.

Only model-checked: liveness under fairness, which is out of the prover's reach
(`RunsEnd`, `OrphansResumed`, `LocalStreamEnds`, `StreamsEnd`, `StreamEnds`,
`ScenarioPasses`).  Every safety property that a passing run checks has a
theorem.

## 5. Plan

Done: all components that are modelled, and a theorem for each of their safety
properties.  Liveness stays with TLC.

## 6. Not modelled, and why

* *Profiles, canaries, environment* (`conformance/src/lib`): conjunctions over the
  fields of one document, searches for substrings, defaults of variables.  They are
  pure and each is its own shortest specification: a model would restate it, and a
  property of it would hold by its form.
* *The command line* (`cli.ts`): parses arguments and starts the test runner.
* *The other scenarios*: each makes one call after another of one process and looks
  at the answers; what they assert is stated here as a property of a host, or
  quoted against it.
* *Forks, interrupts, discovery and `pollEvents` in the SDKs*: the same request path
  as the calls of `SdkCalls`, towards endpoints that no host of the repository
  serves (forks, interrupts), that change nothing (discovery), or with parameters
  that the hosts do not read (`pollEvents`).
* *The examples for approvals, forks and node packs*: linear scripts towards
  endpoints that nothing in the repository serves.  Of `mcp-tool`, the count of the
  tool events in the log is left out: it is made before the last snapshot, and so
  can miss the last of them.
* *Type declarations, scripts, documents, schemas and API descriptions*: no
  behaviour, build steps, or not programs; the documents are quoted.

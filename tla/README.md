# A TLA+ model of icap-mock

icap-mock is an ICAP (RFC 3507) server in Go for load and integration tests. One
process runs one or several ICAP servers; each accepts connections up to a limit,
serves requests on keep-alive connections, answers them from scenario files, and
may record every request to disk. This directory models the parts whose
correctness depends on interleavings, failure paths and shutdown order, checks
them with TLC and proves the central ones with TLAPS.

## The system

| Component | State | Operations | Interacts with |
|---|---|---|---|
| ICAP server (`internal/server/server.go`) | `running`, listener, stop channel, semaphore, WaitGroup | `Start`, `acceptLoop`, `Stop`, `forceCloseAllConnections`, monitors | pool, handlers, TLS monitor, the caller `Run` |
| Connection pool (`connection.go`) | set of connections and a WaitGroup | `Add`, `Remove`, `List`, `Wait` | accept loop adds, handler removes, `Stop` lists and waits |
| Connection handler (`handleConnection`, `lifecycle.go`) | current request, response, context, close reason | parse, receive, route, write, drain, reuse or close; deferred clean-up | socket, request context, router, accounting |
| Terminal accounting (`terminal.go`) | started, finished, stream active | `startAt`, `streamingStarted`, `finalize` | metrics gauges and counters |
| Connection buffers (`connection.go`, `pkg/pool`) | pooled read and write buffers | `Read*`, `Write*`, `Flush`, `Close`, `Abort` | handler, forced stop |
| ICAP codec (`pkg/icap`, `protocol*.go`) | chunk and preview readers, stream plan | parse, continue after preview, write, stream | handler, processors |
| Router (`internal/router`) | routes, patterns, LRU cache | `Handle`, `Serve`, cache `Get`/`Put` | handler, `Run` |
| Processors and handlers | processor chain, retry and adaptive timeout state | `Process`, retries | scenario registry, stream plans |
| Scenario registries (`internal/storage`) | scenarios by priority, shards | `Load`, `Match`, `Reload` | processors, management, watcher |
| Scenario watcher | debounce timers and sequence numbers | file event, timer, `Stop` | registry |
| Runtime management (`internal/management`, `health/api.go`) | current configuration, scenario sets | load, reload, apply | registries, HTTP API |
| Storage middleware (`internal/middleware`) | bounded job queue, workers | `trySendJob`, worker, `Shutdown` | file storage |
| File storage (`filesystem.go`) | queue, current batch file, rotation signals, `pendingWrites` | `SaveRequest`, writer, rotation, `Flush`, `DeleteRequest(s)`, `Clear`, `Close` | disk |
| Disk monitor (`disk_monitor.go`) | last usage, last error | periodic check, `Stop` | file storage |

What is hard here: every admitted connection carries four obligations (slot, pool
entry, gauge, WaitGroup) that a dozen exits of one function must meet; `Stop` runs
against an accept loop that may hold a connection in no list yet; a request's
accounting must happen once although eight returns, a panic and a fallback may do
it; callbacks of a cancelled context outlive the request; file rotation,
maintenance, writing and closing share a file under two locks; a match walks through
shards, a cache and a global list while scenarios are replaced; a body arrives in two
halves around a preview and leaves in timed chunks from files that others may write
to, while the forced stop takes the connection apart. PROJECT.json lists each hazard
at its line.

What makes each part correct: slots, pool and gauge are exact and bounded; a
graceful stop leaves nothing, a forced one ends; each request is recorded once, its
memory is freed, and a connection is reused only when no reader has anything left to
read;
queued records end, deleting and closing lose nothing, shutdown returns; a reload is
all or nothing, over all scenario sets at once; the sharded registry answers as the
plain one at one moment of the call; a change of the scenario file is read in the end
and means what its entries declare; a request reaches the handler its path is registered
for, also after the handler was replaced; what a client decodes is what the response
declares; a buffer returns to its pool once.

## Modules

**AdmissionControl** is the abstract promise of the connection limit: `held`,
`refused` and `past` connections, `Admit` below the limit, `Refuse` only at the
limit, `Release` once.

**IcapServer** is the server with its goroutines. `pc[c]` says where connection
`c` is: on the accept path (`accepted`, `slotted`, `pooled`, `counted`: one value
per statement of `acceptLoop` that changes shared state), in its handler (`loop`,
`wait`, `busy`, `defer`), or in the deferred function (`closing`, `remove`,
`uncount`, `release`, `waitdone`: its statements in order). `sem`, `pool`,
`active`, `wg` are the shared counters, changed by the actions as by the code and
never derived from `pc`. `Stop` is `StopSignal` … `StopReturn`, in the order of
the code. What happens inside a request is the single state `busy`, which may end
in reuse, in closing (with the socket already closed, or asking for an abort) or
in a panic. `killed` and `forced` are history.

**ConnHandler** opens up `busy` for one connection. Its `pc` follows
`handleConnection`; `req`, `resp`, `wire`, `loaded` keep of a message only what the
code branches on. `req.body` says who reads the body: the embedded message, the raw
reader, or nobody (`stray`: a body whose header section is missing is attached to no
message, and with a message parsed it is not raw either). `acct`, `stream` are terminalAccounting; `armed` and `late` are
the AfterFunc registration and the callbacks already started, `wdl` says whose
callback moved the write deadline to the past. The environment may stop the server,
close the socket, cancel the parent context or let the request context expire
between any two steps.

**RequestStore** follows each record from `trySendJob` to its end (`at[r]`), with
both bounded queues, the workers, the writer, the rotation goroutine, one
maintenance call at a time (they hold the write lock of `fs.mu`), `Close`, and
`Shutdown` in the order `Run` uses. `f` is the batch file under `rotationMu`: the
handle (`nil`, `open`, or closed but kept), its name and whether the directory
still has it. Operations on it are operators that return the set of their
outcomes. A file operation may fail `MaxFaults` times.

**RuntimeManager** has one record per management request in progress, whose `pc`
follows the endpoint from authentication to the published counts: `auth`, `allow`
(the management state is read twice), `path` and `read` outside `m.mu`, `lock`,
`build` (one set per step), the registry locks in order, the swap, the unlocks in
reverse, the commit, and after the release of `m.mu` the callback and the two counting
rounds. Configurations and scenario files are on disk and the operator may edit them
between any two steps. `active[s].gen` and `swaps` are history: which replacement a
registry comes from. MCRuntimeManager has the contents for TLC.

**ScenarioMatching** is pure: scenarios as records, `MatchesScenario` with its
conditions in the order of `matchesScenario` (endpoint, method, client, header and
message rules, body pattern with its three limit actions, branches),
`ValidateAndCompile`, the contents after `Load`, `Add` and `Remove` with their order
numbers, and `FirstMatch`, which is `Match` of the plain registry and the reference for
the sharded one. Patterns are literal segments and captures; a header or a body is a
member of a small set and a rule the set of those it accepts.

**ShardedRegistry** (EXTENDS ScenarioMatching) has the shards with their index, the
global list, the match cache with generations, `cacheOff` and `mutationMu`. A mutation
(`load`, `add`, `remove`, `reload`) reads the file and the present contents, takes the
mutex, makes the generation odd, rewrites one shard after the other, the global list and
the flag, and commits with an even generation. A match spins for an even generation,
reads flag, generation, cache, its shard, the others if it found nothing, and the global
list, one step each, checks the generation and stores its result. `committed` and
`window[m]` are history: the contents after each mutation, and those in force during the
call of `m`.

**ScenarioFile** (EXTENDS ScenarioMatching) is the conversion of a V2 file:
defaults, templates, inline fields, variants and branches with the precedence of the
code, and `DeclaredAnswer`, the reference, which is stated from configs/README.md of the
repository: level by level, with scenario and branch fields inherited by every variant, and
no answer (`NoMatch`) where nothing applies and there is no file-wide template. **ScenarioWatcher** (EXTENDS ScenarioFile) puts the watcher before a registry:
file system events, the loop, `debounceTim` and `debounceSeq`, each timer's callback
as a goroutine of its own that waits for the lock, checks its number and reloads, manual
reloads, and `Stop` in its four steps. A replaced file takes the watch with it unless
the directory is watched.

**RequestPath** (EXTENDS ScenarioMatching) leads a request from `Router.Serve` to a
processor: `registerHandlers`, the route table, the LRU cache with its map and its
doubly linked nodes (`lru`, nodes are numbered), hits that promote in a second critical
section, expiry, a late `Handle` that clears the cache after it changed the table (`gen`
tells the new handler from the old one, `late` has the paths between the two steps);
then recovery, retry and adaptive timeout around the handler; OPTIONS answers at once.
`fresh` and `overtaken` are history: whether a request began after the `Handle` of its path
had returned, and the paths for which a goroutine held the old handler and had not put it
into the cache when `Handle` stored the new one. Retry and adaptive timeout
are not wired into the program at this commit; they are modelled as their package offers
them.

**StreamPlan** is the arithmetic of a delivery plan: the options drawn from the
scenario's ranges, the number of chunks, their sizes and times. **ResponseBuild**
(EXTENDS StreamPlan) is what MockProcessor makes of a template and a request: the
variant, the sources of its body or stream with their failures and the files they leave
open, multipart selection, and the response. A body is a short sequence of numbers.
**Exchange** (EXTENDS ResponseBuild) is one request and its response on the wire:
`wire` holds what the client has still to send, the reader takes it token by token,
`pc` follows the handler through preview, continuation, processing and delay to the
list of operations (`todo`) that writing the response consists of. `io` says which
socket operation the handler is blocked in; it holds the lock of the reader or the
writer meanwhile. `closer` are the two goroutines that may close the connection, each at
its own step of `Close` or `Abort`. Files that are being delivered may grow by a byte, lose
their last one or have one overwritten, up to `MaxEdits` times in any order; `edited` counts
the changes of each kind. MCExchange has the requests and templates.

The modules meet at these points. `busy` of IcapServer is ConnHandler; `write`, `receive`
and the preview of ConnHandler are Exchange, which in turn takes the match for granted that
ShardedRegistry makes; RuntimeManager replaces the contents of whole registries,
ScenarioWatcher reloads one. RequestPath and ScenarioWatcher share the scenario records of
ScenarioMatching with ShardedRegistry.

**IcapServer_proofs**, **ConnHandler_proofs**, **RequestStore_proofs**,
**RuntimeManager_proofs**, **Exchange_proofs**, **ScenarioWatcher_proofs**,
**ShardedRegistry_proofs** and **RequestPath_proofs** hold the theorems about the module
each is named after. **ExchangeInvariant** has the definitions of the two invariants that
Exchange_proofs proves.

Operators named in a comment as a mutant are wrong variants of the definition that
follows them, and occur nowhere in the specifications: with the definition replaced
by its mutant, the property PROJECT.json pairs them with is violated.

## Runs

| Run | Instance | Shows |
|---|---|---|
| server | 2 clients, limit 1, TLS, 1 request each, no read timeout | resource balance, complete graceful stop, reason after a forced close, refinement of AdmissionControl; `Stop` returns and everything admitted is released |
| handler | 2 requests of all shapes, write timeout on and off | exactly-once accounting, gauges, timing, body memory, what may be unread when the connection is reused; every request ends |
| store | 2 records, all capacities 1, rotation after 1 record and by size, 1 fault, 2 maintenance calls | exact pending count, no loss by delete or close; records and shutdown end |
| management | 2 requests at a time and in all, 2 scenario sets, 2 files, 1 edit | sets replaced together, one running configuration, restart-only parts kept, every request answered |
| registry | 2 shards, cache of 1, 2 mutations of 6 kinds, 2 matches, 1 edit of the file | same contents as the plain registry, linearizable answers, no stale cache entry |
| hot_reload | 2 paths, 4 revisions of a file (one refused), 3 changes or manual reloads | served answers are those the file declares, requests without an answer included; every reported change is read |
| request_path | 2 goroutines, 3 calls, cache of 1, ring of 2 samples, 1 retry, 1 late `Handle` | routed as registered, to the new handler after the late `Handle`; timeout follows the last samples; attempts, retries and cancellations add up |
| exchange | 10 requests, 10 templates, buffer of 3 tokens, body limit 4, 2 changes of files | responses delivered as declared, buffers and files returned once, a forced stop ends |
| cancellation_is_request_scoped | 2 requests | violated: a late callback cuts the next response |
| rotation_loses_nothing | 2 records, no faults | violated: `Clear` and a rotation in progress |
| matched_branch_is_the_winners | 1 scenario with branches and the default one | violated: the losing candidate clears the branch |
| cache_is_bounded | 2 goroutines, 3 paths, cache of 2 | violated: a promoted node that had been evicted |

Bounds. Two clients at a limit of one give a holder and either a refused one or one
that gets the returned slot; restarts are left to the theorems, which hold for any
`MaxStarts`. Two requests are what an effect of one request on the next needs. With all
capacities of the store at one, two records fill each of them, and two maintenance calls
cover one acting on what the other left behind. Two management requests overlap in every
way or follow each other; one edit puts a broken, changed or incompatible file before,
between or during their reads, and the two sources differ from the start. In registry two
mutations give a match that began before, between and after them, and the cache of one
entry is full after the first match; the scenarios are an endpoint, an exact route that
lives in both shards, a capture with a body rule, one that replaces another and one that
outranks all. Three changes in hot_reload are what it takes for a sequence number to be
used again while an old callback waits. In request_path one cache entry for three targets
evicts at every turn, and three samples wrap the ring of two; an adjustment at the fourth
sample, which the second half of TimeoutFollowsWindow is about, is beyond three calls and
rests on `TimeoutTheorem`. Two changes of a file are enough for its size to come out as it
was. In exchange a buffer of three
tokens makes a chunk overflow it and a four-byte body pass it by; a body of five bytes is
over the limit and one of four is not; two ticks let a deadline fall before, between and
after the chunks. MaxFaults bounds failing file operations, MaxOps the maintenance calls,
MaxCalls and MaxEdits the calls and edits of their modules, MaxTime the clock, MaxRequests
and MaxStarts the counters of the same names. Deadlock checking is off where the system
really stops: a stopped server, a gone handler, a closed store, an API, a registry, a
watcher or a router nobody calls any more. In exchange it is on: the end has a step
of its own.

The largest instances are exchange (625 286 states), handler (600 300) and request_path
(360 534); hot_reload has 116 970.

Symmetry is used where the members of a set of goroutines are interchangeable and only
invariants are checked (registry, request_path, cache_is_bounded).

Fairness. A goroutine that can run does run. In server a handler inside a
request is only assumed to leave it once its socket has been closed, and waiting
for a request ends only if a deadline is configured or the socket is closed; the
context `Run` gives to `Stop` has a timeout. In handler a response write ends if a
write timeout is set, the deadline was moved to the past or the socket is closed;
request contexts always have a timeout, so their timers fire. Clients are never
assumed to do anything. In store a lock that is free again and again is acquired
(`sync.RWMutex` does not starve), so `SaveRequestSend` is strongly fair; each
maintenance call has a context that ends. In management each request's goroutine is
weakly fair; with finitely many requests `m.mu` does not change hands for ever. In
hot_reload the loop takes events, timers fire and their callbacks get the lock; changes
and manual reloads are never assumed. In exchange the handler, the closing
goroutines and the clock run, and a blocked read or write returns once the socket is
closed; without that it may block for ever.

## Findings

* The stop function of `context.AfterFunc` does not wait for a running callback: a
  context that expires just as the response has been flushed can fail the next
  response on the connection.
* `Clear` gives up `rotationMu` between closing the current file and removing the
  files; a rotation in progress opens a file that is then unlinked, and later
  records are written to it. With a fault allowed the same property also fails
  because a rotation that cannot open the next file keeps the closed handle.
* The sharded registry asks several candidates before it decides, and each one it asks
  writes its branch, or none, to the request. With a scenario that has branches and the
  default scenario in the global list, the latter is asked last and the branch is gone:
  the processor answers with its defensive error. Captures are left behind likewise.
* The route cache promotes a node it read under the read lock after checking only that
  the key is still there. An evicted node comes back to the list without an entry, and an
  eviction that picks it frees nothing: the cache grows past its limit.

Observed while modelling, without a run of its own: `Stop` documents that it closes all
remaining connections, but one between accept and pool is missed and ends a moment later
(StopReleasesEverything covers it). The disk monitor ends at the first change between
failing and succeeding checks, since `atomic.Value` does not accept two types. Live reload
compares exact routes with the scenarios active now, which may already have left the
endpoints the router was built with. An endpoint with a dot or another regular-expression
character is indexed by the part before it, so only the search over all shards finds it, and
that search is made only if the request's own shard has no match: a scenario of lower
priority with exact routes on the same endpoint wins. The instance's endpoints do not reach
this, and `Regular` excludes it. A scenario that `Add` gives a priority below -1 to a
sharded registry no file was loaded into wins on its own endpoint, since the built-in
default (-1) is in the shards there but in no index, while the plain registry answers with
that default; README.md:211 of the repository suggests a negative priority for a final
fallback. `Regular` excludes this too. The same line says that omitting `priority` preserves
file order; priorities count down from 1000, so entries after the 1002nd come behind the
default scenario and are never reached. A scenario called default displaces the file-wide
template also for requests it does not match, although `defaults.use` "is the file-wide
fallback applied when no scenario matched" (README.md:262). `Regular` of ScenarioWatcher
excludes both. The comment on `ScenarioRegistry.Match`
(scenario.go:157) promises ErrNoMatch if no scenario matches, but the sharded registry
returns the built-in default scenario; `PlainAnswer` says so. A response thrown away because
its context ended keeps its open files (`dropped` in Exchange). A RESPMOD request without
req-hdr is not parsed as HTTP. A chunked body that ends by a closed connection between
chunks counts as complete.

Five more are places where a property of a run had to be stated around what the code does:

* A request with `Encapsulated: req-hdr=0, res-body=N` and no preview has an HTTP message
  without body reader (protocol.go:293-303). `receiveRequestBodies` reads nothing, and
  `shouldDrainRawBody` (lifecycle.go:486-489) skips the body because a message was parsed.
  The connection is reused, and the first chunk size is parsed as a request line.
  ReuseOnlyOnCleanWire names this body as the only one left on a reused connection.
* configs/README.md:591 says that scenario and branch fields "are inherited as defaults by
  every variant", and the comments at scenario_v2.go:1133-1135 and 1162-1164 that they wrap
  around the template of a variant with `use:`. The code at 1165 merges them only into
  variants without `use:`. `DeclaredResponses` follows the documents; `Regular` of
  ScenarioWatcher excludes files that have both (`Inherits`), and the instance of hot_reload
  has none. With such an entry TLC finds AnswersFollowTheFile violated.
* configs/README.md:389 promises "ICAP 404" when no scenario matches. `Match` does return an
  error then (scenario.go:942-947), but `Load` adds an implicit default scenario that answers
  204 unless the file has one called default. AnswersFollowTheFile has both cases.
* router.go:100 says of `Handle` that the cache is invalidated "to ensure the new handler is
  used". A `Serve` that looked the old handler up before `Handle` stored the new one may put
  it into the cache after `Clear`, where it stays until it is evicted or expires.
  RoutedAsRegistered promises the new handler to requests that begin after `Handle` has
  returned, except for paths with such a lookup under way (`overtaken`); without the exception
  TLC shows the old one being served.
* `verifySourceEnd` (streaming.go:334-352) looks only at how many bytes a source had. A file
  that shrank and grew again, or was overwritten in place, ends as a whole body with other
  bytes than those the plan was made from. DeliveredAsDeclared claims the length always and
  the bytes in the other cases. And the comment at response.go:319-320 wants a client to be
  able to "determine the complete response boundary on a persistent connection", but an ICAP
  body (`writeICAPBodyDirect`) is written after the message as it is, without chunks or
  length, also when the connection is kept: DeliveredAsDeclared claims the boundary for
  responses without an ICAP body.

## Proofs

Each proof module defines an inductive invariant `IndInv`, shows that `Init` implies it
and that every step preserves it (one lemma per action), and derives the properties of
the runs from it. The theorems hold for every value of the constants that the module's
assumption allows. Most assumptions only give constants their types; what they say
beyond that is named below.

**IcapServer** (`ServerAssumption`). `Counting`: each counter is the cardinality of the
set of connections in the states that hold it, `wg` being that of the handlers plus the
accept loop and the monitors. `Control`: a connection on the accept path is the only one;
each position of `Stop` implies what it has done so far. `GracefulWait`: `wg` is zero once
`Stop` is past its wait without force. The lemmas `AtMoveIn`, `AtMoveOut`, `AtStays` say
how the cardinality of a set of connections changes when one moves.
`ServerImplementsAdmission` maps `held`, `refused` and `past` to the connections that hold
a slot, were rejected, and have given their slot back; `SlotsBalanced` gives the guards of
the abstract actions.

**ConnHandler** (`HandlerAssumption`). "Recorded exactly once" says nothing of a request
half way through. `Balance` does: the requests received are those recorded plus the one at
hand if it still owes its outcome (`OwesOutcome`), each gauge is one while the request is
open, and samples lag behind router answers by at most the one already timed. `Claim` says
at which positions the accounting is open, `Memory` who holds the bodies (only a panic
carries them into the deferred function), `Wire` what is left to read and that a stray body
stays where it is until the handler leaves or parses on (`ReuseTheorem`), `Numbering` how the
request number stands to the requests received.

**RequestStore** (`StoreAssumption`). `Locking`: a maintenance call runs exactly while the
write lock of `fs.mu` is taken, which keeps `Close` out. `InHand`: at most one record is
between queue and file. `WriterLeft`: the writer leaves only a drained queue whose
producers are gone. `ScanIsFresh`: what a delete has read is what the file still holds when
it is replaced, so nothing is clobbered (`NotClobbered`). `RotationsPaid`: a record causes
at most two rotations, which bounds the file names.

**RuntimeManager** (`ManagerAssumption`: the registries to lock are a list without
repetitions, contents have at most `MaxCount` scenarios). `Mutex` and `Locks`: `m.mu` is
held by the call in its critical section, which locks the registries in order. `Stages`:
what a call has read and built at each stage. `OneGeneration`: all registries come from the
last replacement. `Sources`: `m.sets` follows `m.cfg`, and so do the registries except
between swap and commit, when they follow the call. `Fitting`: what was built still has the
endpoints of what it will replace. `SwapsRequested`: every swap had a request.
`SwapTheorem` and `RestartTheorem` are action properties: registries change only in a step
with all of them locked, and the parts of a configuration that need a restart never.

**Exchange** (`ExchangeAssumption`, with those of ResponseBuild and StreamPlan).
`Receiving`, `Selecting`, `Answering`: which of message, template, response and source are
there at each step. `Writing`: what is still to be written ends with a flush or fails, and
the source of the chunks to come is there and is released after them. `Buffering`: the
write buffer keeps its size and what the operation in progress is for. `Closed`: one
goroutine is inside `once.Do`, and exactly what it has passed is closed and returned.
`Meeting`: a buffer in use is not closed, and only a failed write leaves anything in it.

What the client receives needs a second invariant, `Echoed` and `Delivering`, which follows
the bytes from the client's chunks to the client's decoder (`DeliveryInvariance`). `Echoed`:
what was read of a body, what is still to come before and what after 100 Continue make up
the body the client sent; a response that passes it through has exactly that. `Travelling`:
what was received, what the socket and the buffer hold (`Committed`) is what the operations
before the current place (`Reached`) wrote. There it is `Framed` up to the bytes the open
chunk still owes, its payload is the bytes of the chunks so far (`Counted`), and payload and
rest of the source have the length of the whole, plus the bytes its files gained and less
those they lost, and are the whole if no file was edited (`Drawn` says what holds after which
changes). A terminated body has passed the check for the end of its source, so gains and
losses cancel out: without an overwrite, and with only one of them, there were none. A
response whose source was short (`Lame`) can only abort and is never terminated. `Arriving`:
every prefix of that is `Sound`, and a connection that is kept has its response terminated
and, without an ICAP body, ended with its `Boundary`. That the operations come in a fitting
order (`Grammatical`: a size is followed by its data, data by CRLF, nothing by data after the
last chunk) is shown of `ResponseOps` for each kind of response. `DeliveryTheorem`
(DeliveredAsDeclared) follows. The assumption asks of the requests what a client has to
send (`WellSent`): a body ends with its terminator, and a second half only follows a preview
that ends with a plain zero chunk. `ScheduleTheorem` is about StreamPlan alone: whatever the
ranges draw, the chunks are of a byte or more, add up to the bytes to send and stay within
the limit of chunks; offsets are at least the cadence apart and the last one is at the end
of the duration.

**ScenarioWatcher** (`WatcherAssumption`). `Debounced`: the two maps name the same paths,
each with its live timer and that timer's number, although numbers are used again.
`Counted`: every timer was set by one event and every event stems from one change.
`InForce`: the scenarios in force, and what a reload is about to apply, are one revision
that was accepted as a whole (`RevisionTheorem`). `Running`: the loop runs until `Stop`.
`NoChangeForgotten` is the safety half of ChangesAreRead (`PromiseTheorem`): until `Stop`, a
reported change that was not read yet has an event, a timer or a reload in progress; that
these run is fairness and stays with TLC.

`AnswersTheorem` (AnswersFollowTheFile) says that what is in force answers as its revision
declares, for every revision that is `Regular`: not more than 1002 entries, no scenario
called default beside a file-wide template, no variant that uses a template beside fields of
its scenario or branch, and no body that a rule cannot be evaluated on.
TLC evaluates this on the instance of hot_reload (`RegularInstance`); the assumption says of
the contents only that entries, branches and variants are lists (`IsFile`). The conversion
and the reference are compared part by part. Responses: the code merges the fields of two
levels at a time, in an order that depends on where `use:` stands, and the reference takes
each field from the first level that sets it; merging is associative and adding a level in
front is one merge (`LayeredFront`, `Merged`), hence `SingleDeclared`, `VariantDeclared` and
`ResponseDeclared`. Routing: whichever of routes, methods and endpoints come from the
defaults, a scenario is located by exactly the declared pairs (`RoutingDeclared`). An entry
matches what it applies to and answers as it declares (`EntryMatches`, `EntryAnswers`).
The list: `Contents` is what `Load` makes of the file, and since priorities fall with the
position and stay at or above that of the scenario behind all entries, the first entry that
applies is the one `Match` finds (`Winner`, `FirstEntryWins`).

**ShardedRegistry** (`RegistryAssumption`: within a file names are unique, as the keys of
its mapping are; literal endpoints and request paths can be hashed). `Mutating` has, for
each step of a mutation, which part of the old and of the new contents is in place:
`Prepared` (the list read from the file is sorted without losing one and each of its
scenarios has a place), `ShardsDone` and `Removing` (the shards before the current one are
emptied, replaced or rid of the name, and nothing else is gone), `Contents`. With `Mutex`
and `Numbered` (each mutation adds at most two to `generation`) this gives TypeOK and
ContentsAgree. `Found` says that what a call has found, and what the cache holds, is in the
contents as long as `generation` is the one it was found under; `AskedFor` says the same of
the generation that a call asked the cache for, including entries other calls have still to
put. `AnswersTheorem` follows: whatever Match returns was in the registry at a moment of the
call, or is the default. That it is also the scenario the plain registry would choose is not
true of every file (see the observations above). It is true under the hypothesis `Regular`:
no requested path has a segment the index cuts; the endpoints of routes are in the list of
endpoints too, as `routingFromRouteMap` leaves them; an added scenario has a priority above
the built-in default unless it takes its name. TLC evaluates `Regular` on the instance of
registry (`RegularInstance`). A second invariant, `MatchInvariant`, rests on the first.
`Arranging`: at each step of a mutation, a scenario is in every shard that indexes it, only
the built-in default may be in a shard without being indexed and then all others outrank it,
the order numbers are unique, and `cacheOff` is set if a scenario looks at more than the
cache key. `Matching`: what a call has found so far is the `Winner` of what it has read, as
long as the generation it started from lasts; every entry of the cache serves all requests
with its key; an answer is the plain registry's for one of the contents in the call's
window. `MatchInvariance`, `Linearizability` and `Freshness` are the theorems. Legacy files
are lists and may repeat a name; removing it then takes every copy from the shards but only
the first from the global list and from the plain registry, which is why uniqueness is
assumed.

**RequestPath** (`RequestPathAssumption`: scenarios have the fields `IsScenario` names and
are in a list, an endpoint is its segments and its pattern; `LateAssumption`: a late `Handle`
is for a path of the table). Four arguments that do not meet. `Registered`, `CacheOK` and `Serving`: a handler that is kept for a request, in the
table, the pattern list, a node of the cache or a goroutine, is `Right` for it, that is,
dispatches it as `Expected` says. Every key of the map is the key of its node, and nothing
at all is asked of the links, so that a node that comes back after its eviction (the
finding CacheIsBounded) can make the cache too large but never answer for another
endpoint. `RouteRight` and `PatternRight` are where the table and the pattern list, built
by one pass over the scenarios, meet the reference. `Renewed` (`RenewalTheorem`): once
`Handle` has stored and no lookup of the path was under way, no goroutine is about to cache
the old handler, no entry has it after `Clear`, and a request that began afterwards never gets
it; each operation of the cache keeps the entries it does not remove (`Fewer`, `PutsInto`).
With the first part this is `RoutingTheorem`. `Counted`: the gauge is the number of
goroutines in a processor and RetriesAddUp is inductive as it stands. `Tracked`: `RingOK`
says which part of the history each cell of the ring holds, from which `RingIsWindow`
follows; `NarrowedKeepsRank` says that one call of quickselect leaves less to search and
keeps the rank, hence `Selected`; `AdjustedOK` says that no multiple of AdjustmentFreq with
enough data was passed over, from which the age of the timeout follows. The timeout is
compared with ranks (`IsNthSmallest`) rather than with a sorted list. `FallbackTimeout`,
the length of a request and when a context ends are arbitrary.

Recursive functions are reasoned about by `UpTo`: a set that contains 0 and, with each
number below m, the next, contains m. It is proved by counting (otherwise the numbers of
the set below m would map injectively to a proper part of themselves) and takes the place
of the library's induction theorems, which take a predicate as a parameter. Definitions by
`SelectSeq`, folds and sorting operators were written as recursive functions or by rank
where a proof needs to know what they return. In two CASE expressions the guards
overlapped, which leaves the choice open in TLA+ where the code takes the first; they
are now disjoint.

Only model-checked: the liveness properties, because fairness and ENABLED are outside the
prover's reach. Every invariant and every action property of the passing runs is stated by
a theorem, three of them under the hypothesis `Regular` of their module.

## Not modelled

TLS handshakes, the syntax of headers, request lines and YAML, metrics output, logging,
the command line tools and test helpers: sequential, or input and output only. The
configuration loader and its validator: one pass over a file at start. `icap.ParseRequest`
and the response reader of pkg/icap, which the server does not call. The stream
schema's checks of a scenario file: Init of Exchange starts from templates that passed
them. A panic in the store's own goroutines (they call only encoding and file operations).
An ICAP body file that cannot be read (ResponseBuild has the HTTP body's), and the raw
fallback of a multipart selection by file name or switched off.
Several servers in one process share nothing but the store and the metrics.

## Plan

1. An abstract registry that ShardedRegistry implements as a refinement under `Regular`;
   `Linearizability` has the step that matters.
2. The process with several servers, and an abstract specification of RuntimeManager.

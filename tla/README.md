# Formal models of `twelve`

TLA+ models of the `twelve` crate (utilities for twelve-factor axum
applications): what its parts promise, how they keep the promise under every
interleaving, and where they stop. Paths are relative to the repository's
`src/` tree; `shutdown.rs:43` means `src/shutdown.rs`, line 43.

## 1. The system

| component | state it keeps | operations | talks to |
|---|---|---|---|
| shutdown notification, `src/shutdown.rs` | per future: two optional signal streams; per token: a cancellation flag and a watcher task; process-wide handlers (in Tokio) | `signal()`, `token()`, `register_signal`, `receive_signal` | the OS (signals), Tokio's signal driver, every holder of a token |
| HTTP server, `src/server.rs` | how far `serve()` has got | `serve()` | Listener, axum's accept loop and connection tasks, `shutdown::signal()` |
| listener, `src/listener.rs` | a bound socket and its captured address | `bind`, `accept`, `local_address`, `port` | the kernel, the file system (Unix sockets) |
| frontend version, `src/frontend/version.rs` | the manifest's path (its content is on disk) | `attach` middleware, `read` | the file system, whoever deploys the frontend |
| frontend cache policy, `src/frontend/cache.rs` | none | `set` middleware | file service below it, browser and proxy caches above it |
| URLs, `src/urls.rs` | prefix and origin per request or per application | `internal`, `external`, `public_host`, `redirect_to`, extraction | configuration, request headers |
| configuration, `src/config.rs`, `src/config/external.rs` | none (arguments, standard input, files, environment are outside) | `from_args`, `load`, parsers, `External::load` | everything at start-up |
| error pages, `src/page.rs` | a process-wide `OnceLock` for `DEBUG` | `render`, 404 and 405 handlers, redirect-on-success | the router's layers |
| PostgreSQL start-up, `src/postgres.rs` | the pool it returns | `connect_and_migrate` | the database, other replicas |
| logging, `src/logging.rs` | the process-wide subscriber | `init` | nothing else |

An application (the README's `main`) loads its configuration, initialises
logging, connects and migrates, builds a router and calls `serve()`, which binds
the listener, makes a future with `shutdown::signal()` and drains on it. Other
components may hold tokens from `shutdown::token()`.

### What is hard, and what makes each part correct

* **Shutdown.** Handlers are installed one by one, once per process, and
  may fail; signals arrive at any instant, are recorded by a handler, broadcast
  later by a driver task and read later still by a future nobody may be
  polling yet; a watcher races a signal against a manual cancellation. Correct
  means: nothing owed is lost, nothing resolves without cause, a failure of one
  kind stays with that kind, watchers end, and a registered process is not killed.
* **Server.** The shutdown spreads through the accept loop and each
  connection task at different moments, while clients connect, send, keep
  alive and hang up. Correct means: no request that was read is cut, `Ok` means
  drained, only requests in progress delay the return, and no client is left hanging.
* **Server and shutdown together.** When `serve()` registers decides what
  it can see. Correct means: one signal ends the application.
* **Listener.** Socket files outlive their process. Correct means: the address a
  listener reports is the one clients reach it at, no start takes an address
  away from a listener that runs, and only a socket file is ever left behind.
* **Frontend.** The manifest is read before the handler runs and may be
  replaced meanwhile; caches hold what was sent before. Correct means: no cache keeps an
  entry document or an error as immutable, no conditional request revives an older
  release, a version header is in time, and browsers end up on the last release.
* **URLs.** Joining, extraction order and modes. Correct means: exactly one
  slash at the seam, configured and detected addresses that agree, an address
  whenever detection succeeds, a checked prefix that never panics when a request comes, and
  internal links that name no host.
* **Configuration and logging.** One-shot standard input, documents that fail
  in one value, a credential that rotates between configuration and use, a
  process-wide subscriber installed in two steps.
* **Pages.** A process-wide decision taken by the first of several concurrent
  renders; answers that are lost and asked for again. Correct means: one decision, no form
  carried out twice unasked, every 405 explained, whoever answered it.
* **PostgreSQL.** Replicas of different releases racing to migrate, with
  crashes and lost sessions. Correct means: each migration once and in order, no
  lock left behind, every start returns.

Each hazard, with its line and the properties that cover it, is in
`PROJECT.json`.

## 2. Modules

| module | models | kind |
|---|---|---|
| `ShutdownLatch` | what a future of `signal()` promises | abstract specification |
| `Shutdown` | `src/shutdown.rs` on the OS and Tokio's driver | detailed specification, refines `ShutdownLatch` |
| `ShutdownProofs` | theorems about `Shutdown`, and the refinement | proofs |
| `Serve` | `src/server.rs` on axum and hyper | specification; abstract with respect to `HttpApp` |
| `ServeProofs` | theorems about `Serve` | proofs |
| `HttpApp` | an application: `Shutdown` and `Serve` composed | composition, refines `Serve` |
| `HttpAppProofs` | theorems about the composition | proofs |
| `Listener` | `bind` of `src/listener.rs` in several processes of one host | specification |
| `ListenerProofs` | theorems about `Listener` | proofs |
| `FrontendRoot` | the frontend directory and its deployments | environment of the next three |
| `FrontendCache` | `src/frontend/cache.rs` between a file service and caching browsers | specification |
| `FrontendVersion` | `src/frontend/version.rs` | its actions, without a specification of their own |
| `Frontend` | `src/frontend.rs`: both middleware and the application in the browser | composition |
| `FrontendProofs` | theorems about `FrontendCache` and `Frontend` | proofs |
| `Urls` | `src/urls.rs`, and the checks of `PublicUrl` in `src/config.rs` | operators on strings, and the life of a request |
| `UrlsProofs` | theorems about `Urls`, and lemmas about its operators on strings | proofs |
| `Config` | `src/config.rs`, `src/config/external.rs`, `src/logging.rs` | specification |
| `Page` | `src/page.rs` with browsers | specification |
| `PageProofs` | theorems about `Page` | proofs |
| `MigrationLog` | what `connect_and_migrate` promises | abstract specification |
| `Postgres` | `src/postgres.rs` in several replicas | specification, refines `MigrationLog` |
| `StartupProofs` | theorems about `Config` and `Postgres`, which share no state, and the refinement | proofs |
| `MC...` | instances for TLC | model checking |

Operators headed by the comment "Mutant:" are not part of a specification. Each is
a faulty variant of the definition that follows it, kept to show which
property notices the fault.

### Shutdown

A *future* is one call of `signal()`: a member of `Waiters` for a direct call,
a member of `Tokens` for the call inside `token()`.

| variable | in the code |
|---|---|
| `process` | is the process alive, killed by a default action, or returned from `main` |
| `handler[k]` | Tokio's process-wide registration of `SIGTERM` or `SIGINT`: attempted once, its outcome remembered |
| `pending` | kinds recorded by the handler that the driver has not broadcast |
| `stage[f]` | before the call, at one of three points inside it, future out, resolved, dropped |
| `streams[f]` | which of the two `Option<Signal>` are `Some` |
| `unread[f]` | streams with a notification (at most one each: signals coalesce) |
| `cancelled[t]` | the `CancellationToken` |
| `raised`, `owed`, `timely`, `manual` | history, used by properties only (and the bound `MaxRaised`) |

| action | code |
|---|---|
| `InstallTerminate`, `SubscribeTerminate`, `InstallInterrupt`, `SubscribeInterrupt` | `signal()` (43-57) calling `register_signal` (86-94) twice; each registration is the handler first and the stream second. For a token the last one also returns the token and spawns the watcher (70-83) |
| `Raise`, `Broadcast` | external: the OS runs the handler or the default action; Tokio's driver tells the streams |
| `Resolve`, `SignalReady` | the `select!` (47-56) over `receive_signal` (97-104), where `None` never becomes ready |
| `DropWaiter` | external: the caller drops its future |
| `WatcherSignalled`, `WatcherReleased` | the watcher's `select!` (75-80). If both branches are ready either may win, as `select!` picks at random |
| `CancelToken` | the application cancels a clone (the token is public) |
| `Exit` | external: `main` returns |

That Tokio sees to the handler before it makes the stream is modelled because it
matters: a signal that falls in between, and is broadcast before the stream exists, is lost.
`timely` are the kinds raised outside these moments (`Registering`). Left out are the log lines and the panic outside a runtime.

### Serve

| variable | in the code |
|---|---|
| `phase`, `result` | progress of `serve()` and what it returned (`ServeError`, 32-44) |
| `fired` | the future given to `with_graceful_shutdown` has resolved |
| `tripped` | axum's switch, watched by the accept loop and each connection task |
| `conn[c]`, `sent` | a slot for a connection, reused: none, in the backlog, `fresh` (accepted, nothing received), `reading` (half of its first head received), `busy` (a request is being handled), `open` (idle between requests); has its client sent a request that is unread |
| `closing` | connections with a request in progress (`reading` or `busy`) on which keep-alive has been disabled |
| `outcome` | history: was the last request read on the slot answered, or did the client go |

`Bind`, `StartServing`, `Accept`, `Drained`, `ServeFails` and `SignalFires` are the code's;
`Trip`, `StopAccepting`, `ShutDownConnection`, `ReadRequest`, `Respond`, `Connect`,
`Send`, `SendPart`, `SendRest` and `HangUp` are the library's, the application's and the clients', marked
external in the map. `ServeFails` follows the error path the code handles; the axum
version it is locked to never takes it, so nothing relies on it. hyper closes a connection at once
only while it is idle or has received nothing; once a part of its first head is there it waits for the
rest, which `reading` stands for, and nothing limits that time. One request is in
progress per connection: HTTP/2 multiplexing is left out.

### HttpApp

`HttpApp` extends `Shutdown` with one waiter, `Http`, and instantiates `Serve` with
`fired <- stage[Http] = "done"`. `serve()` makes the future between bind and serving,
in that order, as the code does (`server.rs:17`, `server.rs:22`). `ExitMain`
is the `main` of the repository's README returning what `serve()` returned. Tokens are
taken at any time. `AppNext` conjoins every step with what it leaves alone.

### Listener

| variable | in the code |
|---|---|
| `lst[p]` | what `Listener::bind` (79-107) has made of process `p`'s address: not begun, bound but not yet asked for its address, up with its `LocalAddress`, or failed with one of the four errors |
| `held[n]`, `file[path]` | external: who holds a TCP port; whether a socket file exists and who listens on it |
| `sweeps` | the bound on how often an operator removes a file |

`BindTcp` and `BindUnix` are the first half of `bind`, which the kernel may refuse for any reason, `Capture` and `CaptureFails` the
second, which reads the address back; between the two the socket is open and another process may
run. `Stop` is the end of a process by any cause: the code removes the socket file neither
before a bind nor on the way out, so a stop and a crash leave the same. `Accepts(address)`
is who answers a client that connects there.

### Frontend

`FrontendRoot` has two kinds of deployments, of which `swapped` says which one this is: a release that replaces the
directory in one step, or files that change one by one in any order, the manifest through
empty, invalid, missing and torn contents. `FrontendCache` is the middleware `set` (33-52) with
`is_immutable` (55-60) as `Set`, which strips the conditions of a request that is not for an
asset, lets the file service answer and sets `Cache-Control`; `Send` and `Receive` are browsers,
with what HTTP lets them store (`store`). `FrontendVersion` splits `attach` (56-79) into `ReadManifest`
before the handler and `SetHeader` after it, with deployments in between. In `Frontend` a browser polls
the API, decides to reload when it hears another version (`wanted`), and loads the entry document and the
asset it names.

### Urls

A string is a sequence over `/ \ ? # blank a`, the characters the code, the URI parser or a browser
tells apart: the parser takes a backslash, and a browser reads it as a slash. `ParsePublicUrl`, `InternalPrefix`, `PrefixedPath`, `Internal`, `External`, `Detect` and
`FromRequestParts` are the functions of the code in the order of their checks and with their statuses;
the actions configure or register a source (`Configure`; `RegisterInternal` for
`UrlSource::internal`, which panics on a bad prefix; `Register` for the other sources, among them a prefix put
unchecked into the public variant `InternalOnly`), extract from every
combination of headers, take the configured address outside a request, and build a link. That a link may
panic is modelled, as `Internal` expects what the builder may refuse, and so is that extraction may
(`Panicked`), as it asserts the prefix again for each request (260).

### Config

`FromArgs` and `Load` choose a location, `Read` reads it (standard input hands out
what it has once, a file whatever it holds then) and deserialises all values or none, `Adopt` is the
application going on with a `Core`. `ChangeDisk` and `Rotate` change files meanwhile.
`LoadExternal` is `External::load` on the credential as it is then, with `Rotate` before or after; `InitLogging` and
`InitAdapter` are the two steps of `try_init`, with `OtherLogging` beside them. `Docs`
are documents by how each of their values parses.

### Page

`tab[b]` is a browser's request on its way through the handler (`Handle`, which may also be refused by an
extractor, or answer with a page of an error status, without an `ErrorPage`), the rendering of an
error (`Render`), the 405 middleware (`Middleware`) and back (`Deliver`, `Lose`); several are under
way at once. `detailed` is the `OnceLock`: `ErrorPage` takes the decision from `DEBUG` if it is
the first, and `SwitchDebug` changes the variable. `applied` and `lost` count, per form, how often it was
carried out and how often its answer was lost.

### Postgres

`rep[r]` walks through `connect_and_migrate` (51-66): `Connect`, then the migrator's `Lock`,
`Check`, `Apply`/`Applied` for each migration and `Unlock`, or an error, which drops the pool and with it the
session. `LoseSession`, `Crash` and `Outage` strike between any two steps. The migrator is SQLx's, modelled from
what the code relies on: an advisory lock bound to the session, a transaction per migration, a
check for migrations the replica does not know. Replicas differ in how many migrations they have.
`MigrationLog` keeps only the history and what each start answered; `Outcome` reads that answer off
`rep[r]`, and every other step of the protocol is a stutter.

## 3. What the runs check

| run | instance | states | shows |
|---|---|---|---|
| `shutdown` | 1 token, 1 direct future, each signal up to twice | 39,218 | no owed signal is lost; failures stay with their kind; no shutdown without a cause; no kill after registration; watchers end; refinement of `ShutdownLatch` with its liveness, by which every owed signal arrives |
| `serve` | 3 connection slots | 100,409 | `Ok` means drained; no request that was read is cut; what may delay the return; return once heads and handlers end; nobody left in the backlog |
| `app` | server, 1 slot, 1 token, each signal once | 202,520 | no kill while serving; refinement of `Serve`; one signal ends the server and reaches every token; without tokens a signal ends the process at any point of its life but inside the registration of its kind, and one after that does |
| `app_late_server` | as `app` | | **violation**: first finding below |
| `frontend_cache` | 1 browser sending any request, 3 releases | 326,892 | only whole assets are kept for good; no conditional request revives an older release |
| `frontend` | 1 browser with its application, 3 releases, both kinds of deployment | 832,942 | a version header is in time; one reload suffices where directories are replaced; browsers catch up in every case |
| `urls_fixed` | 2 hosts, every prefix of up to 2 of `/ \ a` and of up to 3 of `/ a`, every character alone and after a slash, every path of up to 2 characters and of up to 3 but the blank | 331,258 | types; one slash at the seam; what a fixed prefix can do to requests and links; detection and extraction agree; when a link names a host |
| `urls_host` | as `urls_fixed`, 1 host | | **violation**: second finding below |
| `config` | 2 threads, 7 documents, 2 rotations of the credential | 710,800 | standard input is read once; no part of a refused document is used, and what is used suits every later stage; logging is ours or an error |
| `listener` | 3 processes, 2 ports, 1 socket path, 2 removals | 5,870 | types; the local address reaches its listener; nobody is taken over; only socket files stay |
| `page` | 2 browsers, 1 form, 2 changes of `DEBUG`, 1 lost answer | 1,183,244 | one decision on details; no form carried out twice; every 405 explained |
| `postgres` | 3 replicas, two of a release with 2 migrations and one of a release with 1; 2 crashes, lost sessions or outages | 38,143 | refinement of `MigrationLog`: a history that only grows by the next migration, and answers that are true of it; ready means migrated; starts do not collide; every start returns |

The type invariants that are not in the table are theorems (section 4), as are `UncancelledIsWatched`,
`OnlySignalsTrip` and `NoLockLeft`.

Deadlock is checked in `frontend_cache`, `frontend`, `listener` and `page`, whose systems never
stop. The others set `CHECK_DEADLOCK FALSE`: the process is killed or exits, `serve()`
returns, a refused configuration ends the application, replicas that are ready stay so.

**Bounds.** `MaxRaised` caps how often each signal is raised: a stream holds one
notification, so a second raise shows coalescing, the signal after one that was lost and the one after the
shutdown has begun, and a third adds nothing. One token and one direct future are the two kinds of future, made at
different times in either order; futures touch each other only through the registration of the
process and the broadcast, so a third future repeats one of them, and the theorems have any number.
Connections interact only through the switch and the wait for all of them; three slots have one waiting,
one idle and one with a request in progress at once, and slots are reused. `app` is smaller, as the parts are
covered on their own; two kinds of signal still give it a second one after a lost one, or during the drain.
Browsers share nothing but the directory, which they only read, so one is enough; three
releases let a request overlap two deployments. The strings of `Urls` are longer than any pattern the code looks at (two
characters at the beginning, slashes at the end, a path with a query): the prefixes hold every order of slashes,
backslashes and letters of that length and each further character where it may stand, the paths every order of all. `Crashes`, `Sweeps`, `Rotations`, `Losses` and `Switches`
bound what the environment does to the code: two give a fault during the recovery from
another, and one lost answer gives the retry. Three processes and three replicas have a waiter behind a
waiter. Symmetry is used where no property is about liveness, over processes,
threads and browsers no definition tells apart. The theorems below hold without bounds.

**Fairness.** Weak fairness where a scheduler guarantees it: a call of `signal()` that
has begun goes on, Tokio's driver broadcasts what is pending, a woken task (a future, a
watcher, the accept loop, a connection) is polled, `serve()` and `main` proceed. None
for signals, clients, dropped futures or cancellations: nobody has to do those. None for
the application's handlers either. Where a property needs handlers to end, it says so as
a hypothesis (`HandlersFinish`), as it does where it needs that clients complete the first head they have
begun (`HeadsFinish`; `AppRequestsFinish` is both), and
`OnlyRequestsDelayReturn` says what is true without them: there is no drain deadline, so a
request that never ends, or a head that never arrives in full, keeps the process up. `HttpOnlyStops` has the further hypothesis that no
token is taken, as it is about applications without any.
`FrontendFairness`: the server answers (weak); the browser's application polls and shows what it gets
(weak), and reloads and asks for its asset when it wants to and can (strong: another
exchange of the same browser may be under way again and again). Deployments are under no
fairness; `BrowsersCatchUp` supposes that the last one has completed. `PgSpec`: a start that can take a step
does (weak), and the database grants its lock to who keeps waiting (strong, as others may take it
in between); `Connect` returns, with a session or with an error whatever its cause, and whoever loses its
session gets an error, so no start waits for ever.

**Finding** (`app_late_server`). `ServesUntilShutdown` takes `server.rs:15`, "Runs an
Axum router until process shutdown", at its word: once the process has caught a
termination signal it ends. It does not when a component takes a token before
`serve()` has called `signal()`, and the signal arrives and is broadcast in between (while the
application migrates, or binds). The token is cancelled, the server's future is made
afterwards and has nothing to read, and `serve()` runs on until a second signal.
`shutdown.rs:10-11` does say that the server listens independently of the token, but not that
it misses what was caught before. Without tokens the signal takes its default action
instead (`HttpOnlyStops`).

**Finding** (`urls_host`). `InternalKeepsHost` takes `urls.rs:8-9`, "relative URLs retain the
visitor's host and port", at its word. Three inputs that the code accepts make `internal()` return a
link that browsers read as naming a host. A configured address whose path begins with two
slashes, `http://h1//a`, passes the checks of `PublicUrl` (`config.rs:256-267`) and becomes the
prefix (`urls.rs:241`), so `internal("")` is `//a/`; so does one that begins with a slash and a backslash,
which the URI parser takes; and under a prefix of slashes alone, `/` say, a path that begins with a backslash
makes `/\a`, as the join trims slashes only (`urls.rs:204-210`). `internal_only` refuses the first two
as prefixes (`urls.rs:161-162`). `HostOnlyAsWritten` says that there is no further cause: what links are
made of must have been written like that by whoever configured the address or asked for the link.

More limits that the models make visible, and that the properties state rather
than hide: a signal that falls into the registration of its own kind can be lost. `HttpOnlyStops` excepts
that moment, by when the signal comes and not by whether it is heard, so that it would notice if any other moment
were like it; a later signal ends the process. Also, after the futures have resolved the handlers stay, so a second
signal is swallowed during the drain (`GracefulOnceRegistered`); a signal between the two
registrations of the first call may still kill the process, which is why that property
speaks of calls that have returned; a socket file outlives every stop, clean or not, and the
next start on its path fails until somebody removes it (`OnlyFilesStay`); a bad prefix put into the public
variant `UrlSource::InternalOnly` panics at each request, not at start-up (`FixedPrefixIsSound` excepts
it); failures other than a 405 reach the browser as the handler, an extractor or the router made them, with or
without a page; a torn manifest is sent as a
version (`HeaderInTime` is about whole ones); and a form whose answer is lost may be carried out again
when the user sends it again (`SubmittedOnce` counts the lost answers).

## 4. What is proved

The theorems hold for every value of the constants, under the assumptions named with them. In each proof
module the invariant is a conjunction of named parts, one lemma shows it of the initial states, one shows
that every step keeps it (one proof step per action), and the theorems follow from it.

* **`ShutdownProofs`**, from `ShutdownAssumption` (calls of `signal()` and `token()` are distinct,
  `MaxRaised` is a natural number). `TypeOK` is inductive alone (`TypeStep`). The other safety
  properties are not. For example `NoLostSignal` survives `Broadcast` only because a future
  still holds the stream of what it is owed (`OwedIsHeld`), and `ShutdownHasCause` survives
  `Resolve` only because a notification comes from a raised and caught signal
  (`NotesAreCaught`), which in turn needs that streams exist only of installed kinds
  (`StreamsInstalled`). `PartialRegistration` needs what holds at each point inside
  the call (`HalfDone`) and that a decision is never revised (`Decided`).
  `IInv` is the conjunction. The theorems `SignalsAreKept`,
  `FailuresAreSeparate`, `ShutdownIsCaused`, `TokensAreWatched` follow, and `ExitIsGraceful` by
  `KilledByDeafKind`: only `Raise` kills, and after `Decided` only through a failed
  handler.
* **Refinement.** `SignalIsALatch`: every step of `Shutdown` is a step of `ShutdownLatch` or a
  stutter, under the mapping that calls a future *due* from the raise of a signal it holds a
  stream for. A raise or a broadcast notifies a set of latches at once (`TellIsNotify`).
  This is the safety half of `ImplementsLatch`.
* **`ServeProofs`.** `ServeInv` adds to the types the order of the shutdown (signal, switch,
  accept loop, return) and that nothing is queued without a listener; `OkIsDrained`
  follows. `RequestsAreFinished` needs the types only.
* **`HttpAppProofs`**, from `HttpAssumption` (the server's is the only direct future). Each
  application step is a step of `Shutdown` or leaves it alone
  (`AppStepIsShutdownStep`), so `IInv` is inherited; and a step of `Serve` or leaves it alone
  (`AppStepIsServeStep`), which gives `AppServes` and, with `ServeTypeStep` taken over from
  `ServeProofs` by instance, `AppTypeCorrect`. `HttpProgress` (the future is out before
  serving begins; the switch is tripped only after it has resolved) yields `SignalsTrip` and
  `ServingIsNotKilled`.
* **`ListenerProofs`**, from `ListenerAssumption` (0 is no port of the host, and "nobody" no process).
  `ListenerInv`: whoever listens on a port holds it (`PortsAreHeld`), a listener on a path has its file
  unless files have been removed (`FilesAreOwned`), the owner of a file listens on it (`OwnersListen`), and
  local addresses are concrete. `LocalAddressIsReached` is that ports have one holder, files one
  owner. `NothingIsTakenOver` and `FilesStay` are by action: only the end of a listener (`Release`) and the
  operator take anything away.
* **`FrontendProofs`**, from `RootAssumption` (there is a release), first about `FrontendCache`.
  `CacheInv`: what is stored of an asset
  is the asset, and the entry document is never immutable (`StoreOK`); a conditional request still
  has the response it validates, and what an answer may hold follows from what was asked
  (`ExchangesOK`). `EntryIsFresh` needs the latter, as the condition is stripped from the request for an
  entry document and its answer therefore is what was on disk meanwhile. Then about `Frontend`:
  `FrontendInv` adds what is read and sent by the version middleware, never
  from before the request (`CallsInTime`, by `DeployForward`), and that a browser asks for the entry
  document after it has heard of the version it wants (`WantedIsThere`). This joins the two
  middleware: `OneReloadIsEnough` is `EntryIsFresh` from there on.
* **`UrlsProofs`**, from `UrlsAssumption` (prefixes and paths are strings over `Chars`, and a host is
  none of the ways a string fails to name one). The operators on strings choose a position with
  `CHOOSE`, so the lemmas first show that it exists (`LeastExists`, `GreatestExists`, from the
  well-foundedness of the natural numbers) and is the only one (`TrimEndIs`, `TrimStartIs`); then
  what a join has at every position (`PrefixedPathIs`, `JoinHas`), that slashes at the seam make no
  difference (`SeamIsOneSlash`) and that no empty segment is added (`JoinAddsNoSegment`).
  `UrlsInv` says where each value comes from: the source from the checks of configuration, the
  configured generator from the source, a reply from the source and some request, a link from a
  generator of the two. `UrlsTypeOK`, `LinkJoins`, `FixedPrefixIsSound` and `DetectionAgrees` follow, because the
  prefixes that pass the checks are clean (`PublicUrlIsClean`, `InternalIsClean`). `HostIsKept` bounds the
  finding above (`HostOnlyAsWritten`), by the two characters any join begins with (`JoinNamesHost`).
* **`PageProofs`**, from `PageAssumption`. `PageInv` says of each tab that its page follows
  from its error and the decision and that a 405 past the middleware is a page of it (`PageOK`), that it holds a form exactly while it posts it
  (`FormOK`), and that while it does, each time the form was carried out, but for the one whose answer is on
  the way, the answer has been lost (`AccountOK`); and that no two tabs hold the same form (`HeldOnce`).
  `FormsAreSubmittedOnce`, `PagesAgree` and `NotAllowedExplained` follow.
* **`StartupProofs`**, about `Config` from `ConfigAssumption` (the documents are documents of `Doc`, with
  a bounded number of rotations). `ConfigInv`: results and the configuration in use are those of a document of
  which every value parses, whole, or nothing (`LoadsOK`); whoever has a configuration from standard
  input has left it empty (part of `StdinOnce`, and what keeps the second reader from one); and
  how far `init` has got tells who holds subscriber and adapter (`LoggingOK`), as a subscriber with the
  configured filter is never mistaken for none. `StdinIsReadOnce`, `CoreIsUsable`, `LoggingIsInstalled` follow,
  and by action `StdinIsDrained`.
* **`StartupProofs`**, about `Postgres` from `PostgresAssumption`. Whoever migrates on an open session holds
  the lock (`MigratorHasLock`), and so what it has learnt of the history stays true
  (`HolderIsCurrent`); migrations are not taken back (`ReadyIsCurrent`). `MigrationsInOrder`,
  `ReadyHasMigrated`, `StartsAreIndependent` and `NoLockIsLeft` follow. **Refinement:** `StartsAreALog`, every step of
  `Postgres` is a step of `MigrationLog` or a stutter (`LogStep`), under the mapping that sees of a start
  whether it runs and how it ended. Connecting, locking, checking and lost sessions are stutters;
  that the migration applied is the next one needs `HolderIsCurrent`, and that a start
  refused for a newer history met one needs `InOrder`.

Only model-checked:

* all liveness (`WatcherTerminates`,
  `OnlyRequestsDelayReturn`, `SignalEndsServe`, `BacklogServed`, `HttpOnlyStops`, `OneSignalStopsAll`,
  `BrowsersCatchUp`, `StartsReturn`, the liveness half of `ImplementsLatch`), because the proof system does
  not reason about fairness and ENABLED here.

Every invariant and every action property that a passing run checks is a theorem. `UrlsProofs` covers strings
of any length, so the short strings of its run are an instance and no limit; that `LinkJoins` names the part of prefix and
path that is kept, instead of filtering characters recursively, is for the proof's sake.

## 5. Not modelled

* The `AsyncRead` and `AsyncWrite` delegation of `Connection` (`listener.rs`): each call is
  forwarded to the stream below and keeps no state.
* `Display`, `Debug` and log lines, the HTML of `page.rs`, and the panic of `signal()` outside a runtime.
* The grammars of TOML, trace filters, socket addresses, URIs and connection options: other
  crates parse them. The models have the classes of outcomes the code distinguishes.
* HTTP/2 multiplexing: one request is under way per connection.
* `lib.rs`: module declarations and a re-export.
* A configuration file read half-written (`config.rs:70`) is among the documents of `Config`, but there is
  no property to state: the code cannot tell it from the one that was meant.

What a larger project would add: an application that composes `Postgres`, `Listener` and
`HttpApp` from start to restart, and instances with two browsers or two
connection slots in the compositions.

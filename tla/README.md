# razvhost in TLA+

razvhost is a virtual-hosting reverse proxy: a config file and, optionally, the
docker daemon say which host names (or host names with a path) go to which
targets, and a router spreads the requests over them. This directory models the
router, the two sources of routes, the way of a request to its target and of the
page back, the writer that rewrites HTML on its way out, and the life of the
process. Source paths are relative to the repository.

## Inventory

| Component | State | Operations | Hard part | What makes it correct |
|---|---|---|---|---|
| Router, `pkg/mux/mux.go` | `entries` (search order), `entryMap` (index), per entry its handlers and a wrapping counter | `Add`, `Remove`, `Handler`, `ContainsHost` | search list and index are updated separately, emptied entries stay in the list, order depends on the order of adds | a lookup answers from the best live path; list and index agree; the pool is shared evenly; the host of a live route is known |
| Config reload, `pkg/config/config.go` | `prevEntries`, `modCounter`, the event channel, the inotify watch | `NewConfig`, watch loop, `handleUpdate`, `getConfigChange` | one goroutine per file event and per batch, a debounce, a watch that ends with its inode | what is served ends up being what the file says, without gaps |
| Docker watch, `pkg/config/dockerwatch.go` | listener channel, converter, out channel | `GetActiveContainers`, `GetConfigEvents`, `convertEvents` | containers are inspected later than their event; a channel of one that drops | running containers are routed, ended ones are not |
| Server, `pkg/server/server.go` | the router, the channels it listens to | `NewServer`, `Listen`, `ProcessEvent(s)`, `ValidateHost`, `ServeHTTP`, `Serve`, `Shutdown`, `Debug` | two listeners feed one router; life cycle | every batch is applied, in order |
| HTML writer, `pkg/stream` | header flags, a pipe, a copying goroutine, the tokenizer | `Write`, `WriteHeader`, `Flush`, `Close` | two goroutines, an unbuffered pipe, clients that leave | nothing lost or reordered; every request ends |
| Handlers, `pkg/handler` | SFTP connections | `handlePathCombinations`, the factory, adapters (proxy, redirect, file, S3, SFTP, PHP, tail, wasm) | combinations of route, request and target path; resources on error paths | a request reaches the same place below the target, a link on the page leads back to where it meant |
| File server, `pkg/fileserver` | none | `resolve`, `Open`, `handleDir` | links followed by hand | an entry of a listing leads to the entry |
| Streamer, `pkg/stream/htmlstreamer.go` | the buffer, `noEscape`, the tokenizer | `Read`, `updateLocation` | two states (tokenizer and counter) that must agree; reads of any size | tokens come out whole; a text means to the browser what it meant before |
| Process, `cmd/razvhost/main.go` | goroutines of `main`, `Serve`, `Debug` | start, signal, shutdown | `log.Fatal` in one goroutine ends the others | a signal ends it, nothing but a signal or a fault does, no half server stays |
| Logger and utilities | response counter | middleware, formatting | the copier counts late | the log tells the size that was sent |

How they interact: the watch loop and the docker converter send batches of
events over channels to `Server.Listen`, which calls `Mux.Add` and `Mux.Remove`
one event at a time; requests call `Mux.Handler` concurrently under the read
lock; handlers write through the HTML writer. `PROJECT.json` lists the
components and, under `hazards`, the places where this can go wrong in ways a
test would hardly reach.

## Modules

**RouteTable** is the abstract router: for every path a pool of handler ids,
`Register`, `Unregister`, and a `Lookup` that answers from the pool of a
matching path that no other matching path outranks. The request is recorded with
its answer, so an answer that would only suit another request is not excused. A plain path outranks every
wildcard path, and any path outranks the paths that are not longer; a plain path
and a longer wildcard path outrank each other, because in the code the order of
their registration decides.

**Mux** translates `mux.go`. A `*muxEntry` is a position in `heap`, `entries`
and `entryMap` hold such positions. Every method holds `Mux.mtx` from its first
statement to its last (the one write under the read lock is the atomic add), so
a method is one action, and an action per branch: `AddEntry`/`AddHandler`,
`RemoveHandler`/`RemoveUnknown`, `HandlerFound`/`HandlerNil`. The insertion loop
is `InsertPos` (where) and `InsertAt` (the shifting append). The counter has
`CounterSize` values, 2^32 in the code. Paths are abstract: their length, their
wildcards and what they match are constants.

**PathMatch** gives these constants their real values: `match` and `matchHost`
on strings as sequences of characters, with `filepath.Match` for literals, `*`
and `?` (external). **MuxBalance** observes the last picks of every entry.
**ConfigFile** is reading: which lines are accepted, the entries of a line,
the difference of two readings. A file is abstracted to its lines after the
templates ran, or to the fact that they fail.

**ConfigReload** composes `config.go` with the server's `loadConfig`, `Listen`
and `ProcessEvent` and with RouteTable as the router. Its goroutines are the
startup (`StartRead`, `StartWatch`), the watch loop (`ReceiveFileEvent`, which
starts a `handleUpdate`, then `AddWatch`), the updates, known by their
`modCount` (`UpdateStart`, `UpdateWake` after the second, `UpdateRead`,
`UpdateApply` under the mutex), the senders (`Send`) and the listener. The event
channel is a queue: its buffer of one and behind it the blocked senders, which
Go serves in the order they came. Whoever edits the file is the environment
(external): writing in place keeps the inode and causes one event, replacing or
deleting it ends the watch and causes two, creating it causes none.

**DockerWatch** composes `dockerwatch.go` with `watchDockerEvents` and `Listen`,
the dispatch of the vendored client library (which drops an event when the
listener is full) and the daemon (external).

**PrefixWriter** is one response through `pathPrefixHTMLResponseWriter`: the
handler's calls, the pipe, the copying goroutine, the connection. A chunk is a
number; the tokenizer may hold chunks back until the pipe is closed.
**RequestLog** puts `LoggerMiddleware` and the `ResponseWriterCounter` around
it: `Write` counts at once, `ReadFrom`, which `io.Copy` uses in the copier,
at its end.

**Lifecycle** is the process: `main` (`NewServer`, `Notify`, `Shutdown`,
`ShutdownDone`), the goroutines of `Serve` and `Debug` (`Listen`, `Fatal`,
`SendError`, `ServeReturns`) and, external, the connections of the internal
server as net/http keeps them (not those of the debug and the challenge server,
which `Shutdown` does not know), signals, ports taken by others, listeners that
break, and a supervisor with `autorestart=true` as in `README.md`. `Exit` is
the end of the process, whichever goroutine causes it; `causes` remembers what
happened to the process from outside.

**Locations** is what the code does to paths: `Strip`
(`handlePathCombinations`), `SingleJoiningSlash`, `UpdateLocation`,
`Redirection`, `DebugRequest`. Paths are sequences over a constant set of
characters, because what the code does to them is textual; what splits and
cleans a path (`Parts`, `Clean`) goes over it character by character, part by
part, as a recursive function. **FileServer** adds a file system as a
constant and, over it, `Resolve`, `Open` and `Listing`. **HtmlStream** is
`HTMLStreamer.Read`: the tokenizer's raw-text state and `noEscape`, and the
buffer a reader empties in pieces. Of a text only its markup characters are
kept: what they spell (a sign, a tag, the end tag of the element around them)
and their level of escaping. `Alive` says when a reader takes them for markup.
A page is `regular` until a counted element comes unpaired (`odd`), or until a
`textarea` or `title` holds its own end tag spelled with entities, which the
streamer makes a real one (`torn`). `whole` remembers whether every token was
given out completely before the next one was read.

**Visit** composes the three: a client types a URL or follows a link of the
page it reads; the request passes the listener (or `Debug`, which takes the
host name from the path and adds a second writer), the route that Mux would
choose, and one action per handler: `ServeProxy`, `ServeRedirect`, `ServeFile`,
`ServePHP`, `ServeWasm`, and for SFTP one per outcome of `sftpFS.Open`. Every
request to SFTP dials an SSH connection that nothing closes (`conns` only
grows). The root of a file or PHP target is its host and path as one name, made
absolute (`FileRoot`). The page comes back token by token through `ReadToken` and `Copy`. What a link
*meant* is defined apart from the code (`Meaning`) and compared with what the
client reaches by following it.

**MCMux, MCBalance, MCReload, MCDocker, MCWriter, MCLifecycle, MCVisit** hold the
instances; **MuxProofs**, **LifecycleProofs**, **WriterProofs**,
**ReloadProofs**, **DockerProofs** and **VisitProofs** the proofs, **SeqLemmas**
the lemmas about sequences that they share, **PathLemmas** those about paths and
the file system.

Definitions whose comment starts with "Mutant of" are wrong variants of the next
definition of that name: each property is checked to fail when one is put in.

## Runs

| Run | Shows |
|---|---|
| `mux` | `IndexSound`, `ListedOnce`, `Precedence` and the refinement of RouteTable over four overlapping paths (`a`, `a/b`, `*`, `*/b`), up to three entries ever made (so that a path can die and come back beside another), two handlers each; the handler ids are symmetric |
| `mux_balance` | `RoundRobin`: n picks of an unchanged pool choose each of its n handlers once, unless the counter wraps; `NoStarvation`: across the wrap, within 2n-1 picks. Pools of up to three and a counter of five values, so that the wrap cuts rounds of two and of three short |
| `reload` | what is served follows the file as long as the watch survived (`WatchedMatchesFile`), the events in flight always lead to `prevEntries` (`EventsLeadToPrev`), a moved host name is never unserved (`NoGap`), the watch is lost only by deleting the file (`WatchSurvives`), and every edit is served in the end (`EditsGetServed`); every kind of edit, contents with a template that fails, a line without arrow, a target that does not parse and one that sometimes cannot be built, two edits from any start |
| `docker` | `RunningRouted` and `ContainersGetServed`: two containers that share a host name and one without a published port, any of them running at the start, four events |
| `writer` | `InOrder`, `CompleteOnReturn`, `EndCountsAll`, `ServedRequestReturns`: up to four chunks, a client that may leave at any time |
| `lifecycle` | `EndsForCause`: the process ends only when it was sent a signal or a port of it was taken or failed, and without a signal only with status 1; `SignalEnds`: a signal that `main` received ends the process; `Recovers`: no half server stays up. Every command line, three signals, two faults, two connections |
| `visit` | a request reaches its place below the target (`RouteStripped`) or the file there (`FileInPlace`), a rewritten link leads where it meant (`LinksLead`) and an entry of a listing to its file (`EntriesLead`), every token of a page comes out whole before the next is read (`StreamExact`), its texts keep their meaning (`TextIntact`): twelve routes of six kinds with and without path and slash, directly and through the debug listener, a file system with links of every kind |
| `mux_host` (violation) | `ContainsHost` is false for every host |
| `reload_slow` (violation) | an update slower than the debounce overwrites the later one |
| `docker_burst` (violation) | a start right behind another event is dropped |
| `writer_stuck` (violation) | after the client left, the handler's next `Write` of HTML blocks for ever |
| `visit_wasm` (violation) | the page of a go-wasm route is looked up under a name it does not have, and the connection is dropped |

`SignalEnds` holds for a reason worth knowing: requests may take for ever (a
tailed log), and `Shutdown` waits for them; but `Shutdown` first closes the
listener, `Serve` returns `ErrServerClosed`, and `log.Fatal` ends the process
with status 1, usually before the requests are done. So the graceful end with
status 0 is a race. No document of the repository promises it, and no property
here claims it.

### Assumptions of the passing runs

- `Prompt` (reload): the one-second wait of an update is longer than what was
  under way when it began. Nothing in the code enforces it; `reload_slow` drops
  it. Everything else interleaves freely, and how long the listener takes is
  not restricted.
- No entry twice in a file (`reload`). With duplicates `WatchedMatchesFile`
  fails: entries are compared as sets but added and removed one by one, so an
  entry listed twice, then once, then not at all is still routed.
- A file that is deleted and created again is never read again, because the
  error of `watcher.Add` is dropped. `WatchLost` is that state; `WatchSurvives`
  says that nothing else leads to it, and `EditsGetServed` excuses it.
- A target in `Unsure` may be refused each time anew; the properties then allow
  the entry to be routed or not, and demand that everything else is right.
- `EarlyEdits = FALSE`: no edit between the first reading and the start of the
  watch. With `TRUE`, `WatchedMatchesFile` fails in six steps: read, write,
  watch, and the old content is served until the next edit.
- `Paced` (docker): the library delivers an event only when the listener has
  room; `docker_burst` drops it. `EarlyChanges = FALSE`: nothing changes between
  the listing and the listener; with `TRUE` a container started in between is
  never routed.
- `StoppedPorts` and `MayExit` (docker): `docker` runs with the realistic values
  (a stopped container shows no bindings, and may end without a stop). There the
  routes of ended containers stay, so `RunningRouted` only claims that no
  running container is forgotten. The exact claim, `SettledMatchesContainers`,
  holds only with `StoppedPorts = TRUE` and `MayExit = FALSE` and a paced
  daemon; changing either value alone violates it.

- Routes of `visit` have no wildcard in their path: `handlePathCombinations`
  takes the path off as text, so for a route such as `example.com/*/files` of
  the repository's README nothing is taken off and `RouteStripped` fails.
- `LinksLead` claims nothing of locations on a proxied page that are not below
  the target's path, and `EntriesLead` nothing of symbolic links that are
  relative or lead out of the root: the code moves the first to another place
  and refuses the second. `FileInPlace` leaves out what is itself a link.
  On PHP pages `LinksLead` leaves out locations that begin with the endpoint's directory
  in the file system, which the rewriting takes off.
- `TextIntact` leaves out what the code does not keep: markup in `noscript` and
  its like, which is escaped; entities spelled out in `textarea` and `title`,
  which come out one level less escaped (`<title>&amp;lt;</title>` is read as
  `<`); and so the end tag of such an element spelled with entities, which ends
  it and makes markup of the text behind it. There the page is torn: its readers
  disagree on where elements end, and the model does not follow it further. On
  odd pages, where a self-closed or stray `script` leaves `noEscape` apart from
  the tokenizer, the texts of `script` and `style` are left out as well, all
  others are not.
- A file target that is a file itself answers requests with `..` or
  `/index.html` at their end with an error or a redirection of net/http
  (`SendsNothing`, `Failed`); the properties claim nothing of these.

### Bounds

`MaxEntries`, `MaxHandlers`, `MaxEdits`, `MaxChanges`, `MaxChunks`, `MaxConns`,
`MaxSignals`, `MaxFaults` and `MaxNest` are the bounds; each stands in a guard.
Two edits are enough for one to overtake the other and for a deletion and a
creation; four docker events for a stop, a restart and an end around a late
inspection; three signals and two faults for a signal before `Notify`, two in
one process, and a fault on either side of a restart. `MaxConns` SFTP
connections is what the SFTP server admits: beyond it only `SftpNoClient` can
happen. `PieceCount` is the length of a token in units of reading; two are
enough for a read that takes a part. `MaxNest` is how far `noEscape` drifts on
an odd page. Deadlock is checked in the runs of Mux, Lifecycle and Visit;
in the others the bounded environment stops and the system comes to rest, which
is what `Settled` describes.

### Fairness

Weak fairness of every goroutine's steps: Go's scheduler runs every runnable
goroutine, a timer fires, a channel operation that can proceed does. Edits,
docker events, clients, signals, faults and the connections of Lifecycle have
none. In PrefixWriter the handler is assumed to return (`WF(Close)`); a handler
blocked in the pipe cannot. In Lifecycle the supervisor is fair too
(`autorestart=true`), and `Recovers` has as a condition that no port stays
taken. Visit states safety only.

## Proofs

`MuxProofs` proves, for every set of paths, every matching relation and all
bounds, that Mux keeps `TypeOK`, `IndexSound`, `ListedOnce` and `Precedence`,
and that it implements RouteTable (`Refinement`). The assumptions are those
named in Mux: the types of the constants, a positive `CounterSize`, and nil
being no handler.

The inductive invariant is the conjunction of the four (`IInv`): `Precedence`
speaks of the paths of listed entries and needs the types; the refinement needs
all of them. Each action has its lemma. The argument for a lookup
(`FirstAnswerIsBest`): the entry of every candidate path is live (`IndexSound`),
hence listed (`ListedOnce`), and not before the first entry that answers, hence
outranked by it (`Precedence`); and the handlers of that entry are the pool of
its path (`IndexSound` again). The argument for `Precedence` under `AddEntry`:
before the insertion point no entry is preceded by the new path; the entry at it
is, and what follows is outranked by that entry, hence by the new one.
`SeqLemmas` states what `InsertAt` and `RemoveFirst` do.

It also proves the load balancing (`RoundRobin`, `NoStarvation`), when a pool may
hold at least one handler and no more than the counter has values (2^32 in the
code); with more handlers than that some would indeed never be picked. The
invariant (`Picks`): the remembered picks of an entry were made from its present
pool, their turns count up and start over, and the last is `muxEntry.next`. The
rest is arithmetic: what the counter shows k steps later (`CycleValues`), that n
consecutive numbers leave every remainder modulo n (`Residues`), and that the
counter, if it wraps within n picks, stands at zero with n picks of the 2n - 1
still to come (`PicksCover`).

`LifecycleProofs` proves, for any number of connections, signals and faults, the
types of Lifecycle (inductive as they stand) and `EndsForCause`. The second
needs to know of every piece of state that leads to the end of the process what
has put it there (`CauseInv`): without a cause no listener is closed, none has
sent to `errChan`, and `main` is not in `Shutdown`; a process that is down leaves
nothing behind for the next. The core of it is `ListenForCause`: no server of the
process is refused its port by another one, because the servers of one command
line have ports of their own (`PortsApart`) and the others are not started.

`WriterProofs` proves, for any number of chunks and any content types, the types
of PrefixWriter and RequestLog, `InOrder`, `CompleteOnReturn` and
`EndCountsAll`, from the assumption named in PrefixWriter. None of the last
three is inductive. `InOrder` needs that a plain `Write` finds nothing held or
in the pipe that it could overtake; `CompleteOnReturn` that the copier of a
lasting connection ends only when the pipe is closed and it holds nothing: both
are in `Flow`. `EndCountsAll` needs that what is counted and what is being
copied is, together, what the connection took, and that nothing is being copied
after the copier's end (`Counted`). The bound of the counter needs that no chunk
is in two places, also after the connection broke (`NoneTwice`). TLC checked the
conjunction (`LogInv`) before it was proved.

`ReloadProofs` proves the types of ConfigReload for any files, host names and
number of edits, and its two action properties. `WatchSurvives` follows from the
types by cases over the steps. `NoGap` needs that in every batch on its way the
events that bring entries come before those that take them away (`OrderInv`).

It then proves the two claims live reload is about. `EventsLeadToPrev`:
the inductive invariant (`ReloadInv`) says, besides the types, that nothing
moves before the start is over (`QuietInv`); that at most one update reads or
applies at a time, and then no sender is still on its way to the channel
(`PromptInv`); and how events, routes and `prevEntries` hang together
(`FlowInv`), entry by entry: between two events that bring an entry one takes it
away, one does before the first if the entry is routed, and whether the last one
brings or takes it is whether the entry is in `prevEntries`. That is kept when
the listener applies the first event and when an update appends its difference.
`WatchedMatchesFile` adds (`FreshInv`) what the start has read (`StartedInv`),
that an update which is overtaken, or whose watch is being renewed, is overtaken
by one that still sleeps (`WakeInv`), and that the newest reading is of the
present file unless a file event or a sleeping update is to come (`CurrentInv`).
The theorems assume `Prompt` and `NoDuplicates` (no file lists an entry twice),
the second one `~EarlyEdits` as well. Each is needed: dropping `Prompt` is the
run `reload_slow`, and with duplicates or early edits TLC finds a violation.

`DockerProofs` proves the types of DockerWatch and `RunningRouted`. The
invariant `TrackInv` follows a running container with a published port through
the stages: its start event is in the daemon's stream, or in the listener, or
the converter is about to bring it, and no later event takes it away; or its
route is made by the last of the events on their way to the router that speak of
it (`Lasts`), or made already. `ListedInv` says the same of the containers found
at the start, `QuietInv` that nothing else happens meanwhile. `StoppedPorts` and
`MayExit` are arbitrary. The theorem assumes `Paced` (without it: `docker_burst`),
`~EarlyChanges`, and `OwnTargets`, that no two containers publish at the same
address: a route is taken away by its target, so that the end of one container
would take away the other's. TLC finds a violation without any of the three.

`VisitProofs` proves `StreamExact` and `TextIntact` for any routes, pages and
sizes of reads. The first needs that an empty buffer means a token given out
whole (`PieceInv`). The second needs how far the streamer, which counts tags, and
the tokenizer, which knows the element it is in, can differ (`NestInv`):
`noEscape` is never above 1 inside a counted element and 0 elsewhere, and on a
regular page it is exactly that. So outside of the elements every text is
escaped (`EscapedText`), also on odd pages, and reading undoes escaping; the
lemmas `ScriptText` and `AreaText` treat the inside of `script` and `textarea`.

It also proves what is said of paths, for any routes, URLs, pages and file
system that the assumptions named in the modules admit. The types (`VisitTypeOK`)
rest on `VisitInv`: hosts stay free of slashes and paths begin with one from the
config file and the client's URL through every rewriting (`TypeInv`, `LinkInv`),
and the stream keeps its types (`StreamInv`). On it rest:

- `RoutesCombine`: `RouteStripped`, when no route has a wildcard (`PlainNames`;
  the path of one is never stripped) and redirections name a host
  (`RedirectsElsewhere`; a `Location` without one is taken for the route's own
  and gets its path).
- `FilesInPlace`: `FileInPlace`, under `PlainNames`. A cleaned path is the list
  of its names (`CleanFrom`), and cleaning the root joined with it keeps both
  lists, so that `Directory.resolve` finds the root as a prefix of the name and
  gives back what was asked for.
- `LinksKeepTheirRoute`: what a writer puts in front of a location is what
  `Server.Debug` and `handlePathCombinations` take off the request for it, so
  that a link leads where it meant or a route below that one answers. The
  invariant `LeadInv` says so of the request on its way, and of the one that
  following the present token would make. Assumed are `PlainNames`, that every
  route names its host (`NamedHosts`; the debug listener puts it into its paths,
  where an empty one is lost) and that targets write no double slash
  (`SingleSlashes`; joining loses one of the two).
- `LinksLeadBack` and `EntriesLeadBack`: `LinksLead` and `EntriesLead`, when no
  route is below another and none has several targets (`Apart`; otherwise the
  other one may rightly answer). The second assumes a file system without
  symbolic links (`NoSymlinks`): `Directory.resolve` follows links by hand and
  otherwise than the operating system, so with them the claim depends on the
  links; the run `visit` has some of every kind.

The run `visit` satisfies all these conditions but `NoSymlinks`.

`Parts`, `KeptParts`, `FollowParts`, `Resolve` and `Stat` are recursive
functions. That they are well defined, and what they are at each step, is proved
in `SeqLemmas` (`RecursionExists`), as is induction over sequences, stated for
the set of sequences that have the property (`AppendInduction`).

TLC checked every inductive invariant before it was proved.

Only model-checked: `EntriesLead` in a file system with symbolic links; and all
liveness (`EditsGetServed`, `ContainersGetServed`, `ServedRequestReturns`,
`SignalEnds`, `Recovers`). Nothing is proved about `GlobMatch`; routes with
wildcards are left out of the theorems about paths.

## Not modelled

Character classes in `filepath.Match`; `Mux.Contains` and `Config.Close`, which
nothing calls; `updateHeaders`; logging apart from the size of the response;
the counting of request bodies and `ByteCountIEC`; the connections of the debug
and the challenge server; how a torn page goes on; the sharing of the router by
the config file and docker (each has a router of its own here); `Flush`; the
second pipe of a response behind the debug listener (its rewriting is in Visit);
queries and percent-encoding (`URL.RawPath`); the S3 and the tail handler, which
pass everything on to a library; what is inside the vendored libraries.

## State and plan

The router with its load balancing, the writer with the log of a response, the
life cycle, both sources of routes and the way of requests and pages are
modelled, and every invariant of a passing run is also proved, some under the
conditions given above. Left are:

1. ConfigReload with Mux in the place of RouteTable, and with docker feeding the
   same router.
2. `EntriesLead` for symbolic links that hold absolute paths below the root.
3. Wildcard routes: what `GlobMatch` accepts, and from it `RouteStripped` for
   routes with a wildcard in the host name only.
